------------------------------ MODULE Context ------------------------------
(***************************************************************************)
(* The IPVS Context of gorb (src/unnamed/part_001 and part_002): the       *)
(* services map with the backends of each service, the kernel IPVS table   *)
(* the Context programs, and the pulse goroutines it starts for new        *)
(* backends and stops for removed ones.                                    *)
(*                                                                         *)
(* Every exported mutator (CreateService, CreateBackend, RemoveService,    *)
(* RemoveBackend) takes ctx.mutex exclusively for its whole duration,      *)
(* kernel calls included, so each one is a single atomic action here.      *)
(* A mutator that fails before it changes anything (validation error,      *)
(* ObjectExists, ObjectNotFound, a failed IPVS call) leaves every variable *)
(* unchanged: that is a stuttering step and needs no action of its own.    *)
(* The partial failures, which do change state, are disjuncts below.       *)
(*                                                                         *)
(* Data is abstracted to identities: a service is its vsID, a backend the  *)
(* pair <<vsID, rsID>>; addresses, ports, schedulers and flags only decide *)
(* whether a call succeeds, so they are folded into that choice.           *)
(***************************************************************************)
EXTENDS Integers, FiniteSets, Bags, BagsExt, Functions

CONSTANTS
  VS,               \* vsIDs
  RS,               \* rsIDs
  MaxWeight,        \* ServiceOptions.MaxWeight after Validate (> 0)
  FallbackOf,       \* [VS -> {"fb-default", "fb-zero-to-one"}]
  UpHealths,        \* Metrics.Health values a probe reports with StatusUp (percent)
  DownHealths,      \* Metrics.Health values a probe reports with StatusDown (percent)
  SyscallsMayFail,  \* whether an IPVS call may return an error
  PulseNewMayFail,  \* whether pulse.New may reject a service's pulse options
  MaxProbes,        \* bound: pulse goroutines alive at once (running or draining)
  NoUpdate          \* model value: a probe that is not blocked sending

ASSUME MaxWeight \in Nat \ {0}
ASSUME FallbackOf \in [VS -> {"fb-default", "fb-zero-to-one"}]
ASSUME UpHealths \cup DownHealths \subseteq {0, 50, 100}
ASSUME SyscallsMayFail \in BOOLEAN /\ PulseNewMayFail \in BOOLEAN
ASSUME MaxProbes \in Nat

Pairs   == VS \X RS
Weights == 0..MaxWeight
Healths == UpHealths \cup DownHealths \cup {0}

(* A pulse.Update as the notification loop receives it, without Source.  *)
UpdateRec == [status : {"Up", "Down", "Removed"}, health : Healths]

(* A pulse goroutine: the backend it watches, whether Stop() was called,  *)
(* and the update it is blocked sending on the unbuffered ctx.pulseCh.    *)
ProbeRec == [src : Pairs, stopped : BOOLEAN, offer : UpdateRec \cup {NoUpdate}]

VARIABLES
  services,    \* DOMAIN ctx.services
  backends,    \* {<<vs, rs>> : rs \in DOMAIN ctx.services[vs].backends}
  weight,      \* rs.options.weight, the weight gorb believes IPVS has
  health,      \* rs.metrics.Health
  status,      \* rs.metrics.Status
  kernelSvc,   \* virtual services present in IPVS
  kernelDest,  \* destinations present in IPVS
  kweight,     \* the weight of each IPVS destination
  probes       \* bag of pulse goroutines (ProbeRec), duplicates counted

ctxVars == <<services, backends, weight, health, status,
             kernelSvc, kernelDest, kweight, probes>>

(* The goroutine `go monitor.Loop(...)` starts for a new backend.         *)
NewProbe(p) == [src |-> p, stopped |-> FALSE, offer |-> NoUpdate]

(* f with the entries of the pairs in P set to d.                          *)
Reset(f, P, d) == [q \in Pairs |-> IF q \in P THEN d ELSE f[q]]

(* The bag of probes after monitor.Stop() on the backends in P: the       *)
(* goroutine is told to stop; an update it is blocked sending stays.      *)
StopProbes(P) ==
  LET Stop(r) == IF r.src \in P THEN [r EXCEPT !.stopped = TRUE] ELSE r
  IN  [y \in {Stop(r) : r \in DOMAIN probes} |->
         SumFunctionOnSet(probes, {r \in DOMAIN probes : Stop(r) = y})]

(* Number of running (not stopped) pulse goroutines watching p.           *)
LiveProbes(p) ==
  SumFunctionOnSet(probes, {r \in DOMAIN probes : r.src = p /\ ~r.stopped})

CtxInit ==
  /\ services = {}
  /\ backends = {}
  /\ weight = [p \in Pairs |-> 0]
  /\ health = [p \in Pairs |-> 0]
  /\ status = [p \in Pairs |-> "Up"]
  /\ kernelSvc = {}
  /\ kernelDest = {}
  /\ kweight = [p \in Pairs |-> 0]
  /\ probes = EmptyBag

(* NewContext without -f: ipvs.Flush is not called, so IPVS keeps the      *)
(* services and destinations a previous gorb process left, with whatever  *)
(* weights they had: 0 for a drained one, MaxWeight for one never        *)
(* drained; no mutator reads a leftover weight, so the ones in between  *)
(* add no behaviour.                                                      *)
(* The services map is empty.                                             *)
CtxRestartInit ==
  /\ services = {}
  /\ backends = {}
  /\ weight = [p \in Pairs |-> 0]
  /\ health = [p \in Pairs |-> 0]
  /\ status = [p \in Pairs |-> "Up"]
  /\ kernelSvc \in SUBSET VS
  /\ kernelDest \in SUBSET (kernelSvc \X RS)
  /\ kweight \in {f \in [Pairs -> {0, MaxWeight}] :
                   \A q \in Pairs \ kernelDest : f[q] = 0}
  /\ probes = EmptyBag

(* Fault variants of the definitions below, each the kind of slip the    *)
(* corresponding Go code could make.                                      *)

(* A new destination programmed one above MaxWeight.                      *)
createBackendsOverweight(ok, orphan) ==
  /\ kernelDest' = kernelDest \cup ok \cup orphan
  /\ kweight' = Reset(kweight, (ok \cup orphan) \ kernelDest, MaxWeight + 1)
  /\ backends' = backends \cup ok
  /\ weight' = Reset(weight, ok, 0)
  /\ health' = Reset(health, ok, 0)
  /\ status' = Reset(status, ok, "Up")
  /\ probes' = probes (+) SetToBag({NewProbe(q) : q \in ok})

(***************************************************************************)
(* createBackend for the pairs of ok, all succeeding, and for the pairs of *)
(* orphan, whose AddDestPort succeeded (or was skipped because IPVS had    *)
(* the destination already) before vs.CreateBackend failed in pulse.New.   *)
(* A destination already in the pool keeps its weight; a new one gets      *)
(* MaxWeight. The registered Backend keeps the zero value of               *)
(* options.weight: nothing copies MaxWeight into it.                       *)
(***************************************************************************)
createBackends(ok, orphan) ==
  /\ kernelDest' = kernelDest \cup ok \cup orphan
  /\ kweight' = Reset(kweight, (ok \cup orphan) \ kernelDest, MaxWeight)
  /\ backends' = backends \cup ok
  /\ weight' = Reset(weight, ok, 0)
  /\ health' = Reset(health, ok, 0)
  /\ status' = Reset(status, ok, "Up")
  /\ probes' = probes (+) SetToBag({NewProbe(q) : q \in ok})

(* CreateBackend(vsID, rsID) from the REST API. A failure before or at    *)
(* AddDestPort changes nothing; a failure in pulse.New leaves the kernel  *)
(* destination behind without a Backend.                                  *)
CreateBackend(v, r) ==
  LET p == <<v, r>> IN
  /\ v \in services
  /\ p \notin backends
  /\ BagCardinality(probes) < MaxProbes
  /\ \/ createBackends({p}, {})
     \/ PulseNewMayFail /\ createBackends({}, {p})
  /\ UNCHANGED <<services, kernelSvc>>

(* createService once Validate and AddService (or GetPoolForService     *)
(* finding the service in IPVS) succeeded: the service is installed, then *)
(* createBackend runs for each bundled backend in map order; done are the *)
(* backends created, orphan the one whose pulse.New failed, if any.       *)
createService(v, done, orphan) ==
  /\ v \notin services
  /\ services' = services \cup {v}
  /\ kernelSvc' = kernelSvc \cup {v}
  /\ createBackends(done, orphan)

(* CreateService(vsID, config) from the REST API with the backends of     *)
(* bundle. The first failing createBackend returns, leaving the service   *)
(* installed with the backends created before it.                         *)
CreateService(v, bundle) ==
  LET ps == {v} \X bundle IN
  /\ BagCardinality(probes) + Cardinality(bundle) <= MaxProbes
  /\ \/ createService(v, ps, {})
     \/ \E f \in ps : \E done \in SUBSET (ps \ {f}) :
          \/ createService(v, done, {})
          \/ PulseNewMayFail /\ createService(v, done, {f})

(* RemoveBackend(vsID, rsID): DelDestPort, then vs.RemoveBackend stops    *)
(* the pulse goroutine and deletes the map entry.                         *)
RemoveBackend(v, r) ==
  LET p == <<v, r>> IN
  /\ p \in backends
  /\ kernelDest' = kernelDest \ {p}
  /\ kweight' = Reset(kweight, {p}, 0)
  /\ backends' = backends \ {p}
  /\ weight' = Reset(weight, {p}, 0)
  /\ health' = Reset(health, {p}, 0)
  /\ status' = Reset(status, {p}, "Up")
  /\ probes' = StopProbes({p})
  /\ UNCHANGED <<services, kernelSvc>>

(* Deletes the map entry but not the service's backends.                  *)
RemoveServiceKeepsBackends(v) ==
  LET ps   == {q \in backends : q[1] = v}
      gone == {q \in kernelDest : q[1] = v}
  IN
  /\ v \in services
  /\ kernelSvc' = kernelSvc \ {v}
  /\ kernelDest' = kernelDest \ gone
  /\ kweight' = Reset(kweight, gone, 0)
  /\ services' = services \ {v}
  /\ UNCHANGED backends
  /\ weight' = Reset(weight, ps, 0)
  /\ health' = Reset(health, ps, 0)
  /\ status' = Reset(status, ps, "Up")
  /\ probes' = StopProbes(ps)

(* vs.Cleanup() forgetting monitor.Stop().                                *)
RemoveServiceNoStop(v) ==
  LET ps   == {q \in backends : q[1] = v}
      gone == {q \in kernelDest : q[1] = v}
  IN
  /\ v \in services
  /\ kernelSvc' = kernelSvc \ {v}
  /\ kernelDest' = kernelDest \ gone
  /\ kweight' = Reset(kweight, gone, 0)
  /\ services' = services \ {v}
  /\ backends' = backends \ ps
  /\ weight' = Reset(weight, ps, 0)
  /\ health' = Reset(health, ps, 0)
  /\ status' = Reset(status, ps, "Up")
  /\ UNCHANGED probes

(* RemoveService(vsID): DelService (IPVS drops the service's destinations *)
(* with it), delete the map entry, then vs.Cleanup() stops every backend's*)
(* pulse goroutine and empties the backends map.                          *)
RemoveService(v) ==
  LET ps   == {q \in backends : q[1] = v}
      gone == {q \in kernelDest : q[1] = v}
  IN
  /\ v \in services
  /\ kernelSvc' = kernelSvc \ {v}
  /\ kernelDest' = kernelDest \ gone
  /\ kweight' = Reset(kweight, gone, 0)
  /\ services' = services \ {v}
  /\ backends' = backends \ ps
  /\ weight' = Reset(weight, ps, 0)
  /\ health' = Reset(health, ps, 0)
  /\ status' = Reset(status, ps, "Up")
  /\ probes' = StopProbes(ps)

(* updateBackend(vsID, rsID, w) when it succeeds: UpdateDestPort, then    *)
(* rs.UpdateWeight(w). Returns the previous rs.options.weight.            *)
updateBackend(p, w) ==
  /\ p[1] \in services
  /\ p \in backends
  /\ kweight' = [kweight EXCEPT ![p] = w]
  /\ weight' = [weight EXCEPT ![p] = w]

(* GetService(vsID).Health == 0, computed by CalcServiceStat as the mean  *)
(* of the backends' Metrics.Health (0.0 when there are none). Healths are *)
(* never negative, so the mean is 0 exactly when the sum is.              *)
ServiceHealthIsZero(v) ==
  SumFunctionOnSet(health, {q \in backends : q[1] = v}) = 0

CtxTypeOK ==
  /\ services \subseteq VS
  /\ backends \subseteq Pairs
  /\ weight \in [Pairs -> Weights]
  /\ health \in [Pairs -> Healths]
  /\ status \in [Pairs -> {"Up", "Down"}]
  /\ kernelSvc \subseteq VS
  /\ kernelDest \subseteq Pairs
  /\ kweight \in [Pairs -> Weights]
  /\ IsABag(probes) /\ DOMAIN probes \subseteq ProbeRec
=============================================================================
