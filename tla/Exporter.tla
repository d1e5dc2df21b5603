----------------------------- MODULE Exporter -----------------------------
(***************************************************************************)
(* The Prometheus exporter of gorb (src/core/prometheus_exporter.go)       *)
(* scraping the Context while REST handlers mutate it.                     *)
(*                                                                         *)
(* Exporter.collect ranges over ctx.services WITHOUT ctx.mutex; only the   *)
(* GetService and GetBackend calls inside the loop take the read lock, so  *)
(* a mutator can run between any two of its steps. The gauges are package *)
(* globals shared by every scrape: collect sets a label of each GaugeVec,  *)
(* sendMetrics sends all labels set so far and Resets the vector. A       *)
(* collect that fails returns before sendMetrics, leaving its labels set.  *)
(*                                                                         *)
(* A label is a service or a backend pair; gauge values are left out.      *)
(* The range follows Go's rules for a map modified while it is ranged     *)
(* over: a key deleted before it is reached is not produced, a key added  *)
(* may or may not be.                                                      *)
(***************************************************************************)
EXTENDS Context

CONSTANTS
  Scrapers          \* concurrent Prometheus scrapes calling Collect

VARIABLES
  exp,        \* per scrape: where collect is, and history for the properties
  gauges,     \* labels set in the global GaugeVecs
  exported    \* per scrape: the labels its last sendMetrics sent

expVars == <<exp, gauges, exported>>
vars    == <<ctxVars, expVars>>

Labels == VS \cup Pairs

ExpRec == [pc : {"idle", "range", "getService", "backends"},
           orig : SUBSET VS, yielded : SUBSET VS, cur : VS,
           beTodo : SUBSET Pairs, result : {"none", "ok", "err"}]

Init ==
  /\ CtxInit
  /\ exp = [s \in Scrapers |->
              [pc |-> "idle", orig |-> {}, yielded |-> {},
               cur |-> CHOOSE v \in VS : TRUE, beTodo |-> {},
               result |-> "none"]]
  /\ gauges = {}
  /\ exported = [s \in Scrapers |-> {}]

-----------------------------------------------------------------------------
(* Exporter.Collect calls collect, which starts `range e.ctx.services`.   *)
(* orig are the keys the map holds when the range starts.                *)
CollectStart(s) ==
  /\ exp[s].pc = "idle"
  /\ exp' = [exp EXCEPT ![s] = [@ EXCEPT !.pc = "range", !.orig = services,
                 !.yielded = {}, !.result = "none"]]
  /\ UNCHANGED <<ctxVars, gauges, exported>>

(* The range produces a key it has not produced yet that is still there.  *)
RangeNext(s, v) ==
  /\ exp[s].pc = "range"
  /\ v \in services \ exp[s].yielded
  /\ exp' = [exp EXCEPT ![s] = [@ EXCEPT !.pc = "getService", !.cur = v,
                 !.yielded = @ \cup {v}]]
  /\ UNCHANGED <<ctxVars, gauges, exported>>

(* GetService(serviceName) under the read lock. ErrObjectNotFound makes  *)
(* collect return the error: Collect logs it and skips sendMetrics. On    *)
(* success the service gauges are set and service.Backends is a copy of  *)
(* the backends' names.                                                   *)
GetServiceStep(s) ==
  LET v == exp[s].cur IN
  /\ exp[s].pc = "getService"
  /\ \/ /\ v \notin services
        /\ exp' = [exp EXCEPT ![s].pc = "idle", ![s].result = "err"]
        /\ UNCHANGED gauges
     \/ /\ v \in services
        /\ gauges' = gauges \cup {v}
        /\ exp' = [exp EXCEPT ![s].pc = "backends",
                       ![s].beTodo = {p \in backends : p[1] = v}]
  /\ UNCHANGED <<ctxVars, exported>>

(* GetBackend(serviceName, backendName) under the read lock, for one name *)
(* of service.Backends, and the four backend gauges.                      *)
GetBackendStep(s, p) ==
  /\ exp[s].pc = "backends"
  /\ p \in exp[s].beTodo
  /\ \/ /\ p \notin backends
        /\ exp' = [exp EXCEPT ![s].pc = "idle", ![s].result = "err"]
        /\ UNCHANGED gauges
     \/ /\ p \in backends
        /\ gauges' = gauges \cup {p}
        /\ exp' = [exp EXCEPT ![s].beTodo = @ \ {p}]
  /\ UNCHANGED <<ctxVars, exported>>

(* The backends loop of one service is over.                              *)
BackendsDone(s) ==
  /\ exp[s].pc = "backends"
  /\ exp[s].beTodo = {}
  /\ exp' = [exp EXCEPT ![s].pc = "range"]
  /\ UNCHANGED <<ctxVars, gauges, exported>>

(* The range ends once every original key still present was produced;    *)
(* collect returns nil and sendMetrics sends every label of the global    *)
(* GaugeVecs, then Resets them.                                           *)
RangeEnd(s) ==
  /\ exp[s].pc = "range"
  /\ (exp[s].orig \cap services) \subseteq exp[s].yielded
  /\ exported' = [exported EXCEPT ![s] = gauges]
  /\ gauges' = {}
  /\ exp' = [exp EXCEPT ![s].pc = "idle", ![s].result = "ok"]
  /\ UNCHANGED ctxVars

-----------------------------------------------------------------------------
(* The REST handlers' mutators, each atomic under ctx.mutex.             *)
Mutate ==
  /\ \/ \E v \in VS, bundle \in SUBSET RS : CreateService(v, bundle)
     \/ \E v \in VS, r \in RS : CreateBackend(v, r) \/ RemoveBackend(v, r)
     \/ \E v \in VS : RemoveService(v)
  /\ UNCHANGED expVars

(* A stopped pulse goroutine delivers its last update and exits.          *)
ProbeExit ==
  /\ \E r \in DOMAIN probes : r.stopped /\ probes' = BagRemove(probes, r)
  /\ UNCHANGED <<services, backends, weight, health, status, kernelSvc,
                 kernelDest, kweight, expVars>>

Scrape(s) ==
  \/ CollectStart(s) \/ GetServiceStep(s) \/ BackendsDone(s) \/ RangeEnd(s)
  \/ \E v \in VS : RangeNext(s, v)
  \/ \E p \in Pairs : GetBackendStep(s, p)

Next == (\E s \in Scrapers : Scrape(s)) \/ Mutate \/ ProbeExit

(* Scrapes and REST calls come from clients: no fairness.                 *)
Spec == Init /\ [][Next]_vars

-----------------------------------------------------------------------------
ExpTypeOK ==
  /\ CtxTypeOK
  /\ exp \in [Scrapers -> ExpRec]
  /\ gauges \subseteq Labels
  /\ exported \in [Scrapers -> SUBSET Labels]

(* No write to ctx.services happens while collect is ranging over it     *)
(* without the lock (Go aborts with "concurrent map iteration and map    *)
(* write" when it catches one).                                           *)
NoWriteDuringRange ==
  [][(\E s \in Scrapers : exp[s].pc # "idle") => services' = services]_vars
=============================================================================
