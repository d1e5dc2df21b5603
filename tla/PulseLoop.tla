----------------------------- MODULE PulseLoop -----------------------------
(***************************************************************************)
(* The pulse notification loop of gorb (src/core/runtime.go) composed with *)
(* the Context it calls back into and the pulse goroutines that feed it.   *)
(*                                                                         *)
(* Context.run() owns the stash, a map from pulse.ID to the weight a       *)
(* backend had before it went down, and handles one update at a time in    *)
(* processPulseUpdate. That handler takes ctx.mutex three separate times:  *)
(* once to look the backend up and store its metrics, once (shared) in     *)
(* GetService for a Down update, and once in UpdateBackend. Between those  *)
(* critical sections REST mutators may remove or re-create the backend,    *)
(* so each section is its own action and the loop's program counter is    *)
(* the variable loop.                                                      *)
(*                                                                         *)
(* The pulse goroutines (package pulse, not under src/) are modelled from  *)
(* the spec, section 4.3: a running probe repeatedly reports Up or Down    *)
(* with some health; after Stop() it delivers the update it may be blocked *)
(* sending, then a final Removed update, and exits. ctx.pulseCh is         *)
(* unbuffered, so each goroutine has at most one update in flight.         *)
(***************************************************************************)
EXTENDS Context, TLC

VARIABLES
  stash,   \* the stash map of Context.run: pulse.ID -> int32
  loop     \* where processPulseUpdate is, and its locals

vars == <<ctxVars, stash, loop>>

(* loop.phase: "idle" (blocked in select), "up" (about to UpdateBackend   *)
(* to unstash), "downGet" (about to GetService), "downUpdate" (about to   *)
(* UpdateBackend with backendWeight = loop.bw). loop.src and loop.health  *)
(* are u.Source and u.Metrics.Health. loop.stale is a history field, not  *)
(* program state: TRUE when the update came from a stopped goroutine.    *)
Idle == [phase |-> "idle", src |-> CHOOSE p \in Pairs : TRUE,
         health |-> 0, bw |-> 0, stale |-> FALSE]

LoopRec == [phase : {"idle", "up", "downGet", "downUpdate"}, src : Pairs,
            health : Healths, bw : Weights, stale : BOOLEAN]

Init ==
  /\ CtxInit
  /\ stash = << >>
  /\ loop = Idle

(* delete(stash, p) *)
Unstash(p) == [q \in DOMAIN stash \ {p} |-> stash[q]]

-----------------------------------------------------------------------------
(* Pulse goroutines (spec section 4.3).                                    *)

(* A running probe finishes a check and blocks sending its update.        *)
ProbeCheck(r) ==
  /\ ~r.stopped
  /\ r.offer = NoUpdate
  /\ \E u \in [status : {"Up"}, health : UpHealths]
              \cup [status : {"Down"}, health : DownHealths] :
       probes' = BagAdd(BagRemove(probes, r), [r EXCEPT !.offer = u])
  /\ UNCHANGED <<services, backends, weight, health, status,
                 kernelSvc, kernelDest, kweight, stash, loop>>

(* A stopped probe that is not blocked sends its final Removed update.    *)
ProbeSendRemoved(r) ==
  /\ r.stopped
  /\ r.offer = NoUpdate
  /\ probes' = BagAdd(BagRemove(probes, r),
                      [r EXCEPT !.offer = [status |-> "Removed", health |-> 0]])
  /\ UNCHANGED <<services, backends, weight, health, status,
                 kernelSvc, kernelDest, kweight, stash, loop>>

-----------------------------------------------------------------------------
(* processPulseUpdate, first critical section: the loop receives the      *)
(* update r is blocked sending. The goroutine goes back to checking, or   *)
(* exits if the update was its final Removed.                             *)
Delivered(r) ==
  IF r.offer.status = "Removed"
  THEN BagRemove(probes, r)
  ELSE BagAdd(BagRemove(probes, r), [r EXCEPT !.offer = NoUpdate])

(* Fault variant: the "service deleted" branch forgets delete(stash, ...). *)
LoopDropKeepsStash(r) ==
  LET p == r.src IN
  /\ loop.phase = "idle"
  /\ r.offer # NoUpdate
  /\ \/ p[1] \notin services
     \/ p \notin backends
     \/ r.offer.status = "Removed"
  /\ stash' = IF p[1] \notin services THEN stash ELSE Unstash(p)
  /\ probes' = Delivered(r)
  /\ UNCHANGED <<services, backends, weight, health, status,
                 kernelSvc, kernelDest, kweight, loop>>

(* The service or the backend is gone, or the update is Removed: drop the *)
(* stash entry and return.                                                *)
LoopDrop(r) ==
  LET p == r.src IN
  /\ loop.phase = "idle"
  /\ r.offer # NoUpdate
  /\ \/ p[1] \notin services
     \/ p \notin backends
     \/ r.offer.status = "Removed"
  /\ stash' = Unstash(p)
  /\ probes' = Delivered(r)
  /\ UNCHANGED <<services, backends, weight, health, status,
                 kernelSvc, kernelDest, kweight, loop>>

(* The backend exists: rs.metrics = u.Metrics, unlock, then dispatch on    *)
(* the status. An Up update without a stash entry returns here.           *)
LoopRecord(r) ==
  LET p == r.src
      u == r.offer
  IN
  /\ loop.phase = "idle"
  /\ u # NoUpdate
  /\ p[1] \in services
  /\ p \in backends
  /\ u.status # "Removed"
  /\ health' = [health EXCEPT ![p] = u.health]
  /\ status' = [status EXCEPT ![p] = u.status]
  /\ probes' = Delivered(r)
  /\ loop' = IF u.status = "Up" /\ p \notin DOMAIN stash
             THEN Idle
             ELSE [phase |-> IF u.status = "Up" THEN "up" ELSE "downGet",
                   src |-> p, health |-> u.health, bw |-> 0,
                   stale |-> r.stopped]
  /\ UNCHANGED <<services, backends, weight, kernelSvc, kernelDest,
                 kweight, stash>>

(* Up with a stash entry: UpdateBackend to floor(stash * health); when it *)
(* succeeds with the full stashed weight, the entry is deleted.           *)
LoopUnstash ==
  LET p == loop.src
      w == (stash[p] * loop.health) \div 100
  IN
  /\ loop.phase = "up"
  /\ \/ /\ updateBackend(p, w)
        /\ stash' = IF w = stash[p] THEN Unstash(p) ELSE stash
     \/ /\ SyscallsMayFail \/ p \notin backends
        /\ UNCHANGED <<weight, kweight, stash>>
  /\ loop' = Idle
  /\ UNCHANGED <<services, backends, health, status, kernelSvc,
                 kernelDest, probes>>

(* Down: GetService under the shared lock; backendWeight is 1 when the    *)
(* service's health is exactly 0 and its Fallback is fb-zero-to-one, else *)
(* 0. If the service is gone GetService fails and backendWeight stays 0.  *)
LoopFallback ==
  LET v == loop.src[1] IN
  /\ loop.phase = "downGet"
  /\ loop' = [loop EXCEPT
                !.phase = "downUpdate",
                !.bw = IF /\ v \in services
                          /\ ServiceHealthIsZero(v)
                          /\ FallbackOf[v] = "fb-zero-to-one"
                       THEN 1 ELSE 0]
  /\ UNCHANGED <<ctxVars, stash>>

(* Down: UpdateBackend(backendWeight); on success the previous weight is  *)
(* stashed unless an entry exists already.                                *)
LoopStash ==
  LET p == loop.src IN
  /\ loop.phase = "downUpdate"
  /\ \/ /\ updateBackend(p, loop.bw)
        /\ stash' = IF p \in DOMAIN stash THEN stash
                    ELSE (p :> weight[p]) @@ stash
     \/ /\ SyscallsMayFail \/ p \notin backends
        /\ UNCHANGED <<weight, kweight, stash>>
  /\ loop' = Idle
  /\ UNCHANGED <<services, backends, health, status, kernelSvc,
                 kernelDest, probes>>

-----------------------------------------------------------------------------
(* REST mutators: each leaves the stash and the loop alone.               *)
Mutate ==
  /\ \/ \E v \in VS, b \in SUBSET RS : CreateService(v, b)
     \/ \E v \in VS, r \in RS : CreateBackend(v, r)
     \/ \E v \in VS, r \in RS : RemoveBackend(v, r)
     \/ \E v \in VS : RemoveService(v)
  /\ UNCHANGED <<stash, loop>>

ProbeStep ==
  \E r \in DOMAIN probes : ProbeCheck(r) \/ ProbeSendRemoved(r)

Receive(r) == LoopDrop(r) \/ LoopRecord(r)

Next ==
  \/ Mutate
  \/ ProbeStep
  \/ \E r \in DOMAIN probes : Receive(r)
  \/ LoopUnstash
  \/ LoopFallback
  \/ LoopStash

(* Probes run on timers and the loop runs whenever it has work: weak      *)
(* fairness. ctx.pulseCh is unbuffered and Go serves blocked senders in   *)
(* FIFO order, so the goroutines of a backend that are blocked sending    *)
(* are eventually received even though the loop is only intermittently    *)
(* idle: strong fairness per backend. REST callers get no fairness.       *)
ProbeStepOf(p) ==
  \E r \in DOMAIN probes : r.src = p /\ (ProbeCheck(r) \/ ProbeSendRemoved(r))

ReceiveOf(p) == \E r \in DOMAIN probes : r.src = p /\ Receive(r)

Fairness ==
  /\ WF_vars(LoopUnstash \/ LoopFallback \/ LoopStash)
  /\ \A p \in Pairs : WF_vars(ProbeStepOf(p)) /\ SF_vars(ReceiveOf(p))

Spec == Init /\ [][Next]_vars /\ Fairness

-----------------------------------------------------------------------------
TypeOK ==
  /\ CtxTypeOK
  /\ DOMAIN stash \subseteq Pairs
  /\ \A p \in DOMAIN stash : stash[p] \in Weights
  /\ loop \in LoopRec

(* Spec section 7: the in-memory model never diverges from IPVS in the    *)
(* "we think it worked" direction. Every service in ctx.services and      *)
(* every backend in its map is present in IPVS, across partial failures   *)
(* of CreateService, RemoveService's cascade and the loop's updates.      *)
MapBackedByKernel ==
  /\ services \subseteq kernelSvc
  /\ backends \subseteq kernelDest

(* Spec section 3, invariant 4: every backend in the map has exactly one  *)
(* running pulse goroutine, and a backend that was removed (by            *)
(* RemoveBackend, or by RemoveService through vs.Cleanup) has none.        *)
OneLiveProbePerBackend ==
  \A p \in Pairs : LiveProbes(p) = IF p \in backends THEN 1 ELSE 0

(* Spec section 3, lifecycles: a stash entry of a backend that has been   *)
(* removed is eventually deleted by processPulseUpdate (unless a backend  *)
(* with the same ids is created again in the meantime).                   *)
StaleStashEventuallyDropped ==
  \A p \in Pairs :
    [](p \in DOMAIN stash /\ p \notin backends
         => <>(p \notin DOMAIN stash \/ p \in backends))

-----------------------------------------------------------------------------
(* Properties that state what the spec and the tests say of the code.      *)

(* Spec section 8, scenario 2, and TestPulseUpdateSetsBackendWeightToZero- *)
(* OnStatusDown: when processPulseUpdate stashes a backend on a Down       *)
(* update, the stashed value is the weight the backend had in IPVS.        *)
StashHoldsPriorKernelWeight ==
  [][\A p \in Pairs :
       p \notin DOMAIN stash /\ p \in DOMAIN stash' => stash'[p] = kweight[p]
    ]_vars

(* Spec section 8, scenario 6: once a backend is deleted, no update from  *)
(* its pulse goroutine leads processPulseUpdate to a kernel call, even if *)
(* a backend with the same vsID and rsID has been created since.          *)
StaleUpdateNeverApplied ==
  loop.phase # "idle" => ~loop.stale

(* Spec section 4.2 and the comment on ZeroToOne in part_001: with        *)
(* fb-zero-to-one, when every backend of a service is down, at least one  *)
(* keeps weight 1 so the collapsed service keeps a path open.             *)
ZeroToOneKeepsPathOpen ==
  loop.phase = "idle" =>
    \A v \in services :
      LET bs == {q \in backends : q[1] = v} IN
      (/\ FallbackOf[v] = "fb-zero-to-one"
       /\ bs # {}
       /\ \A q \in bs : status[q] = "Down")
        => \E q \in bs : kweight[q] >= 1

(* Spec section 3, invariant 3: a destination is in IPVS if and only if   *)
(* its Backend is in the map; this is the direction "only if": no         *)
(* destination is left in IPVS without a Backend (and its health check).  *)
KernelBackedByMap ==
  \A p \in kernelDest : p \in backends
=============================================================================
