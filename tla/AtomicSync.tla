----------------------------- MODULE AtomicSync -----------------------------
(***************************************************************************)
(* What the store synchroniser promises about the registry, seen from      *)
(* outside ctx.mutex: the registry changes only by whole synchronisations, *)
(* each applying a snapshot of the store that some syncer read earlier.    *)
(*                                                                         *)
(* reg and regBe are the registry (the options of each registered service *)
(* and backend, Absent for none), st the store's contents as read by      *)
(* getStoreServices, pending the snapshots read and not yet applied, and  *)
(* result what the last synchronisation returned.                         *)
(*                                                                         *)
(* A synchronisation leaves every entry as it was, as the snapshot has    *)
(* it, or removed, and never a backend without its service. What it      *)
(* returns says nothing more: a nil return does not promise that the     *)
(* registry matches the snapshot (Synchronize may remove an entry it has  *)
(* just re-created, see Reconciler's SvcVisit and BeVisit).               *)
(***************************************************************************)
CONSTANTS
  VS, RS,          \* service and backend ids
  Absent,          \* no entry
  Applied(_)       \* the options a registered service gets from a store entry

VARIABLES reg, regBe, st, pending, result

absVars == <<reg, regBe, st, pending, result>>

Pairs == VS \X RS

(* The entry a snapshot c gives service v or backend p.                   *)
FromSvc(c, v) == IF c.svc[v] = Absent THEN Absent ELSE Applied(c.svc[v])
FromBe(c, p)  == c.be[p]

Init ==
  /\ reg = [v \in VS |-> Absent]
  /\ regBe = [p \in Pairs |-> Absent]
  /\ pending = {}
  /\ result = "none"

(* An operator writes the store.                                          *)
Edit ==
  /\ st' # st
  /\ UNCHANGED <<reg, regBe, pending, result>>

(* A syncer reads the whole store.                                        *)
Read ==
  /\ pending' = pending \cup {st}
  /\ UNCHANGED <<reg, regBe, st, result>>

(* A synchronisation applies snapshot c in one step. Another syncer may   *)
(* still hold the same snapshot.                                          *)
Apply ==
  \E c \in pending :
    /\ pending' \in {pending, pending \ {c}}
    /\ \A v \in VS : reg'[v] \in {reg[v], FromSvc(c, v), Absent}
    /\ \A p \in Pairs : regBe'[p] \in {regBe[p], FromBe(c, p), Absent}
    /\ \A p \in Pairs : regBe'[p] # Absent => reg'[p[1]] # Absent
    /\ result' \in {"ok", "err"}
    /\ UNCHANGED st

Next == Edit \/ Read \/ Apply

Spec == Init /\ [][Next]_absVars
=============================================================================
