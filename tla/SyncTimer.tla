----------------------------- MODULE SyncTimer -----------------------------
(***************************************************************************)
(* The periodic store synchronisation of NewStore (src/core/store.go):     *)
(* one store.Sync() at start-up, then a goroutine selecting between the    *)
(* ticker, a 60 s time.After created afresh on every entry into the        *)
(* select, and stopCh. Sync runs inside the select's case, in the same     *)
(* goroutine.                                                              *)
(*                                                                         *)
(* Time is discrete: one step of Advance is one unit (20 s in the .cfgs).  *)
(* Ticks fall on unit boundaries (the ticker starts at one); a Sync takes  *)
(* a whole number of units, 0 meaning less than one. time.Ticker's channel *)
(* holds one tick and drops the ones that find it full.                    *)
(* When a tick and the timeout fall due in the same unit, the tick is the  *)
(* earlier: the time.After was created after the select was entered, which *)
(* is after the tick before it.                                            *)
(*                                                                         *)
(* store.Close (stopCh) is only deferred in main, which never returns      *)
(* before the process exits; the stop case is not modelled.                *)
(***************************************************************************)
EXTENDS Naturals

CONSTANTS
  SyncTime,   \* -store-sync-time, in units (ticker period; > 0 here)
  Timeout,    \* 60 s, in units
  MaxSync     \* bound: the longest Sync, in units

ASSUME SyncTime \in Nat \ {0} /\ Timeout \in Nat \ {0} /\ MaxSync \in Nat

VARIABLES
  pc,          \* "initSync" (NewStore's own Sync), "sync", or "select"
  nextTick,    \* units until the ticker's next tick
  tickBuf,     \* the ticker channel holds a tick
  after,       \* units until the current time.After fires
  syncLeft,    \* units the running Sync still takes
  elapsed,     \* history: units the running (or last) Sync has taken
  unreported   \* history: the last Sync exceeded 60 s and no timeout
               \* was logged since

vars == <<pc, nextTick, tickBuf, after, syncLeft, elapsed, unreported>>

Durations == 0..MaxSync

Init ==
  /\ pc = "initSync"
  /\ nextTick = SyncTime
  /\ tickBuf = FALSE
  /\ after = Timeout
  /\ syncLeft \in Durations
  /\ elapsed = 0
  /\ unreported = FALSE

(* One unit passes. The goroutine in the select reacts at once to a case  *)
(* that is ready, so time only passes over it while none is; a Sync takes *)
(* the time it takes. The ticker is only created after NewStore's Sync.   *)
Advance ==
  LET ticking == pc # "initSync" IN
  /\ pc = "select" => ~tickBuf /\ after > 0
  /\ pc # "select" => syncLeft > 0
  /\ nextTick' = IF ticking /\ nextTick = 1 THEN SyncTime
                 ELSE IF ticking THEN nextTick - 1 ELSE nextTick
  /\ tickBuf' = (tickBuf \/ (ticking /\ nextTick = 1))
  /\ after' = IF pc = "select" THEN after - 1 ELSE after
  /\ syncLeft' = IF pc = "select" THEN syncLeft ELSE syncLeft - 1
  /\ elapsed' = IF pc = "select" THEN elapsed ELSE elapsed + 1
  /\ UNCHANGED <<pc, unreported>>

(* A Sync returns (NewStore's, or the one of a tick case); the goroutine  *)
(* (re-)enters the select with a fresh time.After(60 s).                  *)
SyncEnd ==
  /\ pc \in {"initSync", "sync"}
  /\ syncLeft = 0
  /\ pc' = "select"
  /\ after' = Timeout
  /\ unreported' = (elapsed > Timeout)
  /\ UNCHANGED <<nextTick, tickBuf, syncLeft, elapsed>>

(* case <-storeTimer.C: store.Sync().                                     *)
SelectTick ==
  /\ pc = "select"
  /\ tickBuf
  /\ tickBuf' = FALSE
  /\ pc' = "sync"
  /\ syncLeft' \in Durations
  /\ elapsed' = 0
  /\ UNCHANGED <<nextTick, after, unreported>>

(* case <-time.After(60 * time.Second): log the timeout, loop, and enter  *)
(* the select again with a new time.After.                                *)
SelectTimeout ==
  /\ pc = "select"
  /\ after = 0
  /\ ~tickBuf
  /\ after' = Timeout
  /\ unreported' = FALSE
  /\ UNCHANGED <<pc, nextTick, tickBuf, syncLeft, elapsed>>

Next == Advance \/ SyncEnd \/ SelectTick \/ SelectTimeout

(* Time passes, and the goroutine takes every case that is ready.         *)
Spec == Init /\ [][Next]_vars /\ WF_vars(Advance) /\ WF_vars(SyncEnd)
          /\ WF_vars(SelectTick) /\ WF_vars(SelectTimeout)

-----------------------------------------------------------------------------
(* A Sync that took longer than 60 s is reported by the timeout log       *)
(* before the next Sync starts.                                           *)
StuckSyncLogged ==
  [][(pc = "select" /\ pc' = "sync") => ~unreported]_vars

=============================================================================
