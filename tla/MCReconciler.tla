---------------------------- MODULE MCReconciler ----------------------------
(* Model values and finite instances of the Reconciler's constants.       *)
EXTENDS Reconciler

CONSTANTS v1, v2, r1, r2

MCVS == {v1}
MCVS2 == {v1, v2}
MCRS == {r1, r2}
MCRS1 == {r1}
MCFallback == [v \in MCVS |-> "fb-default"]
MCFallback2 == [v \in MCVS2 |-> "fb-default"]

(* The ticker alone, or with /store/sync requests racing it.             *)
MCTicker == {Ticker}
MCBothSyncers == {Ticker, Handler}

(* Store entries that pass Validate(nil): the Host is set and every      *)
(* field is known.                                                        *)
MCHostSet == {o \in SvcOpts : o.host = "h" /\ o.proto # "sctp"}

(* Any store entry, with or without Host, valid or not.                  *)
MCAnyOpts == SvcOpts

(* Store entries with or without Host, with a known or an unknown         *)
(* Protocol; a left-out Protocol is MCHostDefault's case.                  *)
MCSetOpts == {o \in SvcOpts : o.proto # ""}

(* Store entries relying on the -i default host and on Validate's         *)
(* defaults for the other fields, next to complete ones.                  *)
MCHostDefault == {[host |-> "", port |-> 1, proto |-> ""],
                  [host |-> "h", port |-> 1, proto |-> "tcp"]}
=============================================================================
