----------------------------- MODULE MCExporter -----------------------------
(* Model values and finite instances of the Exporter's constants.         *)
EXTENDS Exporter

CONSTANTS v1, v2, r1, s1, s2

MCVS == {v1, v2}
MCRS == {r1}
MCFallback == [v \in MCVS |-> "fb-default"]
MCScrapers1 == {s1}
MCScrapers2 == {s1, s2}
=============================================================================
