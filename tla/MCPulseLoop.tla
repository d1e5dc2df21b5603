---------------------------- MODULE MCPulseLoop ----------------------------
(* Model-checking instance of PulseLoop: one service, two backends, so a  *)
(* whole service can collapse while one backend is still up.              *)
EXTENDS PulseLoop

CONSTANTS v1, r1, r2

MCVS == {v1}
MCRS == {r1, r2}
MCFallback == [v \in MCVS |-> "fb-zero-to-one"]
=============================================================================
