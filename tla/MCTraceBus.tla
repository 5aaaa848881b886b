----------------------------- MODULE MCTraceBus -----------------------------
(* Two messages to one session and two connections to its trace.             *)
EXTENDS TraceBus

CONSTANTS m1, m2, v1, v2

MCMessages == {m1, m2}
MCViewers == {v1, v2}
MCEnds == [m \in MCMessages |-> {"active", "paused_confirmation", "failed"}]
============================================================================
