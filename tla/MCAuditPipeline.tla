-------------------------- MODULE MCAuditPipeline --------------------------
(* Small instances of AuditPipeline for TLC.                               *)
EXTENDS AuditPipeline, TLC

CONSTANTS p1, p2, t1, t2, r1, r2, r3, r4

(* Processes, targets and requests are interchangeable; used by the runs   *)
(* without liveness properties.                                            *)
Symmetry == Permutations(Procs) \cup Permutations(Targets) \cup Permutations(Requests)
============================================================================
