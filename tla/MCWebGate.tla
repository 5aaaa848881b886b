----------------------------- MODULE MCWebGate -----------------------------
(* A web backend with two tabs, a terminal and two requests.                 *)
EXTENDS WebGate, TLC

CONSTANTS c1, c2, a1, a2, t1, t2, web, cli

MCConfirmations == {c1, c2}
MCActions == {a1, a2}
MCTabs == {t1, t2}
MCDeciders == {web, cli}
MCWaiters == {}

Symmetry == Permutations(MCConfirmations) \cup Permutations(MCActions) \cup Permutations(MCTabs)
============================================================================
