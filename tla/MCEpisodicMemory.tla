-------------------------- MODULE MCEpisodicMemory -------------------------
(* EpisodicMemory for TLC: a payload that keeps its signature on the way   *)
(* through JSON, and a finding that loses it.                              *)
EXTENDS EpisodicMemory, TLC

Plain     == {2, 3}
MixedKeys == {2, 10}

PlainContents == {Plain}
BothContents == {Plain, MixedKeys}

Symmetry == Permutations(RecordIds) \cup Permutations(Targets)
============================================================================
