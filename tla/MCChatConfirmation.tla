------------------------ MODULE MCChatConfirmation ------------------------
(* ChatConfirmation for TLC: processes, deciders and ids are               *)
(* interchangeable, and no property checked under this reduction is a      *)
(* liveness property.                                                      *)
EXTENDS ChatConfirmation, TLC

Symmetry == Permutations(Procs) \cup Permutations(Deciders) \cup Permutations(Confirmations)
============================================================================
