--------------------------- MODULE AuditContract ---------------------------
(***************************************************************************)
(* What an audit promises whoever reads its report: the report is written  *)
(* only after every target of the plan was dealt with, and a target once   *)
(* dealt with is not taken back, whatever dies and resumes in between.     *)
(***************************************************************************)
CONSTANT Targets

VARIABLES handled,   \* targets that were analysed, or given up by stage 2
          reported   \* whether a report was ever written

contractVars == <<handled, reported>>

Init == handled = {} /\ reported = FALSE

(* One target is dealt with, perhaps once more.                            *)
Handle(t) ==
    /\ handled' = handled \cup {t}
    /\ UNCHANGED reported

Report ==
    /\ handled = Targets
    /\ reported' = TRUE
    /\ UNCHANGED handled

Next == (\E t \in Targets : Handle(t)) \/ Report

Spec == Init /\ [][Next]_contractVars
============================================================================
