------------------------- MODULE ConfirmationGate -------------------------
(***************************************************************************)
(* What the out-of-band confirmation gate promises, whoever implements it: *)
(* an irreversible action is filed under a fresh confirmation id, a human  *)
(* may grant that id, and only the action filed under a granted id is ever *)
(* performed.  AgentLoop (the polling loop of run) and ChatConfirmation    *)
(* (the pause and resume of a chat session) both implement it.             *)
(***************************************************************************)
CONSTANTS Confirmations,  \* confirmation ids
          Actions,        \* write_execute actions with their parameters
          NoAction

VARIABLES requested,      \* what was filed under each id, NoAction if nothing
          granted,        \* the ids a human has approved at least once
          performed       \* what was executed, as pairs <<id, action>>

gateVars == <<requested, granted, performed>>

Init ==
    /\ requested = [c \in Confirmations |-> NoAction]
    /\ granted = {}
    /\ performed = {}

(* The agent files one action under an id nobody has used.                 *)
File(c, a) ==
    /\ requested[c] = NoAction
    /\ requested' = [requested EXCEPT ![c] = a]
    /\ UNCHANGED <<granted, performed>>

(* A human approves a filed id; only this step extends granted.            *)
Grant(c) ==
    /\ requested[c] # NoAction
    /\ granted' = granted \cup {c}
    /\ UNCHANGED <<requested, performed>>

(* The action filed under a granted id is executed.                        *)
Perform(c) ==
    /\ c \in granted
    /\ performed' = performed \cup {<<c, requested[c]>>}
    /\ UNCHANGED <<requested, granted>>

Next == \E c \in Confirmations :
            \/ \E a \in Actions : File(c, a)
            \/ Grant(c)
            \/ Perform(c)

Spec == Init /\ [][Next]_gateVars
============================================================================
