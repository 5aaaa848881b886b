----------------------------- MODULE AgentLoop -----------------------------
(***************************************************************************)
(* OrchestratorLoop.run: the ReAct loop of the audit agent.  Each          *)
(* iteration asks the model for one action.  A write_execute action is     *)
(* filed for confirmation and the loop blocks in check_confirmation,       *)
(* polling the file until it is decided or the deadline passes; a timeout  *)
(* is recorded on the file as a rejection.  Operators decide meanwhile,    *)
(* from processes of their own (ConfirmationStore).                        *)
(*                                                                         *)
(* The waiters of the store are the loops themselves.  What the model      *)
(* answers is a choice; findings and observations belong to other modules. *)
(***************************************************************************)
EXTENDS Naturals, ConfirmationStore

CONSTANT MaxIterations   \* MAX_ITERATIONS of the code

ASSUME LoopAssumption == MaxIterations \in Nat \ {0}

Loops == Waiters

VARIABLES
    pc,          \* loop -> where it is
    iterations,  \* loop -> iterations started
    waiting,     \* loop -> the id it blocks on or was just granted
    action,      \* loop -> the action it holds in memory for that id
    expired,     \* loop -> whether the deadline of its wait has passed
    performed,   \* history: the dispatches of confirmed actions, <<id, action>>
    timedOut     \* history: ids a loop gave up on

loopVars == <<pc, iterations, waiting, action, expired, performed, timedOut>>
vars == <<storeVars, loopVars>>

Terminal == {"completed", "escalated", "max_iterations_reached", "crashed"}

TypeOK ==
    /\ StoreTypeOK
    /\ pc \in [Loops -> {"think", "poll", "record", "dispatch"} \cup Terminal]
    /\ iterations \in [Loops -> 0..MaxIterations]
    /\ waiting \in [Loops -> Confirmations \cup {NoConf}]
    /\ action \in [Loops -> Actions \cup {NoAction}]
    /\ expired \in [Loops -> BOOLEAN]
    /\ performed \subseteq Confirmations \X (Actions \cup {NoAction})
    /\ timedOut \subseteq Confirmations

Init ==
    /\ StoreInit
    /\ pc = [l \in Loops |-> "think"]
    /\ iterations = [l \in Loops |-> 0]
    /\ waiting = [l \in Loops |-> NoConf]
    /\ action = [l \in Loops |-> NoAction]
    /\ expired = [l \in Loops |-> FALSE]
    /\ performed = {}
    /\ timedOut = {}

-----------------------------------------------------------------------------
Goto(l, there) == pc' = [pc EXCEPT ![l] = there]

(* The head of the while loop: one more iteration, while there are any.    *)
Iterate(l) ==
    /\ pc[l] = "think"
    /\ iterations[l] < MaxIterations
    /\ iterations' = [iterations EXCEPT ![l] = @ + 1]

(* A malformed answer, an action the validator rejects, or the dispatch of *)
(* a read-only one: the loop goes round again.                             *)
ThinkAgain(l) ==
    /\ Iterate(l)
    /\ UNCHANGED <<storeVars, pc, waiting, action, expired, performed, timedOut>>

(* The model ends the run, or names an action ActionType does not have,    *)
(* whose ValueError nothing catches.                                       *)
Conclude(l) ==
    /\ Iterate(l)
    /\ \E stop \in {"completed", "escalated", "crashed"} : Goto(l, stop)
    /\ UNCHANGED <<storeVars, waiting, action, expired, performed, timedOut>>

RunOutOfIterations(l) ==
    /\ pc[l] = "think"
    /\ iterations[l] = MaxIterations
    /\ Goto(l, "max_iterations_reached")
    /\ UNCHANGED <<storeVars, iterations, waiting, action, expired, performed, timedOut>>

(* A valid write_execute action has human_confirmation = False: file it    *)
(* and block.                                                              *)
AskForConfirmation(l, c, a) ==
    /\ Iterate(l)
    /\ RequestConfirmation(c, a)
    /\ waiting' = [waiting EXCEPT ![l] = c]
    /\ action' = [action EXCEPT ![l] = a]
    /\ expired' = [expired EXCEPT ![l] = FALSE]
    /\ Goto(l, "poll")
    /\ UNCHANGED <<performed, timedOut>>

StopWaiting(l) ==
    /\ waiting' = [waiting EXCEPT ![l] = NoConf]
    /\ action' = [action EXCEPT ![l] = NoAction]

(* Mistake for ImplementsGate: a rejected action is not dropped.           *)
SeeRejectedProceeding(l) ==
    /\ pc[l] = "poll"
    /\ ReadStatus(waiting[l]) = "rejected"
    /\ Goto(l, "dispatch")
    /\ UNCHANGED <<storeVars, iterations, waiting, action, expired, performed, timedOut>>

(* check_confirmation sees a decision: proceed, or drop the action and go  *)
(* on with the next iteration.                                             *)
SeeApproved(l) ==
    /\ pc[l] = "poll"
    /\ ReadStatus(waiting[l]) = "approved"
    /\ Goto(l, "dispatch")
    /\ UNCHANGED <<storeVars, iterations, waiting, action, expired, performed, timedOut>>

SeeRejected(l) ==
    /\ pc[l] = "poll"
    /\ ReadStatus(waiting[l]) = "rejected"
    /\ Goto(l, "think")
    /\ StopWaiting(l)
    /\ UNCHANGED <<storeVars, iterations, expired, performed, timedOut>>

DeadlinePasses(l) ==
    /\ pc[l] = "poll"
    /\ expired' = [expired EXCEPT ![l] = TRUE]
    /\ UNCHANGED <<storeVars, pc, iterations, waiting, action, performed, timedOut>>

(* Mistake for ApprovedOnlyByOperator: the timeout fails open.             *)
SeeDeadlineFailOpen(l) ==
    /\ pc[l] = "poll"
    /\ ReadStatus(waiting[l]) = "pending"
    /\ expired[l]
    /\ StartRecord(l, waiting[l], "approved")
    /\ Goto(l, "record")
    /\ UNCHANGED <<file, requestedAs, granted>>
    /\ UNCHANGED <<iterations, waiting, action, expired, performed, timedOut>>

(* Mistake for RunTerminates: an unreadable file is polled with no end.    *)
SeeDeadlineIfReadable(l) ==
    /\ pc[l] = "poll"
    /\ file[waiting[l]].status = "pending"
    /\ expired[l]
    /\ StartRecord(l, waiting[l], "rejected")
    /\ Goto(l, "record")
    /\ UNCHANGED <<file, requestedAs, granted>>
    /\ UNCHANGED <<iterations, waiting, action, expired, performed, timedOut>>

(* No decision was read and the deadline is over: record a rejection.  An  *)
(* operator may decide between this read and the write.                    *)
SeeDeadline(l) ==
    /\ pc[l] = "poll"
    /\ ReadStatus(waiting[l]) = "pending"
    /\ expired[l]
    /\ StartRecord(l, waiting[l], "rejected")
    /\ Goto(l, "record")
    /\ UNCHANGED <<file, requestedAs, granted>>
    /\ UNCHANGED <<iterations, waiting, action, expired, performed, timedOut>>

RecordTimeout(l) ==
    /\ pc[l] = "record"
    /\ ReadForUpdate(l) \/ Truncate(l)
    /\ UNCHANGED loopVars

(* Mistake for TimedOutStaysBlocked: poll again after the timeout.         *)
FinishTimeoutByPolling(l) ==
    /\ pc[l] = "record"
    /\ WriteBack(l)
    /\ Goto(l, "poll")
    /\ timedOut' = timedOut \cup {waiting[l]}
    /\ UNCHANGED <<iterations, waiting, action, expired, performed>>

(* check_confirmation returns rejected without reading the file again.     *)
FinishTimeout(l) ==
    /\ pc[l] = "record"
    /\ WriteBack(l)
    /\ Goto(l, "think")
    /\ timedOut' = timedOut \cup {waiting[l]}
    /\ StopWaiting(l)
    /\ UNCHANGED <<iterations, expired, performed>>

(* human_confirmation := True, then pack.dispatch on the action in memory. *)
Dispatch(l) ==
    /\ pc[l] = "dispatch"
    /\ performed' = performed \cup {<<waiting[l], action[l]>>}
    /\ Goto(l, "think")
    /\ StopWaiting(l)
    /\ UNCHANGED <<storeVars, iterations, expired, timedOut>>

(* The process dies, perhaps while it was recording a timeout.             *)
Crash(l) ==
    /\ pc[l] \notin Terminal
    /\ Goto(l, "crashed")
    /\ writer' = [writer EXCEPT ![l] = Idle]
    /\ contended' = IF pc[l] = "record" THEN contended \cup {waiting[l]} ELSE contended
    /\ UNCHANGED <<file, requestedAs, granted>>
    /\ UNCHANGED <<iterations, waiting, action, expired, performed, timedOut>>

-----------------------------------------------------------------------------
LoopStep(l) ==
    \/ ThinkAgain(l)
    \/ Conclude(l)
    \/ RunOutOfIterations(l)
    \/ \E c \in Confirmations, a \in Actions : AskForConfirmation(l, c, a)
    \/ SeeApproved(l)
    \/ SeeRejected(l)
    \/ SeeDeadline(l)
    \/ RecordTimeout(l)
    \/ FinishTimeout(l)
    \/ Dispatch(l)

OperatorStep(d) == DeciderStep(d) /\ UNCHANGED loopVars

Next ==
    \/ \E l \in Loops : LoopStep(l) \/ DeadlinePasses(l) \/ Crash(l)
    \/ \E d \in Deciders : OperatorStep(d)

(* The agent's process runs and its clock advances; an operator need never *)
(* act.                                                                    *)
Fairness == \A l \in Loops : WF_vars(LoopStep(l)) /\ WF_vars(DeadlinePasses(l))

Spec == Init /\ [][Next]_vars
FairSpec == Spec /\ Fairness

-----------------------------------------------------------------------------
(* What run dispatches as a confirmed action was filed under an id a human *)
(* approved, and is the action that was filed ("Returns approved only if   *)
(* the out-of-band channel set it", check_confirmation).                   *)
DispatchesAreGranted ==
    \A p \in performed : p[1] \in granted /\ p[2] = requestedAs[p[1]]

(* A request the loop gave up on is never dispatched afterwards, however   *)
(* late an approval arrives and whoever's write lands last.                *)
TimedOutStaysBlocked == \A p \in performed : p[1] \notin timedOut

(* run always comes to an end, with nobody ever answering a confirmation:  *)
(* the deadline breaks every wait and MAX_ITERATIONS bounds the rest.      *)
RunTerminates == \A l \in Loops : <>(pc[l] \in Terminal)

Gate == INSTANCE ConfirmationGate WITH requested <- requestedAs

(* The loop implements the abstract gate.                                  *)
ImplementsGate == Gate!Spec
============================================================================
