-------------------------- MODULE AgentLoop_proofs --------------------------
(***************************************************************************)
(* Proofs about AgentLoop for any number of loops, operators, ids and      *)
(* iterations.  The store's part of the inductive invariant comes from     *)
(* ConfirmationStore_proofs; LoopInv adds what a loop knows about the id   *)
(* it waits on.                                                            *)
(***************************************************************************)
EXTENDS AgentLoop, ConfirmationStore_proofs

Waits(l) == pc[l] \in {"poll", "record", "dispatch"}

(* A waiting loop holds in memory the action it filed, and is about to     *)
(* dispatch it only if an operator granted it.                             *)
WaitInv ==
    \A l \in Loops :
        /\ Waits(l) => /\ waiting[l] \in Confirmations
                       /\ requestedAs[waiting[l]] # NoAction
                       /\ action[l] = requestedAs[waiting[l]]
        /\ pc[l] = "dispatch" => waiting[l] \in granted

(* A loop writes to the store only while it records a timeout.             *)
RecordInv ==
    \A l \in Loops :
        /\ pc[l] = "record" => Busy(l) /\ writer[l].id = waiting[l]
        /\ pc[l] # "record" => writer[l] = Idle

(* An id has one fate: nobody waits for it before it is filed, one loop    *)
(* does afterwards, and then it is dispatched or timed out or neither.     *)
FateInv ==
    /\ \A l, m \in Loops : Waits(l) /\ Waits(m) /\ waiting[l] = waiting[m] => l = m
    /\ \A l \in Loops : Waits(l) =>
          /\ waiting[l] \notin timedOut
          /\ \A p \in performed : p[1] # waiting[l]
    /\ \A c \in timedOut : requestedAs[c] # NoAction
    /\ \A p \in performed : requestedAs[p[1]] # NoAction

IInv ==
    /\ TypeOK
    /\ StoreInv
    /\ WaitInv
    /\ RecordInv
    /\ FateInv
    /\ DispatchesAreGranted
    /\ TimedOutStaysBlocked

USE DEF Loops

-----------------------------------------------------------------------------
(* The steps of the loop, as the store sees them.                          *)
LEMMA StepsOfStore ==
    ASSUME IInv, [Next]_vars
    PROVE  StoreStep \/ UNCHANGED storeVars
<1>1. CASE UNCHANGED vars
  BY <1>1 DEF vars, storeVars
<1>2. ASSUME NEW l \in Loops, LoopStep(l)
      PROVE  StoreStep \/ UNCHANGED storeVars
  <2> l \in Writers
    BY DEF Writers
  <2>1. CASE ThinkAgain(l) \/ Conclude(l) \/ RunOutOfIterations(l) \/ SeeApproved(l)
             \/ SeeRejected(l) \/ Dispatch(l)
    BY <2>1 DEF ThinkAgain, Conclude, RunOutOfIterations, SeeApproved, SeeRejected, Dispatch
  <2>2. CASE \E c \in Confirmations, a \in Actions : AskForConfirmation(l, c, a)
    BY <2>2 DEF AskForConfirmation, StoreStep
  <2>3. CASE SeeDeadline(l)
    <3>1. BeginRecord(l, waiting[l], "rejected") /\ waiting[l] \in Confirmations
      BY <2>3 DEF SeeDeadline, BeginRecord, IInv, WaitInv, Waits, StoreInv, StoreTypeOK
    <3>2. QED
      BY <3>1 DEF StoreStep, Statuses
  <2>4. CASE RecordTimeout(l)
    BY <2>4 DEF RecordTimeout, StoreStep
  <2>5. CASE FinishTimeout(l)
    BY <2>5 DEF FinishTimeout, StoreStep
  <2>6. QED
    BY <1>2, <2>1, <2>2, <2>3, <2>4, <2>5 DEF LoopStep
<1>3. ASSUME NEW l \in Loops, DeadlinePasses(l)
      PROVE  StoreStep \/ UNCHANGED storeVars
  BY <1>3 DEF DeadlinePasses
<1>4. ASSUME NEW l \in Loops, Crash(l)
      PROVE  StoreStep \/ UNCHANGED storeVars
  <2>1. l \in Writers
    BY DEF Writers
  <2>2. CASE pc[l] = "record"
    <3>1. WriterDies(l)
      BY <1>4, <2>2, <2>1 DEF Crash, WriterDies, IInv, RecordInv, Busy
    <3>2. QED
      BY <2>1, <3>1 DEF StoreStep
  <2>3. CASE pc[l] # "record"
    BY <1>4, <2>1, <2>3 DEF Crash, IInv, RecordInv, StoreInv, StoreTypeOK, storeVars
  <2>4. QED
    BY <2>2, <2>3
<1>5. ASSUME NEW d \in Deciders, OperatorStep(d)
      PROVE  StoreStep
  <2>1. d \in Writers
    BY DEF Writers
  <2>2. ASSUME NEW c \in Confirmations, NEW s \in {"approved", "rejected"}, Decide(d, c, s)
        PROVE  BeginRecord(d, c, s)
    BY <2>2 DEF Decide, BeginRecord, IInv, StoreInv, StoreTypeOK, FiledInv
  <2>3. QED
    BY <1>5, <2>1, <2>2 DEF OperatorStep, DeciderStep, StoreStep, Statuses
<1>6. QED
  BY <1>1, <1>2, <1>3, <1>4, <1>5 DEF Next

LEMMA StoreInvKept ==
    ASSUME IInv, [Next]_vars
    PROVE  StoreInv' /\ StoreTypeOK'
<1>1. StoreStep \/ UNCHANGED storeVars
  BY StepsOfStore
<1>2. StoreInv
  BY DEF IInv
<1>3. StoreInv'
  BY <1>1, <1>2, StoreStepKeepsInv
<1>4. QED
  BY <1>3 DEF StoreInv

LEMMA InitInv == Init => IInv
<1> SUFFICES ASSUME Init PROVE IInv
  OBVIOUS
<1>1. StoreInv /\ StoreTypeOK
  BY StoreInitInv DEF Init, StoreInv
<1>2. TypeOK
  BY <1>1, LoopAssumption DEF Init, TypeOK, Terminal
<1>3. WaitInv /\ FateInv /\ DispatchesAreGranted /\ TimedOutStaysBlocked
  BY DEF Init, WaitInv, FateInv, Waits, DispatchesAreGranted, TimedOutStaysBlocked
<1>4. RecordInv
  BY DEF Init, StoreInit, RecordInv, Writers
<1>5. QED
  BY <1>1, <1>2, <1>3, <1>4 DEF IInv

-----------------------------------------------------------------------------
(* What an operator does leaves the loops' part of the invariant alone.    *)
LEMMA OperatorKeepsInv ==
    ASSUME IInv, NEW d \in Deciders, OperatorStep(d)
    PROVE  IInv'
<1>1. StoreInv' /\ StoreTypeOK'
  BY StoreInvKept DEF Next
<1>2. /\ UNCHANGED <<loopVars, requestedAs>>
      /\ granted \subseteq granted'
  BY DEF OperatorStep, DeciderStep, Decide, StartRecord, ReadForUpdate, Truncate, WriteBack,
         WriterDies
<1>3. \A l \in Loops : writer'[l] = writer[l]
  BY StoreAssumption DEF OperatorStep, DeciderStep, Decide, StartRecord, ReadForUpdate, Truncate,
         WriteBack, WriterDies, IInv, StoreInv, StoreTypeOK, Writers
<1>4. TypeOK' /\ WaitInv' /\ FateInv' /\ DispatchesAreGranted' /\ TimedOutStaysBlocked'
  BY <1>1, <1>2 DEF loopVars, IInv, TypeOK, WaitInv, Waits, FateInv, DispatchesAreGranted,
                    TimedOutStaysBlocked
<1>5. RecordInv'
  BY <1>2, <1>3 DEF loopVars, IInv, RecordInv, Busy
<1>6. QED
  BY <1>1, <1>4, <1>5 DEF IInv

(* What a loop does.                                                       *)
LEMMA LoopKeepsInv ==
    ASSUME IInv, NEW l \in Loops, LoopStep(l) \/ DeadlinePasses(l) \/ Crash(l)
    PROVE  IInv'
<1> USE DEF Goto, StopWaiting, Waits, Busy
<1> l \in Writers
  BY DEF Writers
<1>1. StoreInv' /\ StoreTypeOK'
  BY StoreInvKept DEF Next
<1>2. TypeOK /\ StoreInv /\ WaitInv /\ RecordInv /\ FateInv
      /\ DispatchesAreGranted /\ TimedOutStaysBlocked
  BY DEF IInv
<1>3. CASE ThinkAgain(l) \/ Conclude(l) \/ RunOutOfIterations(l)
  <2>1. TypeOK'
    BY <1>1, <1>2, <1>3, LoopAssumption
       DEF ThinkAgain, Conclude, RunOutOfIterations, Iterate, TypeOK, Terminal
  <2>2. WaitInv' /\ FateInv' /\ DispatchesAreGranted' /\ TimedOutStaysBlocked'
    BY <1>2, <1>3
       DEF ThinkAgain, Conclude, RunOutOfIterations, Iterate, storeVars, TypeOK, WaitInv, FateInv,
           DispatchesAreGranted, TimedOutStaysBlocked
  <2>3. RecordInv'
    BY <1>2, <1>3
       DEF ThinkAgain, Conclude, RunOutOfIterations, Iterate, storeVars, TypeOK, RecordInv
  <2>4. QED
    BY <1>1, <2>1, <2>2, <2>3 DEF IInv
<1>4. ASSUME NEW c \in Confirmations, NEW a \in Actions, AskForConfirmation(l, c, a)
      PROVE  IInv'
  <2>1. TypeOK'
    BY <1>1, <1>2, <1>4, LoopAssumption DEF AskForConfirmation, Iterate, TypeOK
  <2>2. /\ c \notin timedOut
        /\ \A p \in performed : p[1] # c
        /\ \A m \in Loops : Waits(m) => waiting[m] # c
    BY <1>2, <1>4 DEF AskForConfirmation, RequestConfirmation, WaitInv, FateInv
  <2>3. WaitInv' /\ FateInv' /\ DispatchesAreGranted' /\ TimedOutStaysBlocked'
    BY <1>2, <1>4, <2>2, StoreAssumption
       DEF AskForConfirmation, RequestConfirmation, StoreInv, StoreTypeOK, TypeOK, WaitInv, FateInv,
           DispatchesAreGranted, TimedOutStaysBlocked
  <2>4. RecordInv'
    BY <1>2, <1>4 DEF AskForConfirmation, RequestConfirmation, Iterate, TypeOK, RecordInv
  <2>5. QED
    BY <1>1, <2>1, <2>3, <2>4 DEF IInv
<1>5. CASE SeeApproved(l)
  <2>1. waiting[l] \in granted
    BY <1>2, <1>5 DEF SeeApproved, ReadStatus, WaitInv, StoreInv, ApprovedOnlyByOperator
  <2>2. TypeOK'
    BY <1>1, <1>2, <1>5 DEF SeeApproved, TypeOK
  <2>3. WaitInv' /\ FateInv' /\ DispatchesAreGranted' /\ TimedOutStaysBlocked'
    BY <1>2, <1>5, <2>1
       DEF SeeApproved, storeVars, TypeOK, WaitInv, FateInv, DispatchesAreGranted, TimedOutStaysBlocked
  <2>4. RecordInv'
    BY <1>2, <1>5 DEF SeeApproved, storeVars, TypeOK, RecordInv
  <2>5. QED
    BY <1>1, <2>2, <2>3, <2>4 DEF IInv
<1>6. CASE SeeRejected(l) \/ DeadlinePasses(l)
  <2>1. TypeOK'
    BY <1>1, <1>2, <1>6 DEF SeeRejected, DeadlinePasses, TypeOK
  <2>2. WaitInv' /\ FateInv' /\ DispatchesAreGranted' /\ TimedOutStaysBlocked'
    BY <1>2, <1>6
       DEF SeeRejected, DeadlinePasses, storeVars, TypeOK, WaitInv, FateInv, DispatchesAreGranted,
           TimedOutStaysBlocked
  <2>3. RecordInv'
    BY <1>2, <1>6 DEF SeeRejected, DeadlinePasses, storeVars, TypeOK, RecordInv
  <2>4. QED
    BY <1>1, <2>1, <2>2, <2>3 DEF IInv
<1>7. CASE SeeDeadline(l) \/ RecordTimeout(l)
  <2>1. requestedAs' = requestedAs /\ granted' = granted
    BY <1>7 DEF SeeDeadline, RecordTimeout, ReadForUpdate, Truncate
  <2>2. TypeOK'
    BY <1>1, <1>2, <1>7 DEF SeeDeadline, RecordTimeout, loopVars, TypeOK
  <2>3. WaitInv' /\ FateInv' /\ DispatchesAreGranted' /\ TimedOutStaysBlocked'
    BY <1>2, <1>7, <2>1
       DEF SeeDeadline, RecordTimeout, loopVars, TypeOK, WaitInv, FateInv, DispatchesAreGranted,
           TimedOutStaysBlocked
  <2>4. CASE SeeDeadline(l)
    <3>1. RecordInv'
      BY <1>2, <2>4, StoreAssumption
         DEF SeeDeadline, StartRecord, TypeOK, RecordInv, StoreInv, StoreTypeOK, Writers
    <3>2. QED
      BY <1>1, <2>2, <2>3, <3>1 DEF IInv
  <2>5. CASE RecordTimeout(l)
    <3>1. /\ pc[l] = "record"
          /\ \A m \in Writers \ {l} : writer'[m] = writer[m]
          /\ writer'[l].pc # "idle" /\ writer'[l].id = writer[l].id
      BY <1>2, <2>5 DEF RecordTimeout, ReadForUpdate, Truncate, RecordInv, StoreInv, StoreTypeOK,
                        WriterStates
    <3>2. RecordInv'
      BY <1>2, <2>5, <3>1 DEF RecordTimeout, loopVars, RecordInv, Writers
    <3>3. QED
      BY <1>1, <2>2, <2>3, <3>2 DEF IInv
  <2>6. QED
    BY <1>7, <2>4, <2>5
<1>8. CASE FinishTimeout(l)
  <2>1. requestedAs' = requestedAs /\ granted' = granted /\ Waits(l)
    BY <1>8 DEF FinishTimeout, WriteBack
  <2>2. TypeOK'
    BY <1>1, <1>2, <1>8 DEF FinishTimeout, TypeOK, WaitInv
  <2>3. WaitInv' /\ FateInv' /\ DispatchesAreGranted' /\ TimedOutStaysBlocked'
    BY <1>2, <1>8, <2>1
       DEF FinishTimeout, TypeOK, WaitInv, FateInv, DispatchesAreGranted, TimedOutStaysBlocked
  <2>4. RecordInv'
    BY <1>2, <1>8 DEF FinishTimeout, WriteBack, TypeOK, RecordInv, StoreInv, StoreTypeOK, Writers
  <2>5. QED
    BY <1>1, <2>2, <2>3, <2>4 DEF IInv
<1>9. CASE Dispatch(l)
  <2>1. Waits(l) /\ action[l] = requestedAs[waiting[l]] /\ waiting[l] \in granted
    BY <1>2, <1>9 DEF Dispatch, WaitInv
  <2>2. TypeOK'
    BY <1>1, <1>2, <1>9, <2>1 DEF Dispatch, TypeOK, WaitInv
  <2>3. WaitInv' /\ FateInv' /\ DispatchesAreGranted' /\ TimedOutStaysBlocked'
    BY <1>2, <1>9, <2>1
       DEF Dispatch, storeVars, TypeOK, WaitInv, FateInv, DispatchesAreGranted, TimedOutStaysBlocked
  <2>4. RecordInv'
    BY <1>2, <1>9 DEF Dispatch, storeVars, TypeOK, RecordInv
  <2>5. QED
    BY <1>1, <2>2, <2>3, <2>4 DEF IInv
<1>10. CASE Crash(l)
  <2>1. TypeOK'
    BY <1>1, <1>2, <1>10 DEF Crash, TypeOK, Terminal
  <2>2. WaitInv' /\ FateInv' /\ DispatchesAreGranted' /\ TimedOutStaysBlocked'
    BY <1>2, <1>10
       DEF Crash, TypeOK, WaitInv, FateInv, DispatchesAreGranted, TimedOutStaysBlocked
  <2>3. RecordInv'
    BY <1>2, <1>10 DEF Crash, TypeOK, RecordInv, StoreInv, StoreTypeOK, Writers
  <2>4. QED
    BY <1>1, <2>1, <2>2, <2>3 DEF IInv
<1>11. QED
  BY <1>3, <1>4, <1>5, <1>6, <1>7, <1>8, <1>9, <1>10 DEF LoopStep

LEMMA Inductive == IInv /\ [Next]_vars => IInv'
<1>1. ASSUME IInv, UNCHANGED vars
      PROVE  IInv'
  <2>1. UNCHANGED <<storeVars, loopVars>>
    BY <1>1 DEF vars
  <2>2. StoreInv' /\ StoreTypeOK'
    BY <1>1, StoreInvKept
  <2>3. QED
    BY <1>1, <2>1, <2>2
       DEF storeVars, loopVars, IInv, TypeOK, WaitInv, RecordInv, FateInv, Waits, Busy,
           DispatchesAreGranted, TimedOutStaysBlocked
<1>2. QED
  BY <1>1, OperatorKeepsInv, LoopKeepsInv DEF Next

THEOREM InvariantHolds == Spec => []IInv
BY InitInv, Inductive, PTL DEF Spec

-----------------------------------------------------------------------------
(* AgentLoop's variables keep their types, in particular no run starts     *)
(* more than MaxIterations iterations (while iteration < MAX_ITERATIONS).  *)
THEOREM TypeCorrect == Spec => []TypeOK
BY InvariantHolds, PTL DEF IInv

(* Only an operator makes a request approved, for any number of loops that *)
(* time out and operators that collide on the file.                        *)
THEOREM OnlyOperatorsApprove == Spec => []ApprovedOnlyByOperator
BY InvariantHolds, PTL DEF IInv, StoreInv

(* The body of a request survives every decision that neither overlaps     *)
(* another nor dies half way.                                              *)
THEOREM BodiesSurvive == Spec => []BodySurvivesDecisions
BY InvariantHolds, PTL DEF IInv, StoreInv

(* run dispatches as confirmed only what an operator approved, and exactly *)
(* the action that was filed under that id.                                *)
THEOREM DispatchesGranted == Spec => []DispatchesAreGranted
BY InvariantHolds, PTL DEF IInv

(* What run gave up on is never dispatched afterwards.                     *)
THEOREM TimeoutIsFinal == Spec => []TimedOutStaysBlocked
BY InvariantHolds, PTL DEF IInv

-----------------------------------------------------------------------------
(* The abstract gate.                                                      *)
LEMMA GateStep ==
    ASSUME IInv, [Next]_vars
    PROVE  [Gate!Next]_(Gate!gateVars)
<1> USE DEF Gate!gateVars, Gate!Next
<1>1. CASE UNCHANGED vars
  BY <1>1 DEF vars, storeVars, loopVars
<1>2. ASSUME NEW l \in Loops, LoopStep(l) \/ DeadlinePasses(l) \/ Crash(l)
      PROVE  [Gate!Next]_(Gate!gateVars)
  <2>1. ASSUME NEW c \in Confirmations, NEW a \in Actions, AskForConfirmation(l, c, a)
        PROVE  Gate!File(c, a)
    BY <2>1 DEF AskForConfirmation, RequestConfirmation, Gate!File
  <2>2. ASSUME Dispatch(l)
        PROVE  Gate!Perform(waiting[l]) /\ waiting[l] \in Confirmations
    BY <2>2 DEF Dispatch, Gate!Perform, IInv, WaitInv, Waits, storeVars
  <2>3. CASE ThinkAgain(l) \/ Conclude(l) \/ RunOutOfIterations(l) \/ SeeApproved(l)
             \/ SeeRejected(l) \/ SeeDeadline(l) \/ RecordTimeout(l) \/ FinishTimeout(l)
             \/ DeadlinePasses(l) \/ Crash(l)
    BY <2>3 DEF ThinkAgain, Conclude, RunOutOfIterations, SeeApproved, SeeRejected, SeeDeadline,
                RecordTimeout, FinishTimeout, DeadlinePasses, Crash, ReadForUpdate, Truncate,
                WriteBack, storeVars, loopVars
  <2>4. QED
    BY <1>2, <2>1, <2>2, <2>3 DEF LoopStep
<1>3. ASSUME NEW d \in Deciders, OperatorStep(d)
      PROVE  [Gate!Next]_(Gate!gateVars)
  <2>1. performed' = performed
    BY <1>3 DEF OperatorStep, loopVars
  <2>2. ASSUME NEW c \in Confirmations, Decide(d, c, "approved")
        PROVE  Gate!Grant(c)
    BY <2>1, <2>2 DEF Decide, Gate!Grant, IInv, StoreInv, FiledInv
  <2>3. CASE \/ \E c \in Confirmations : Decide(d, c, "rejected")
             \/ ReadForUpdate(d) \/ Truncate(d) \/ WriteBack(d) \/ WriterDies(d)
    BY <2>1, <2>3 DEF Decide, ReadForUpdate, Truncate, WriteBack, WriterDies
  <2>4. QED
    BY <1>3, <2>2, <2>3 DEF OperatorStep, DeciderStep
<1>4. QED
  BY <1>1, <1>2, <1>3 DEF Next

(* run implements the abstract confirmation gate: every step files a       *)
(* request, grants one, performs a granted one, or is invisible to it.     *)
THEOREM LoopImplementsGate == Spec => ImplementsGate
<1>1. Init => Gate!Init
  BY DEF Init, StoreInit, Gate!Init
<1>2. QED
  BY <1>1, InvariantHolds, GateStep, PTL DEF Spec, ImplementsGate, Gate!Spec
============================================================================
