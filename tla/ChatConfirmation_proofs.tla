----------------------- MODULE ChatConfirmation_proofs -----------------------
(***************************************************************************)
(* Proofs about ChatConfirmation for any number of chat processes,         *)
(* sessions, operators and ids.                                            *)
(***************************************************************************)
EXTENDS ChatConfirmation, ConfirmationStore_proofs, FiniteSetTheorems

(* A process refers to ids that were filed, and executes only what it read *)
(* from an approved request with its body.                                 *)
ProcInv ==
    \A p \in Procs :
        /\ proc[p].pending # NoConf => requestedAs[proc[p].pending] # NoAction
        /\ proc[p].pc = "execute" => /\ proc[p].pending \in granted
                                     /\ proc[p].action = requestedAs[proc[p].pending]

IInv ==
    /\ TypeOK
    /\ StoreInv
    /\ ProcInv
    /\ SnapshotConsistent
    /\ ExecutionsAreGranted

-----------------------------------------------------------------------------
(* The steps of the chat, as the store sees them.                          *)
LEMMA StepsOfStore ==
    ASSUME StoreInv, [Next]_vars
    PROVE  StoreStep \/ UNCHANGED storeVars
<1>1. CASE UNCHANGED vars
  BY <1>1 DEF vars, storeVars
<1>2. ASSUME NEW p \in Procs, ProcStep(p)
      PROVE  StoreStep \/ UNCHANGED storeVars
  <2>1. CASE \E c \in Confirmations, a \in Actions : HandleTurnConfirm(p, c, a)
    BY <2>1 DEF HandleTurnConfirm, StoreStep
  <2>2. CASE ~ \E c \in Confirmations, a \in Actions : HandleTurnConfirm(p, c, a)
    BY <1>2, <2>2
       DEF ProcStep, StartSession, ResumeSession, ResumePending, ResumeRejected, ResumeApproved,
           ResumeUnusable, Execute, RecordStatus, SaveResumed, HandleTurn, SavePaused, Quit,
           DieAfterExecuting
  <2>3. QED
    BY <2>1, <2>2
<1>3. ASSUME NEW d \in Deciders, OperatorStep(d)
      PROVE  StoreStep
  <2>1. d \in Writers
    BY DEF Writers
  <2>2. ASSUME NEW c \in Confirmations, NEW s \in {"approved", "rejected"}, Decide(d, c, s)
        PROVE  BeginRecord(d, c, s)
    BY <2>2 DEF Decide, BeginRecord, StoreInv, StoreTypeOK, FiledInv
  <2>3. QED
    BY <1>3, <2>1, <2>2 DEF OperatorStep, DeciderStep, StoreStep, Statuses
<1>4. QED
  BY <1>1, <1>2, <1>3 DEF Next

LEMMA StoreInvKept ==
    ASSUME StoreInv, [Next]_vars
    PROVE  StoreInv' /\ StoreTypeOK'
<1>1. StoreInv'
  BY StepsOfStore, StoreStepKeepsInv
<1>2. QED
  BY <1>1 DEF StoreInv

LEMMA InitInv == Init => IInv
<1> SUFFICES ASSUME Init PROVE IInv
  OBVIOUS
<1>1. StoreInv /\ StoreTypeOK
  BY StoreInitInv DEF Init, StoreInv
<1>2. TypeOK
  BY <1>1 DEF Init, TypeOK, Snapshots, ProcStates, Off, ProcOK
<1>3. ProcInv /\ SnapshotConsistent /\ ExecutionsAreGranted
  BY DEF Init, ProcInv, SnapshotConsistent, ExecutionsAreGranted, Off
<1>4. QED
  BY <1>1, <1>2, <1>3 DEF IInv

-----------------------------------------------------------------------------
(* A decision changes neither sessions nor processes, and no file goes     *)
(* missing.                                                                *)
LEMMA OperatorKeepsInv ==
    ASSUME IInv, NEW d \in Deciders, OperatorStep(d)
    PROVE  IInv'
<1>1. StoreInv' /\ StoreTypeOK'
  BY StoreInvKept DEF IInv, Next
<1>2. /\ UNCHANGED <<chatVars, requestedAs>>
      /\ granted \subseteq granted'
  BY DEF OperatorStep, DeciderStep, Decide, StartRecord, ReadForUpdate, Truncate, WriteBack,
         WriterDies
<1>3. TypeOK' /\ ProcInv' /\ ExecutionsAreGranted'
  BY <1>1, <1>2 DEF chatVars, IInv, TypeOK, ProcInv, ExecutionsAreGranted
<1>4. SnapshotConsistent'
  BY <1>1, <1>2 DEF chatVars, IInv, TypeOK, Snapshots, StoreInv, FiledInv, SnapshotConsistent
<1>5. QED
  BY <1>1, <1>3, <1>4 DEF IInv

LEMMA BecomeKeepsTypes ==
    ASSUME TypeOK, NEW p \in Procs, NEW state \in ProcStates, ProcOK(state), Become(p, state)
    PROVE  proc' \in [Procs -> ProcStates] /\ \A q \in Procs : ProcOK(proc'[q])
BY DEF TypeOK, Become

(* What a chat process does.                                               *)
LEMMA ProcKeepsInv ==
    ASSUME IInv, NEW p \in Procs, ProcStep(p)
    PROVE  IInv'
<1> USE DEF AtPrompt, SaveSession, History, Off
<1>1. StoreInv' /\ StoreTypeOK'
  BY StoreInvKept DEF IInv, Next
<1>2. TypeOK /\ StoreInv /\ ProcInv /\ SnapshotConsistent /\ ExecutionsAreGranted
  BY DEF IInv
<1>3. ProcOK(proc[p]) /\ proc[p] \in ProcStates
  BY <1>2 DEF TypeOK
<1>4. ASSUME NEW s \in Sessions, StartSession(p, s) \/ ResumeSession(p, s)
      PROVE  IInv'
  <2>1. PICK state \in ProcStates :
          /\ ProcOK(state) /\ Become(p, state)
          /\ state.pc # "execute" /\ state.pending \in {NoConf, snapshot[s].pending}
    <3>1. CASE StartSession(p, s)
      BY <3>1, <1>2, StoreAssumption, ChatAssumption DEF StartSession, ProcStates, ProcOK
    <3>2. CASE ResumeSession(p, s) /\ snapshot[s].status = "paused_confirmation"
      <4> DEFINE resumed == [AtPrompt(s, snapshot[s].pending) EXCEPT !.pc = "resume"]
      <4>1. snapshot[s].pending \in Confirmations
        BY <3>2, <1>2 DEF TypeOK, Snapshots, SnapshotConsistent
      <4>2. Become(p, resumed)
        BY <3>2 DEF ResumeSession
      <4>3. resumed \in ProcStates /\ ProcOK(resumed)
        BY <4>1, StoreAssumption, ChatAssumption DEF ProcStates, ProcOK
      <4>4. QED
        BY <4>2, <4>3
    <3>3. CASE ResumeSession(p, s) /\ snapshot[s].status # "paused_confirmation"
      <4>1. snapshot[s].pending \in Confirmations \cup {NoConf}
        BY <1>2 DEF TypeOK, Snapshots
      <4>2. AtPrompt(s, snapshot[s].pending) \in ProcStates
        BY <4>1 DEF ProcStates
      <4>3. ProcOK(AtPrompt(s, snapshot[s].pending))
        BY ChatAssumption DEF ProcOK
      <4>4. Become(p, AtPrompt(s, snapshot[s].pending))
        BY <3>3 DEF ResumeSession
      <4>5. QED
        BY <4>2, <4>3, <4>4
    <3>4. QED
      BY <1>4, <3>1, <3>2, <3>3
  <2>2. TypeOK'
    BY <1>1, <1>2, <1>4, <2>1, BecomeKeepsTypes
       DEF StartSession, ResumeSession, TypeOK, Snapshots, SessionStatuses
  <2>3. ProcInv' /\ SnapshotConsistent' /\ ExecutionsAreGranted'
    BY <1>2, <1>4, <2>1
       DEF StartSession, ResumeSession, Become, storeVars, TypeOK, Snapshots, ProcInv,
           SnapshotConsistent, ExecutionsAreGranted, StoreInv, FiledInv
  <2>4. QED
    BY <1>1, <2>2, <2>3 DEF IInv
<1>5. CASE ResumePending(p) \/ ResumeRejected(p) \/ ResumeUnusable(p)
  <2>1. PICK state \in ProcStates :
          /\ ProcOK(state) /\ Become(p, state)
          /\ state.pc # "execute" /\ state.pending \in {NoConf, proc[p].pending}
    BY <1>3, <1>5 DEF ResumePending, ResumeRejected, ResumeUnusable, ProcStates, ProcOK
  <2>2. TypeOK'
    <3>1. snapshot' \in [Sessions -> Snapshots]
      BY <1>2, <1>5 DEF ResumePending, ResumeRejected, ResumeUnusable, TypeOK, Snapshots,
                        SessionStatuses
    <3>2. proc' \in [Procs -> ProcStates] /\ \A q \in Procs : ProcOK(proc'[q])
      BY <1>2, <2>1, BecomeKeepsTypes
    <3>3. UNCHANGED <<performed, runs, interrupted, statusEvents>>
      BY <1>5 DEF ResumePending, ResumeRejected, ResumeUnusable
    <3>4. QED
      BY <1>1, <1>2, <3>1, <3>2, <3>3 DEF TypeOK
  <2>3. ProcInv' /\ SnapshotConsistent' /\ ExecutionsAreGranted'
    BY <1>2, <1>5, <2>1
       DEF ResumePending, ResumeRejected, ResumeUnusable, Become, storeVars, TypeOK, ProcInv,
           SnapshotConsistent, ExecutionsAreGranted
  <2>4. QED
    BY <1>1, <2>2, <2>3 DEF IInv
<1>6. CASE ResumeApproved(p)
  <2>1. /\ proc[p].pending \in Confirmations
        /\ proc[p].pending \in granted
        /\ file[proc[p].pending].action = requestedAs[proc[p].pending]
    BY <1>2, <1>3, <1>6 DEF ResumeApproved, ProcOK, ProcStates, StoreInv, ApprovedOnlyByOperator,
                            BodySurvivesDecisions
  <2>2. TypeOK'
    BY <1>1, <1>2, <1>3, <1>6, <2>1
       DEF ResumeApproved, Become, TypeOK, StoreTypeOK, FileContents, ProcStates, ProcOK
  <2>3. ProcInv' /\ SnapshotConsistent' /\ ExecutionsAreGranted'
    BY <1>2, <1>6, <2>1
       DEF ResumeApproved, Become, storeVars, TypeOK, ProcInv, SnapshotConsistent, ExecutionsAreGranted
  <2>4. QED
    BY <1>1, <2>2, <2>3 DEF IInv
<1>7. CASE Execute(p)
  <2>1. TypeOK'
    BY <1>1, <1>2, <1>3, <1>7 DEF Execute, Become, TypeOK, ProcStates, ProcOK
  <2>2. ProcInv' /\ SnapshotConsistent' /\ ExecutionsAreGranted'
    BY <1>2, <1>7
       DEF Execute, Become, storeVars, TypeOK, ProcInv, SnapshotConsistent, ExecutionsAreGranted
  <2>3. QED
    BY <1>1, <2>1, <2>2 DEF IInv
<1>8. CASE RecordStatus(p)
  <2>1. TypeOK'
    BY <1>1, <1>2, <1>3, <1>8 DEF RecordStatus, Become, TypeOK, ProcStates, ProcOK
  <2>2. ProcInv' /\ SnapshotConsistent' /\ ExecutionsAreGranted'
    BY <1>2, <1>3, <1>8
       DEF RecordStatus, Become, storeVars, TypeOK, ProcStates, ProcInv, SnapshotConsistent,
           ExecutionsAreGranted
  <2>3. QED
    BY <1>1, <2>1, <2>2 DEF IInv
<1>9. CASE SaveResumed(p) \/ HandleTurn(p)
  <2>1. PICK state \in ProcStates :
          /\ ProcOK(state) /\ Become(p, state)
          /\ state.pc # "execute" /\ state.pending = NoConf
    BY <1>3, <1>9 DEF SaveResumed, HandleTurn, ProcStates, ProcOK
  <2>2. PICK status \in {"active", "paused_relay"} : SaveSession(proc[p].session, status, NoConf)
    BY <1>9 DEF SaveResumed, HandleTurn
  <2>3. TypeOK'
    BY <1>1, <1>2, <1>3, <1>9, <2>1, <2>2, BecomeKeepsTypes
       DEF SaveResumed, HandleTurn, TypeOK, Snapshots, SessionStatuses
  <2>4. ProcInv' /\ SnapshotConsistent' /\ ExecutionsAreGranted'
    BY <1>2, <1>9, <2>1, <2>2
       DEF SaveResumed, HandleTurn, Become, storeVars, TypeOK, ProcInv, SnapshotConsistent,
           ExecutionsAreGranted
  <2>5. QED
    BY <1>1, <2>3, <2>4 DEF IInv
<1>10. ASSUME NEW c \in Confirmations, NEW a \in Actions, HandleTurnConfirm(p, c, a)
       PROVE  IInv'
  <2>1. TypeOK'
    BY <1>1, <1>2, <1>3, <1>10, StoreAssumption
       DEF HandleTurnConfirm, Become, TypeOK, ProcStates, ProcOK
  <2>2. /\ \A d \in Confirmations : requestedAs[d] # NoAction => requestedAs'[d] = requestedAs[d]
        /\ requestedAs'[c] # NoAction
        /\ UNCHANGED <<granted, performed>>
    BY <1>2, <1>10, StoreAssumption
       DEF HandleTurnConfirm, RequestConfirmation, StoreInv, StoreTypeOK
  <2>3. ProcInv'
    <3>1. proc'[p].pending = c /\ proc'[p].pc = "filed"
      BY <1>2, <1>3, <1>10 DEF HandleTurnConfirm, Become, TypeOK, ProcStates
    <3>2. \A q \in Procs \ {p} : proc'[q] = proc[q]
      BY <1>2, <1>10 DEF HandleTurnConfirm, Become, TypeOK
    <3>3. \A q \in Procs : proc[q].pending \in Confirmations \cup {NoConf}
      BY <1>2 DEF TypeOK, ProcStates
    <3>4. \A q \in Procs \ {p} :
             /\ proc'[q].pending # NoConf => requestedAs'[proc'[q].pending] # NoAction
             /\ proc'[q].pc = "execute" => /\ proc'[q].pending \in granted'
                                           /\ proc'[q].action = requestedAs'[proc'[q].pending]
      BY <1>2, <2>2, <3>2, <3>3 DEF ProcInv, TypeOK, ProcOK
    <3>5. QED
      BY <2>2, <3>1, <3>4 DEF ProcInv
  <2>4. ExecutionsAreGranted'
    BY <1>2, <2>2 DEF TypeOK, ExecutionsAreGranted, StoreInv, FiledInv
  <2>5. SnapshotConsistent'
    BY <1>2, <1>10
       DEF HandleTurnConfirm, RequestConfirmation, TypeOK, Snapshots, SnapshotConsistent,
           StoreInv, StoreTypeOK
  <2>6. QED
    BY <1>1, <2>1, <2>3, <2>4, <2>5 DEF IInv
<1>11. CASE SavePaused(p)
  <2>1. TypeOK'
    BY <1>1, <1>2, <1>3, <1>11
       DEF SavePaused, Become, TypeOK, Snapshots, SessionStatuses, ProcStates, ProcOK
  <2>2. file[proc[p].pending].status # "absent"
    BY <1>2, <1>3, <1>11 DEF SavePaused, Become, ProcOK, ProcStates, ProcInv, StoreInv, FiledInv
  <2>3. ProcInv' /\ SnapshotConsistent' /\ ExecutionsAreGranted'
    BY <1>2, <1>3, <1>11, <2>2
       DEF SavePaused, Become, storeVars, TypeOK, ProcOK, ProcInv, SnapshotConsistent, ExecutionsAreGranted
  <2>4. QED
    BY <1>1, <2>1, <2>3 DEF IInv
<1>12. CASE Quit(p) \/ DieAfterExecuting(p)
  <2>1. TypeOK'
    BY <1>1, <1>2, <1>3, <1>12 DEF Quit, DieAfterExecuting, Become, TypeOK, ProcStates, ProcOK
  <2>2. ProcInv' /\ SnapshotConsistent' /\ ExecutionsAreGranted'
    BY <1>2, <1>12
       DEF Quit, DieAfterExecuting, Become, storeVars, TypeOK, ProcInv, SnapshotConsistent,
           ExecutionsAreGranted
  <2>3. QED
    BY <1>1, <2>1, <2>2 DEF IInv
<1>13. QED
  BY <1>4, <1>5, <1>6, <1>7, <1>8, <1>9, <1>10, <1>11, <1>12 DEF ProcStep

LEMMA Inductive == IInv /\ [Next]_vars => IInv'
<1>1. ASSUME IInv, UNCHANGED vars
      PROVE  IInv'
  <2>1. UNCHANGED <<storeVars, chatVars>>
    BY <1>1 DEF vars
  <2>2. StoreInv' /\ StoreTypeOK'
    BY <1>1, StoreInvKept DEF IInv
  <2>3. QED
    BY <1>1, <2>1, <2>2
       DEF storeVars, chatVars, IInv, TypeOK, ProcInv, SnapshotConsistent,
           ExecutionsAreGranted
<1>2. QED
  BY <1>1, OperatorKeepsInv, ProcKeepsInv DEF Next

THEOREM InvariantHolds == Spec => []IInv
BY InitInv, Inductive, PTL DEF Spec

-----------------------------------------------------------------------------
(* The chat's variables keep their types; a process past the prompt knows  *)
(* its session and its request.                                            *)
THEOREM TypeCorrect == Spec => []TypeOK
BY InvariantHolds, PTL DEF IInv

(* resume_confirmation executes only what an operator approved, and what   *)
(* was filed under that id, for any number of processes and operators.     *)
THEOREM ExecutionsGranted == Spec => []ExecutionsAreGranted
BY InvariantHolds, PTL DEF IInv

(* A saved session is paused exactly when it names a request, which exists. *)
THEOREM SnapshotsConsistent == Spec => []SnapshotConsistent
BY InvariantHolds, PTL DEF IInv

(* The body of a request survives every decision that neither overlaps     *)
(* another nor dies half way.                                              *)
THEOREM BodiesSurvive == Spec => []BodySurvivesDecisions
BY InvariantHolds, PTL DEF IInv, StoreInv

-----------------------------------------------------------------------------
(* A confirmation nobody refers to any more stays so and does not execute. *)
LEMMA RetiredStep ==
    ASSUME IInv, [Next]_vars, NEW c \in Confirmations, Retired(c)
    PROVE  Retired(c)' /\ runs'[c] = runs[c]
<1> USE DEF Retired, Become, AtPrompt, SaveSession, History, Off
<1>1. TypeOK /\ StoreTypeOK
  BY DEF IInv, TypeOK
<1>2. CASE UNCHANGED vars
  <2>1. UNCHANGED <<storeVars, chatVars>>
    BY <1>2 DEF vars
  <2>2. QED
    BY <2>1 DEF storeVars, chatVars
<1>3. ASSUME NEW p \in Procs, ProcStep(p)
      PROVE  Retired(c)' /\ runs'[c] = runs[c]
  <2>1. proc[p].pending # c
    OBVIOUS
  <2>2. ASSUME NEW s \in Sessions, StartSession(p, s) \/ ResumeSession(p, s)
        PROVE  Retired(c)' /\ runs'[c] = runs[c]
    BY <1>1, <2>2, StoreAssumption DEF StartSession, ResumeSession, storeVars, TypeOK
  <2>3. ASSUME NEW d \in Confirmations, NEW a \in Actions, HandleTurnConfirm(p, d, a)
        PROVE  Retired(c)' /\ runs'[c] = runs[c]
    BY <1>1, <2>3 DEF HandleTurnConfirm, RequestConfirmation, TypeOK, StoreTypeOK
  <2>4. CASE \/ ResumePending(p) \/ ResumeRejected(p) \/ ResumeApproved(p)
             \/ ResumeUnusable(p) \/ SaveResumed(p) \/ HandleTurn(p) \/ SavePaused(p) \/ Quit(p)
    <3>1. PICK state :
            /\ proc' = [proc EXCEPT ![p] = state]
            /\ state.pending \in {NoConf, proc[p].pending}
      BY <1>1, <2>4
         DEF ResumePending, ResumeRejected, ResumeApproved, ResumeUnusable, SaveResumed, HandleTurn,
             SavePaused, Quit, TypeOK, ProcStates
    <3>2. \A s \in Sessions :
             snapshot'[s].pending \in {NoConf, proc[p].pending, snapshot[s].pending}
      BY <1>1, <2>4
         DEF ResumePending, ResumeRejected, ResumeApproved, ResumeUnusable, SaveResumed, HandleTurn,
             SavePaused, Quit, TypeOK
    <3>3. runs' = runs /\ requestedAs' = requestedAs
      BY <2>4
         DEF ResumePending, ResumeRejected, ResumeApproved, ResumeUnusable, SaveResumed, HandleTurn,
             SavePaused, Quit, storeVars
    <3>4. QED
      BY <1>1, <2>1, <3>1, <3>2, <3>3, StoreAssumption DEF TypeOK
  <2>5. CASE Execute(p) \/ RecordStatus(p) \/ DieAfterExecuting(p)
    BY <1>1, <2>1, <2>5, StoreAssumption
       DEF Execute, RecordStatus, DieAfterExecuting, storeVars, TypeOK, ProcStates
  <2>6. QED
    BY <1>3, <2>2, <2>3, <2>4, <2>5 DEF ProcStep
<1>4. ASSUME NEW d \in Deciders, OperatorStep(d)
      PROVE  Retired(c)' /\ runs'[c] = runs[c]
  BY <1>4 DEF OperatorStep, DeciderStep, Decide, StartRecord, ReadForUpdate, Truncate, WriteBack,
              WriterDies, chatVars
<1>5. QED
  BY <1>2, <1>3, <1>4 DEF Next

(* Nothing brings a retired confirmation back: later decisions on its      *)
(* file, deaths and resumed sessions included.                             *)
THEOREM RetirementLasts == Spec => RetiredForGood
<1>1. ASSUME IInv, [Next]_vars
      PROVE  \A c \in Confirmations : Retired(c) => Retired(c)' /\ runs'[c] = runs[c]
  BY <1>1, RetiredStep
<1>2. QED
  BY <1>1, InvariantHolds, PTL DEF Spec, RetiredForGood

-----------------------------------------------------------------------------
(* The abstract gate.                                                      *)
LEMMA GateStep ==
    ASSUME IInv, [Next]_vars
    PROVE  [Gate!Next]_(Gate!gateVars)
<1> USE DEF Gate!gateVars, Gate!Next
<1>1. CASE UNCHANGED vars
  BY <1>1 DEF vars, storeVars, chatVars
<1>2. ASSUME NEW p \in Procs, ProcStep(p)
      PROVE  [Gate!Next]_(Gate!gateVars)
  <2>1. ASSUME NEW c \in Confirmations, NEW a \in Actions, HandleTurnConfirm(p, c, a)
        PROVE  Gate!File(c, a)
    BY <2>1 DEF HandleTurnConfirm, RequestConfirmation, History, Gate!File
  <2>2. ASSUME Execute(p)
        PROVE  Gate!Perform(proc[p].pending) /\ proc[p].pending \in Confirmations
    BY <2>2 DEF Execute, Gate!Perform, IInv, ProcInv, TypeOK, ProcOK, ProcStates, storeVars
  <2>3. ASSUME NEW s \in Sessions, StartSession(p, s) \/ ResumeSession(p, s)
        PROVE  UNCHANGED Gate!gateVars
    BY <2>3 DEF StartSession, ResumeSession, History, storeVars
  <2>4. CASE \/ ResumePending(p) \/ ResumeRejected(p) \/ ResumeApproved(p) \/ ResumeUnusable(p)
             \/ RecordStatus(p) \/ SaveResumed(p) \/ HandleTurn(p) \/ SavePaused(p) \/ Quit(p)
             \/ DieAfterExecuting(p)
    BY <2>4 DEF ResumePending, ResumeRejected, ResumeApproved, ResumeUnusable, RecordStatus,
                SaveResumed, HandleTurn, SavePaused, Quit, DieAfterExecuting, History, storeVars
  <2>5. QED
    BY <1>2, <2>1, <2>2, <2>3, <2>4 DEF ProcStep
<1>3. ASSUME NEW d \in Deciders, OperatorStep(d)
      PROVE  [Gate!Next]_(Gate!gateVars)
  <2>1. performed' = performed
    BY <1>3 DEF OperatorStep, chatVars
  <2>2. ASSUME NEW c \in Confirmations, Decide(d, c, "approved")
        PROVE  Gate!Grant(c)
    BY <2>1, <2>2 DEF Decide, Gate!Grant, IInv, StoreInv, FiledInv
  <2>3. CASE \/ \E c \in Confirmations : Decide(d, c, "rejected")
             \/ ReadForUpdate(d) \/ Truncate(d) \/ WriteBack(d) \/ WriterDies(d)
    BY <2>1, <2>3 DEF Decide, ReadForUpdate, Truncate, WriteBack, WriterDies
  <2>4. QED
    BY <1>3, <2>2, <2>3 DEF OperatorStep, DeciderStep
<1>4. QED
  BY <1>1, <1>2, <1>3 DEF Next

(* The chat's pause and resume implement the abstract confirmation gate.   *)
THEOREM ChatImplementsGate == Spec => ImplementsGate
<1>1. Init => Gate!Init
  BY DEF Init, StoreInit, Gate!Init
<1>2. QED
  BY <1>1, InvariantHolds, GateStep, PTL DEF Spec, ImplementsGate, Gate!Spec

-----------------------------------------------------------------------------
(* How often an approved action is executed and recorded, for any number   *)
(* of chat processes: RunsAreRecorded and RunsAccountedFor.                *)

(* 1 if a process in that state counts among At(points, c).                *)
Counts(state, points, c) == IF state.pc \in points /\ state.pending = c THEN 1 ELSE 0

NumAt(points, c) == Cardinality(At(points, c))

LEMMA AtIsFinite ==
    ASSUME NEW points, NEW c
    PROVE  IsFiniteSet(At(points, c)) /\ Cardinality(At(points, c)) \in Nat
<1>1. At(points, c) \in SUBSET Procs
  BY DEF At
<1>2. QED
  BY <1>1, ChatAssumption, FS_Subset, FS_CardinalityType

LEMMA AtDisjoint ==
    ASSUME NEW points, NEW others, points \cap others = {}, NEW c
    PROVE  NumAt(points, c) + NumAt(others, c) <= Cardinality(Procs)
<1>1. At(points, c) \cap At(others, c) = {}
  BY DEF At
<1>2. At(points, c) \cup At(others, c) \in SUBSET Procs
  BY DEF At
<1>3. Cardinality(At(points, c) \cup At(others, c)) <= Cardinality(Procs)
  BY <1>2, ChatAssumption, FS_Subset
<1>4. Cardinality(At(points, c) \cup At(others, c))
        = Cardinality(At(points, c)) + Cardinality(At(others, c))
  <2>1. IsFiniteSet(At(points, c)) /\ IsFiniteSet(At(others, c))
    BY AtIsFinite
  <2>2. Cardinality(At(points, c) \cup At(others, c))
          = Cardinality(At(points, c)) + Cardinality(At(others, c))
            - Cardinality(At(points, c) \cap At(others, c))
    BY <2>1, FS_Union
  <2>3. QED
    BY <1>1, <2>2, AtIsFinite, FS_EmptySet
<1>5. QED
  BY <1>3, <1>4 DEF NumAt

(* One process moves.                                                      *)
LEMMA AtAfter ==
    ASSUME TypeOK, NEW p \in Procs, NEW state, Become(p, state), NEW points, NEW c
    PROVE  NumAt(points, c)' =
              NumAt(points, c) - Counts(proc[p], points, c) + Counts(state, points, c)
<1>1. proc' = [proc EXCEPT ![p] = state] /\ proc \in [Procs -> ProcStates]
  BY DEF Become, TypeOK
<1>2. IsFiniteSet(At(points, c)) /\ Cardinality(At(points, c)) \in Nat
  BY AtIsFinite
<1>3. p \in At(points, c) <=> Counts(proc[p], points, c) = 1
  BY DEF At, Counts
<1>4. CASE state.pc \in points /\ state.pending = c
  <2>1. At(points, c)' = At(points, c) \cup {p}
    BY <1>1, <1>4 DEF At
  <2>2. Cardinality(At(points, c) \cup {p}) =
           IF p \in At(points, c) THEN Cardinality(At(points, c))
                                  ELSE Cardinality(At(points, c)) + 1
    BY <1>2, FS_AddElement
  <2>3. Counts(state, points, c) = 1 /\ Counts(proc[p], points, c) \in {0, 1}
    BY <1>4 DEF Counts
  <2>4. QED
    BY <1>2, <1>3, <2>1, <2>2, <2>3 DEF NumAt
<1>5. CASE ~ (state.pc \in points /\ state.pending = c)
  <2>1. At(points, c)' = At(points, c) \ {p}
    BY <1>1, <1>5 DEF At
  <2>2. Cardinality(At(points, c) \ {p}) =
           IF p \in At(points, c) THEN Cardinality(At(points, c)) - 1
                                  ELSE Cardinality(At(points, c))
    BY <1>2, FS_RemoveElement
  <2>3. Counts(state, points, c) = 0 /\ Counts(proc[p], points, c) \in {0, 1}
    BY <1>5 DEF Counts
  <2>4. QED
    BY <1>2, <1>3, <2>1, <2>2, <2>3 DEF NumAt
<1>6. QED
  BY <1>4, <1>5

LEMMA NumAtType ==
    ASSUME NEW points, NEW c
    PROVE  NumAt(points, c) \in Nat
BY AtIsFinite DEF NumAt

LEMMA Unmoved ==
    ASSUME TypeOK, NEW p \in Procs, NEW state, Become(p, state), NEW points,
           proc[p].pc \notin points, state.pc \notin points
    PROVE  \A c : NumAt(points, c)' = NumAt(points, c)
<1> SUFFICES ASSUME NEW c
             PROVE  NumAt(points, c)' = NumAt(points, c)
  OBVIOUS
<1>1. NumAt(points, c)' = NumAt(points, c) - Counts(proc[p], points, c) + Counts(state, points, c)
  BY AtAfter
<1>2. Counts(proc[p], points, c) = 0 /\ Counts(state, points, c) = 0
  BY DEF Counts
<1>3. QED
  BY <1>1, <1>2, NumAtType

LEMMA AtUnchanged ==
    ASSUME proc' = proc, NEW points, NEW c
    PROVE  NumAt(points, c)' = NumAt(points, c)
<1>1. At(points, c)' = At(points, c)
  BY DEF At
<1>2. QED
  BY <1>1 DEF NumAt

-----------------------------------------------------------------------------
(* What is executed and not yet recorded is exactly what some process is   *)
(* about to record, deaths aside.                                          *)
Recording(c) == NumAt({"record"}, c)

RecordedInv ==
    \A c \in Confirmations :
        /\ statusEvents[c] + Recording(c) <= runs[c]
        /\ requestedAs[c] \notin Silent =>
              runs[c] <= statusEvents[c] + interrupted[c] + Recording(c)

LEMMA RecordedInit == Init => RecordedInv
<1> SUFFICES ASSUME Init, NEW c \in Confirmations
             PROVE  /\ statusEvents[c] + Recording(c) <= runs[c]
                    /\ runs[c] <= statusEvents[c] + interrupted[c] + Recording(c)
  BY DEF RecordedInv
<1>1. At({"record"}, c) = {}
  BY DEF Init, Off, At
<1>2. QED
  BY <1>1, FS_EmptySet DEF Init, Recording, NumAt

LEMMA RecordedStep ==
    ASSUME IInv, RecordedInv, [Next]_vars
    PROVE  RecordedInv'
<1> USE DEF Recording
<1>1. TypeOK /\ StoreTypeOK /\ ProcInv
  BY DEF IInv, TypeOK
<1>2. CASE UNCHANGED <<proc, runs, statusEvents, interrupted, requestedAs>>
  BY <1>2, AtUnchanged DEF RecordedInv
<1>3. ASSUME NEW p \in Procs, ProcStep(p)
      PROVE  RecordedInv'
  <2> USE DEF AtPrompt, History, Off
  <2>1. ProcOK(proc[p]) /\ proc[p] \in ProcStates
    BY <1>1 DEF TypeOK
  <2>2. CASE Execute(p)
    <3> SUFFICES ASSUME NEW c \in Confirmations
                 PROVE  /\ statusEvents'[c] + Recording(c)' <= runs'[c]
                        /\ requestedAs'[c] \notin Silent =>
                              runs'[c] <= statusEvents'[c] + interrupted'[c] + Recording(c)'
      BY DEF RecordedInv
    <3> DEFINE state == [proc[p] EXCEPT !.pc = IF proc[p].action \in Silent
                                               THEN "save" ELSE "record"]
    <3>1. Recording(c)' = Recording(c) + Counts(state, {"record"}, c)
      <4>1. Become(p, state) /\ proc[p].pc = "execute"
        BY <2>2 DEF Execute
      <4>2. Recording(c)' = Recording(c) - Counts(proc[p], {"record"}, c)
                                         + Counts(state, {"record"}, c)
        BY <1>1, <4>1, AtAfter
      <4>3. Counts(proc[p], {"record"}, c) = 0 /\ Counts(state, {"record"}, c) \in {0, 1}
        BY <4>1 DEF Counts
      <4>4. QED
        BY <4>2, <4>3, NumAtType
    <3>2. Counts(state, {"record"}, c) =
             IF proc[p].pending = c /\ proc[p].action \notin Silent THEN 1 ELSE 0
      BY <2>1 DEF Counts, ProcStates
    <3>3. proc[p].action = requestedAs[proc[p].pending]
      BY <1>1, <2>2 DEF Execute, ProcInv
    <3>4. /\ runs'[c] = runs[c] + IF proc[p].pending = c THEN 1 ELSE 0
          /\ UNCHANGED <<statusEvents, interrupted, requestedAs>>
      BY <1>1, <2>2 DEF Execute, TypeOK, storeVars
    <3>5. QED
      BY <1>1, <3>1, <3>2, <3>3, <3>4, NumAtType DEF RecordedInv, TypeOK
  <2>3. CASE RecordStatus(p) \/ DieAfterExecuting(p)
    <3> SUFFICES ASSUME NEW c \in Confirmations
                 PROVE  /\ statusEvents'[c] + Recording(c)' <= runs'[c]
                        /\ requestedAs'[c] \notin Silent =>
                              runs'[c] <= statusEvents'[c] + interrupted'[c] + Recording(c)'
      BY DEF RecordedInv
    <3>1. Recording(c)' = Recording(c) - Counts(proc[p], {"record"}, c)
      <4>1. PICK state : Become(p, state) /\ state.pc # "record"
        BY <2>1, <2>3 DEF RecordStatus, DieAfterExecuting, ProcStates
      <4>2. Recording(c)' = Recording(c) - Counts(proc[p], {"record"}, c)
                                         + Counts(state, {"record"}, c)
        BY <1>1, <4>1, AtAfter
      <4>3. Counts(state, {"record"}, c) = 0 /\ Counts(proc[p], {"record"}, c) \in {0, 1}
        BY <4>1 DEF Counts
      <4>4. QED
        BY <4>2, <4>3, NumAtType
    <3>2. /\ UNCHANGED <<runs, requestedAs>>
          /\ statusEvents'[c] + interrupted'[c] =
                statusEvents[c] + interrupted[c] + IF proc[p].pending = c THEN 1 ELSE 0
          /\ statusEvents'[c] = statusEvents[c] + IF RecordStatus(p) /\ proc[p].pending = c THEN 1 ELSE 0
      BY <1>1, <2>3 DEF RecordStatus, DieAfterExecuting, TypeOK, storeVars
    <3>3. RecordStatus(p) => proc[p].pc = "record"
      BY DEF RecordStatus
    <3>4. QED
      BY <1>1, <3>1, <3>2, <3>3, NumAtType DEF RecordedInv, TypeOK, Counts
  <2>4. ASSUME NEW c \in Confirmations, NEW a \in Actions, HandleTurnConfirm(p, c, a)
        PROVE  RecordedInv'
    <3>1. \A d \in Confirmations : Recording(d)' = Recording(d)
      <4>1. PICK state : Become(p, state) /\ state.pc # "record" /\ proc[p].pc # "record"
        BY <2>1, <2>4 DEF HandleTurnConfirm, ProcStates
      <4>2. QED
        BY <1>1, <4>1, Unmoved
    <3>2. \A d \in Confirmations : requestedAs'[d] = requestedAs[d] \/ requestedAs[d] \notin Silent
      BY <1>1, <2>4, ChatAssumption, StoreAssumption
         DEF HandleTurnConfirm, RequestConfirmation, StoreTypeOK
    <3>3. UNCHANGED <<runs, statusEvents, interrupted>>
      BY <2>4 DEF HandleTurnConfirm
    <3>4. QED
      BY <3>1, <3>2, <3>3 DEF RecordedInv
  <2>5. CASE ~ \/ Execute(p) \/ RecordStatus(p) \/ DieAfterExecuting(p)
               \/ \E c \in Confirmations, a \in Actions : HandleTurnConfirm(p, c, a)
    <3>1. PICK state : Become(p, state) /\ state.pc # "record" /\ proc[p].pc # "record"
      <4>1. ASSUME NEW s \in Sessions, StartSession(p, s) \/ ResumeSession(p, s)
            PROVE  \E state : Become(p, state) /\ state.pc # "record" /\ proc[p].pc # "record"
        BY <4>1 DEF StartSession, ResumeSession
      <4>2. CASE ResumeApproved(p)
        BY <2>1, <4>2 DEF ResumeApproved, ProcStates
      <4>3. CASE \/ ResumePending(p) \/ ResumeRejected(p) \/ ResumeUnusable(p) \/ SaveResumed(p)
                 \/ HandleTurn(p) \/ SavePaused(p) \/ Quit(p)
        BY <4>3 DEF ResumePending, ResumeRejected, ResumeUnusable, SaveResumed, HandleTurn,
                    SavePaused, Quit
      <4>4. QED
        BY <1>3, <2>5, <4>1, <4>2, <4>3 DEF ProcStep
    <3>2. \A c \in Confirmations : Recording(c)' = Recording(c)
      BY <1>1, <3>1, Unmoved
    <3>3. UNCHANGED <<runs, statusEvents, interrupted, requestedAs>>
      BY <1>3, <2>5
         DEF ProcStep, StartSession, ResumeSession, ResumePending, ResumeRejected, ResumeApproved,
             ResumeUnusable, SaveResumed, HandleTurn, SavePaused, Quit, storeVars
    <3>4. QED
      BY <3>2, <3>3 DEF RecordedInv
  <2>6. QED
    BY <2>2, <2>3, <2>4, <2>5
<1>4. ASSUME NEW d \in Deciders, OperatorStep(d)
      PROVE  UNCHANGED <<proc, runs, statusEvents, interrupted, requestedAs>>
  BY <1>4 DEF OperatorStep, DeciderStep, Decide, StartRecord, ReadForUpdate, Truncate, WriteBack,
              WriterDies, chatVars
<1>5. ASSUME UNCHANGED vars
      PROVE  UNCHANGED <<proc, runs, statusEvents, interrupted, requestedAs>>
  <2>1. UNCHANGED <<storeVars, chatVars>>
    BY <1>5 DEF vars
  <2>2. QED
    BY <2>1 DEF storeVars, chatVars
<1>6. QED
  BY <1>2, <1>3, <1>4, <1>5 DEF Next

(* Every executed action has its PoC status event, unless its process is   *)
(* still on the way to record_poc_status or died after executing it.       *)
THEOREM RunsRecorded == Spec => []RunsAreRecorded
<1>1. IInv /\ RecordedInv => RunsAreRecorded
  BY NumAtType DEF IInv, TypeOK, RecordedInv, Recording, NumAt, RunsAreRecorded
<1>2. QED
  BY <1>1, InvariantHolds, RecordedInit, RecordedStep, PTL DEF Spec

-----------------------------------------------------------------------------
(* Who refers to a request.  It belongs to one session: the process that   *)
(* filed it, then that session's snapshot, then the processes that resumed *)
(* that session, each until it turns to something else.                    *)
Filing(p, c) == proc[p].pc = "filed" /\ proc[p].pending = c

Held(c) ==
    \/ \E s \in Sessions : snapshot[s].pending = c
    \/ \E p \in Procs : Filing(p, c)

HolderInv ==
    \A c \in Confirmations :
        /\ \A s, t \in Sessions : snapshot[s].pending = c /\ snapshot[t].pending = c => s = t
        /\ \A p \in Procs, s \in Sessions :
              proc[p].pending = c /\ snapshot[s].pending = c =>
                  proc[p].pc # "filed" /\ proc[p].session = s
        /\ \A p, q \in Procs : Filing(p, c) /\ proc[q].pending = c => p = q

LEMMA HolderStep ==
    ASSUME IInv, HolderInv, [Next]_vars
    PROVE  HolderInv'
<1> USE DEF Filing
<1>1. TypeOK /\ StoreTypeOK /\ StoreInv /\ ProcInv /\ SnapshotConsistent
  BY DEF IInv, TypeOK
<1>2. CASE UNCHANGED <<proc, snapshot>>
  BY <1>2 DEF HolderInv
<1>3. ASSUME NEW p \in Procs, ProcStep(p)
      PROVE  HolderInv'
  <2> USE DEF Become, AtPrompt, SaveSession, Off
  <2>1. ProcOK(proc[p]) /\ proc[p] \in ProcStates
    BY <1>1 DEF TypeOK
  <2>2. ASSUME NEW s \in Sessions, StartSession(p, s)
        PROVE  HolderInv'
    BY <1>1, <2>2, StoreAssumption DEF StartSession, HolderInv, TypeOK
  <2>3. ASSUME NEW s \in Sessions, ResumeSession(p, s)
        PROVE  HolderInv'
    <3>1. /\ proc'[p].session = s /\ proc'[p].pending = snapshot[s].pending
          /\ proc'[p].pc # "filed"
          /\ \A q \in Procs \ {p} : proc'[q] = proc[q]
          /\ snapshot' = snapshot
      BY <1>1, <2>3 DEF ResumeSession, TypeOK
    <3>2. QED
      BY <3>1 DEF HolderInv
  <2>4. CASE ResumePending(p) \/ ResumeApproved(p) \/ ResumeUnusable(p)
             \/ Execute(p) \/ RecordStatus(p) \/ Quit(p) \/ DieAfterExecuting(p)
    <3> DEFINE Kept == /\ proc'[p].pc # "filed"
                       /\ \/ proc'[p].pending = NoConf
                          \/ /\ proc'[p].pending = proc[p].pending
                             /\ proc'[p].session = proc[p].session
    <3>1. ASSUME ResumePending(p) \/ ResumeUnusable(p) \/ Quit(p) \/ DieAfterExecuting(p)
          PROVE  Kept
      <4>1. \/ Become(p, Off)
            \/ Become(p, AtPrompt(proc[p].session, proc[p].pending))
        BY <3>1 DEF ResumePending, ResumeUnusable, Quit, DieAfterExecuting
      <4>2. Kept
        BY <1>1, <4>1 DEF TypeOK
      <4>3. QED
        BY <4>2
    <3>2. ASSUME ResumeApproved(p)
          PROVE  Kept
      BY <1>1, <2>1, <3>2 DEF ResumeApproved, TypeOK, ProcStates
    <3>3. ASSUME Execute(p)
          PROVE  Kept
      BY <1>1, <2>1, <3>3 DEF Execute, TypeOK, ProcStates
    <3>4. ASSUME RecordStatus(p)
          PROVE  Kept
      BY <1>1, <2>1, <3>4 DEF RecordStatus, TypeOK, ProcStates
    <3>5. Kept /\ snapshot' = snapshot
      BY <2>4, <3>1, <3>2, <3>3, <3>4
         DEF ResumePending, ResumeApproved, ResumeUnusable, Execute, RecordStatus, Quit,
             DieAfterExecuting
    <3>6. \A q \in Procs \ {p} : proc'[q] = proc[q]
      BY <1>1, <2>4
         DEF ResumePending, ResumeApproved, ResumeUnusable, Execute, RecordStatus, Quit,
             DieAfterExecuting, TypeOK
    <3>7. QED
      BY <3>5, <3>6, StoreAssumption DEF HolderInv
  <2>5. CASE ResumeRejected(p) \/ SaveResumed(p) \/ HandleTurn(p)
    <3>1. /\ \E status \in SessionStatuses : SaveSession(proc[p].session, status, NoConf)
          /\ \/ Become(p, AtPrompt(proc[p].session, NoConf))
             \/ Become(p, Off)
      BY <2>5 DEF ResumeRejected, SaveResumed, HandleTurn, SessionStatuses
    <3>2. /\ proc'[p].pending = NoConf
          /\ \A q \in Procs \ {p} : proc'[q] = proc[q]
      BY <1>1, <3>1 DEF TypeOK
    <3>3. \A s \in Sessions : snapshot'[s].pending \in {NoConf, snapshot[s].pending}
      BY <1>1, <3>1 DEF TypeOK
    <3>4. QED
      BY <3>2, <3>3, StoreAssumption DEF HolderInv
  <2>6. ASSUME NEW c \in Confirmations, NEW a \in Actions, HandleTurnConfirm(p, c, a)
        PROVE  HolderInv'
    <3>1. /\ \A s \in Sessions : snapshot[s].pending # c
          /\ \A q \in Procs : proc[q].pending # c
      BY <1>1, <2>6, StoreAssumption
         DEF HandleTurnConfirm, RequestConfirmation, SnapshotConsistent, ProcInv, StoreInv, FiledInv
    <3>2. /\ proc'[p].pending = c
          /\ \A q \in Procs \ {p} : proc'[q] = proc[q]
          /\ snapshot' = snapshot
      BY <1>1, <2>1, <2>6 DEF HandleTurnConfirm, TypeOK, ProcStates
    <3>3. QED
      BY <3>1, <3>2 DEF HolderInv
  <2>7. CASE SavePaused(p)
    <3>1. /\ proc'[p].pending = NoConf
          /\ \A q \in Procs \ {p} : proc'[q] = proc[q]
          /\ Filing(p, proc[p].pending)
      BY <1>1, <2>7 DEF SavePaused, TypeOK
    <3>2. \A s \in Sessions :
             snapshot'[s].pending = IF s = proc[p].session THEN proc[p].pending
                                                           ELSE snapshot[s].pending
      BY <1>1, <2>7 DEF SavePaused, TypeOK
    <3>3. QED
      BY <3>1, <3>2, <2>1, StoreAssumption DEF HolderInv, ProcOK
  <2>8. QED
    BY <1>3, <2>2, <2>3, <2>4, <2>5, <2>6, <2>7 DEF ProcStep
<1>4. ASSUME NEW d \in Deciders, OperatorStep(d)
      PROVE  UNCHANGED <<proc, snapshot>>
  BY <1>4 DEF OperatorStep, chatVars
<1>5. ASSUME UNCHANGED vars
      PROVE  UNCHANGED <<proc, snapshot>>
  <2>1. UNCHANGED chatVars
    BY <1>5 DEF vars
  <2>2. QED
    BY <2>1 DEF chatVars
<1>6. QED
  BY <1>2, <1>3, <1>4, <1>5 DEF Next

-----------------------------------------------------------------------------
(* While a session holds a request, its executions are exactly the deaths  *)
(* and the processes that have not saved yet.  The first save drops it for *)
(* good; from then on only the processes that had already resumed it can   *)
(* still execute it.                                                       *)
Ready(c)   == NumAt({"resume", "execute"}, c)
Running(c) == NumAt({"record", "save"}, c)

ExecutedOK(c) ==
    \/ runs[c] = interrupted[c] + Running(c)
    \/ /\ requestedAs[c] # NoAction /\ ~Held(c)
       /\ runs[c] + Ready(c) <= interrupted[c] + Cardinality(Procs)

ExecutedInv == \A c \in Confirmations : ExecutedOK(c)

LEMMA QuietKeepsExecuted ==
    ASSUME TypeOK, NEW c \in Confirmations, ExecutedOK(c),
           runs'[c] = runs[c], interrupted'[c] = interrupted[c], requestedAs'[c] = requestedAs[c],
           Running(c)' = Running(c), Ready(c)' <= Ready(c), Held(c)' => Held(c)
    PROVE  ExecutedOK(c)'
<1>1. runs[c] \in Nat /\ interrupted[c] \in Nat /\ Ready(c) \in Nat /\ Ready(c)' \in Nat
  <2>1. Ready(c)' \in Nat
    <3>1. At({"resume", "execute"}, c)' \in SUBSET Procs
      BY DEF At
    <3>2. QED
      BY <3>1, ChatAssumption, FS_Subset, FS_CardinalityType DEF Ready, NumAt
  <2>2. QED
    BY <2>1, NumAtType DEF TypeOK, Ready
<1>2. Cardinality(Procs) \in Nat
  BY ChatAssumption, FS_CardinalityType
<1>3. QED
  BY <1>1, <1>2 DEF ExecutedOK

LEMMA ExecutedStep ==
    ASSUME IInv, HolderInv, ExecutedInv, [Next]_vars, NEW c \in Confirmations
    PROVE  ExecutedOK(c)'
<1> USE DEF Ready, Running
<1>1. /\ TypeOK /\ StoreTypeOK /\ StoreInv /\ ProcInv /\ SnapshotConsistent /\ ExecutedOK(c)
      /\ runs[c] \in Nat /\ interrupted[c] \in Nat
      /\ Ready(c) \in Nat /\ Running(c) \in Nat /\ Cardinality(Procs) \in Nat
  BY NumAtType, ChatAssumption, FS_CardinalityType DEF IInv, TypeOK, ExecutedInv
<1>2. CASE UNCHANGED <<proc, snapshot, runs, interrupted, requestedAs>>
  <2>1. Running(c)' = Running(c) /\ Ready(c)' = Ready(c)
    BY <1>2, AtUnchanged
  <2>2. Held(c)' = Held(c)
    BY <1>2 DEF Held, Filing
  <2>3. QED
    BY <1>1, <1>2, <2>1, <2>2 DEF ExecutedOK
<1>3. ASSUME NEW p \in Procs, ProcStep(p)
      PROVE  ExecutedOK(c)'
  <2> USE DEF AtPrompt, SaveSession, History, Off
  <2>1. ProcOK(proc[p]) /\ proc[p] \in ProcStates
    BY <1>1 DEF TypeOK
  <2>2. ASSUME NEW s \in Sessions, ResumeSession(p, s)
        PROVE  ExecutedOK(c)'
    <3>1. PICK state :
             /\ Become(p, state) /\ state.pc \in {"resume", "prompt"}
             /\ state.pending = snapshot[s].pending
      BY <2>2 DEF ResumeSession
    <3>2. Running(c)' = Running(c)
      BY <1>1, <2>2, <3>1, Unmoved DEF ResumeSession
    <3>3. UNCHANGED <<snapshot, runs, interrupted, requestedAs>>
      BY <2>2 DEF ResumeSession, storeVars
    <3>4. CASE snapshot[s].pending = c
      <4>1. Held(c)
        BY <3>4 DEF Held
      <4>2. QED
        BY <1>1, <3>2, <3>3, <4>1 DEF ExecutedOK
    <3>5. CASE snapshot[s].pending # c
      <4>1. Counts(proc[p], {"resume", "execute"}, c) = 0 /\ Counts(state, {"resume", "execute"}, c) = 0
        BY <2>2, <3>1, <3>5 DEF Counts, ResumeSession
      <4>2. Ready(c)' = Ready(c)
        BY <1>1, <3>1, <4>1, AtAfter
      <4>3. Held(c)' => Held(c)
        BY <1>1, <3>1, <3>3 DEF Held, Filing, Become, TypeOK
      <4>4. QED
        BY <1>1, <3>2, <3>3, <4>2, <4>3, QuietKeepsExecuted
    <3>6. QED
      BY <3>4, <3>5
  <2>3. ASSUME NEW d \in Confirmations, NEW a \in Actions, HandleTurnConfirm(p, d, a)
        PROVE  ExecutedOK(c)'
    <3> DEFINE state == [proc[p] EXCEPT !.pc = "filed", !.pending = d]
    <3>1. /\ Become(p, state) /\ proc[p].pc = "prompt" /\ state.pc = "filed" /\ state.pending = d
          /\ UNCHANGED <<snapshot, runs, interrupted>>
      BY <2>1, <2>3 DEF HandleTurnConfirm, ProcStates
    <3>2. Running(c)' = Running(c) /\ Ready(c)' = Ready(c)
      BY <1>1, <3>1, Unmoved
    <3>3. CASE c = d
      BY <1>1, <2>3, <3>1, <3>2, <3>3 DEF HandleTurnConfirm, RequestConfirmation, ExecutedOK
    <3>4. CASE c # d
      <4>1. requestedAs'[c] = requestedAs[c]
        BY <1>1, <2>3, <3>4 DEF HandleTurnConfirm, RequestConfirmation, StoreTypeOK
      <4>2. Held(c)' => Held(c)
        BY <1>1, <3>1, <3>4 DEF Held, Filing, Become, TypeOK
      <4>3. QED
        BY <1>1, <3>1, <3>2, <4>1, <4>2, QuietKeepsExecuted
    <3>5. QED
      BY <3>3, <3>4
  <2>4. CASE Execute(p)
    <3>1. PICK state : /\ Become(p, state) /\ state.pc \in {"record", "save"}
                       /\ state.pending = proc[p].pending
      BY <2>1, <2>4 DEF Execute, ProcStates
    <3> DEFINE n == IF proc[p].pending = c THEN 1 ELSE 0
    <3>2. Running(c)' = Running(c) + n
      <4>1. Counts(proc[p], {"record", "save"}, c) = 0 /\ Counts(state, {"record", "save"}, c) = n
        BY <2>4, <3>1 DEF Execute, Counts
      <4>2. QED
        BY <1>1, <3>1, <4>1, AtAfter
    <3>3. Ready(c)' = Ready(c) - n
      <4>1. /\ Counts(proc[p], {"resume", "execute"}, c) = n
            /\ Counts(state, {"resume", "execute"}, c) = 0
        BY <2>4, <3>1 DEF Execute, Counts
      <4>2. QED
        BY <1>1, <3>1, <4>1, AtAfter
    <3>4. runs'[c] = runs[c] + n /\ UNCHANGED <<snapshot, interrupted, requestedAs>>
      BY <1>1, <2>4 DEF Execute, TypeOK, storeVars
    <3>5. Held(c)' => Held(c)
      BY <1>1, <3>1, <3>4 DEF Held, Filing, Become, TypeOK
    <3>6. QED
      BY <1>1, <3>2, <3>3, <3>4, <3>5 DEF ExecutedOK
  <2>5. CASE DieAfterExecuting(p)
    <3> DEFINE n == IF proc[p].pending = c THEN 1 ELSE 0
    <3>1. Become(p, Off) /\ proc[p].pc \in {"record", "save"}
      BY <2>5 DEF DieAfterExecuting
    <3>2. Running(c)' = Running(c) - n
      <4>1. Counts(proc[p], {"record", "save"}, c) = n /\ Counts(Off, {"record", "save"}, c) = 0
        BY <3>1 DEF Counts
      <4>2. QED
        BY <1>1, <3>1, <4>1, AtAfter
    <3>3. Ready(c)' = Ready(c)
      BY <1>1, <3>1, Unmoved
    <3>4. interrupted'[c] = interrupted[c] + n /\ UNCHANGED <<snapshot, runs, requestedAs>>
      BY <1>1, <2>5 DEF DieAfterExecuting, TypeOK, storeVars
    <3>5. Held(c)' => Held(c)
      BY <1>1, <3>1, <3>4 DEF Held, Filing, Become, TypeOK
    <3>6. QED
      BY <1>1, <3>2, <3>3, <3>4, <3>5 DEF ExecutedOK
  <2>6. CASE SaveResumed(p)
    <3>1. /\ Become(p, AtPrompt(proc[p].session, NoConf)) /\ proc[p].pc = "save"
          /\ SaveSession(proc[p].session, "active", NoConf)
          /\ UNCHANGED <<runs, interrupted, requestedAs>>
      BY <2>6 DEF SaveResumed, storeVars
    <3>2. Ready(c)' = Ready(c)
      BY <1>1, <3>1, Unmoved
    <3>3. /\ \A s \in Sessions : snapshot'[s].pending \in {NoConf, snapshot[s].pending}
          /\ snapshot'[proc[p].session].pending = NoConf
          /\ \A q \in Procs \ {p} : proc'[q] = proc[q]
          /\ proc'[p].pending = NoConf
      BY <1>1, <2>1, <3>1 DEF TypeOK, Become, ProcStates, ProcOK
    <3>4. Held(c)' => Held(c)
      BY <3>3, StoreAssumption DEF Held, Filing
    <3>5. CASE proc[p].pending = c
      <4>1. ~Held(c)'
        <5>1. \A s \in Sessions : snapshot'[s].pending # c
          BY <3>3, <3>5, StoreAssumption DEF HolderInv
        <5>2. \A q \in Procs : ~ (proc'[q].pc = "filed" /\ proc'[q].pending = c)
          BY <3>1, <3>3, <3>5, StoreAssumption DEF HolderInv, Filing
        <5>3. QED
          BY <5>1, <5>2 DEF Held, Filing
      <4>2. requestedAs[c] # NoAction
        BY <1>1, <3>5, StoreAssumption DEF ProcInv
      <4>3. Ready(c) + Running(c) <= Cardinality(Procs)
        BY AtDisjoint
      <4>4. QED
        BY <1>1, <3>1, <3>2, <4>1, <4>2, <4>3 DEF ExecutedOK
    <3>6. CASE proc[p].pending # c
      <4>1. Counts(proc[p], {"record", "save"}, c) = 0
        BY <3>6 DEF Counts
      <4>2. Counts(AtPrompt(proc[p].session, NoConf), {"record", "save"}, c) = 0
        BY DEF Counts
      <4>3. Running(c)' = Running(c)
        BY <1>1, <3>1, <4>1, <4>2, AtAfter
      <4>4. QED
        BY <1>1, <3>1, <3>2, <3>4, <4>3, QuietKeepsExecuted
    <3>7. QED
      BY <3>5, <3>6
  <2>7. ASSUME \/ \E s \in Sessions : StartSession(p, s)
               \/ ResumePending(p) \/ ResumeRejected(p) \/ ResumeApproved(p) \/ ResumeUnusable(p)
               \/ RecordStatus(p) \/ HandleTurn(p) \/ SavePaused(p) \/ Quit(p)
        PROVE  ExecutedOK(c)'
    <3>1. PICK state :
             /\ Become(p, state) /\ state.pc # "filed"
             /\ Counts(state, {"record", "save"}, c) = Counts(proc[p], {"record", "save"}, c)
             /\ Counts(state, {"resume", "execute"}, c) <= Counts(proc[p], {"resume", "execute"}, c)
      <4> DEFINE Quiet(st) ==
                   /\ Become(p, st) /\ st.pc # "filed"
                   /\ Counts(st, {"record", "save"}, c) = Counts(proc[p], {"record", "save"}, c)
                   /\ Counts(st, {"resume", "execute"}, c)
                        <= Counts(proc[p], {"resume", "execute"}, c)
      <4>1. ASSUME NEW st, Become(p, st), st.pc \in {"off", "prompt"},
                   proc[p].pc \notin {"record", "save"}
            PROVE  Quiet(st)
        BY <4>1 DEF Counts
      <4>2. ASSUME NEW s \in Sessions, StartSession(p, s)
            PROVE  \E st : Quiet(st)
        BY <4>1, <4>2 DEF StartSession
      <4>3. CASE RecordStatus(p)
        <5>1. Quiet([proc[p] EXCEPT !.pc = "save"])
          BY <2>1, <4>3 DEF RecordStatus, Counts, ProcStates
        <5>2. QED
          BY <5>1
      <4>4. CASE ResumeApproved(p)
        <5>1. Quiet([proc[p] EXCEPT !.pc = "execute", !.action = file[proc[p].pending].action])
          BY <2>1, <4>4 DEF ResumeApproved, Counts, ProcStates
        <5>2. QED
          BY <5>1
      <4>5. CASE \/ ResumePending(p) \/ ResumeRejected(p) \/ ResumeUnusable(p) \/ HandleTurn(p)
                 \/ SavePaused(p) \/ Quit(p)
        <5>1. PICK st : Become(p, st) /\ st.pc \in {"off", "prompt"}
          BY <4>5 DEF ResumePending, ResumeRejected, ResumeUnusable, HandleTurn, SavePaused, Quit
        <5>2. proc[p].pc \notin {"record", "save"}
          BY <4>5 DEF ResumePending, ResumeRejected, ResumeUnusable, HandleTurn, SavePaused, Quit
        <5>3. Quiet(st)
          BY <4>1, <5>1, <5>2
        <5>4. QED
          BY <5>3
      <4>6. QED
        BY <2>7, <4>2, <4>3, <4>4, <4>5
    <3>2. Running(c)' = Running(c) /\ Ready(c)' <= Ready(c)
      <4>1. /\ Running(c)' = Running(c) - Counts(proc[p], {"record", "save"}, c)
                                       + Counts(state, {"record", "save"}, c)
            /\ Ready(c)' = Ready(c) - Counts(proc[p], {"resume", "execute"}, c)
                                   + Counts(state, {"resume", "execute"}, c)
        BY <1>1, <3>1, AtAfter
      <4>2. /\ Counts(state, {"record", "save"}, c) \in {0, 1}
            /\ Counts(proc[p], {"resume", "execute"}, c) \in {0, 1}
            /\ Counts(state, {"resume", "execute"}, c) \in {0, 1}
        BY DEF Counts
      <4>3. QED
        BY <1>1, <3>1, <4>1, <4>2
    <3>3. UNCHANGED <<runs, interrupted, requestedAs>>
      BY <2>7 DEF StartSession, ResumePending, ResumeRejected, ResumeApproved, ResumeUnusable,
                  RecordStatus, HandleTurn, SavePaused, Quit, storeVars
    <3>4. \A s \in Sessions :
             \/ snapshot'[s].pending \in {NoConf, snapshot[s].pending}
             \/ Filing(p, snapshot'[s].pending)
      <4>1. CASE SavePaused(p)
        BY <1>1, <4>1 DEF SavePaused, TypeOK, Filing
      <4>2. CASE snapshot' = snapshot
        BY <4>2
      <4>3. CASE \E s \in Sessions, status \in SessionStatuses : SaveSession(s, status, NoConf)
        BY <1>1, <4>3 DEF TypeOK
      <4>4. QED
        BY <2>1, <2>7, <4>1, <4>2, <4>3
           DEF StartSession, ResumePending, ResumeRejected, ResumeApproved, ResumeUnusable,
               RecordStatus, HandleTurn, Quit, SessionStatuses, ProcStates, ProcOK
    <3>5. Held(c)' => Held(c)
      BY <1>1, <3>1, <3>4, StoreAssumption DEF Held, Filing, Become, TypeOK
    <3>6. QED
      BY <1>1, <3>2, <3>3, <3>5, QuietKeepsExecuted
  <2>8. QED
    BY <1>3, <2>2, <2>3, <2>4, <2>5, <2>6, <2>7 DEF ProcStep
<1>4. ASSUME NEW d \in Deciders, OperatorStep(d)
      PROVE  UNCHANGED <<proc, snapshot, runs, interrupted, requestedAs>>
  BY <1>4 DEF OperatorStep, DeciderStep, Decide, StartRecord, ReadForUpdate, Truncate, WriteBack,
              WriterDies, chatVars
<1>5. ASSUME UNCHANGED vars
      PROVE  UNCHANGED <<proc, snapshot, runs, interrupted, requestedAs>>
  <2>1. UNCHANGED <<storeVars, chatVars>>
    BY <1>5 DEF vars
  <2>2. QED
    BY <2>1 DEF storeVars, chatVars
<1>6. QED
  BY <1>2, <1>3, <1>4, <1>5 DEF Next

LEMMA ExecutedInit == Init => HolderInv /\ ExecutedInv
<1> SUFFICES ASSUME Init
             PROVE  HolderInv /\ ExecutedInv
  OBVIOUS
<1>1. HolderInv
  BY StoreAssumption DEF Init, HolderInv, Filing, Off
<1>2. ASSUME NEW c \in Confirmations
      PROVE  ExecutedOK(c)
  <2>1. At({"record", "save"}, c) = {}
    BY DEF Init, At, Off
  <2>2. QED
    BY <2>1, FS_EmptySet DEF Init, ExecutedOK, Running, NumAt
<1>3. QED
  BY <1>1, <1>2 DEF ExecutedInv

(* An approval is good for one execution, plus one for every process that  *)
(* died after executing and one for every other process that had already   *)
(* resumed the session: requests are never marked as consumed, but a       *)
(* session that was saved never executes its request again.                *)
THEOREM RunsAccounted == Spec => []RunsAccountedFor
<1>1. IInv /\ ExecutedInv => RunsAccountedFor
  <2> SUFFICES ASSUME IInv, ExecutedInv, NEW c \in Confirmations
               PROVE  runs[c] <= interrupted[c] + Cardinality(Procs)
    BY DEF RunsAccountedFor
  <2>1. Ready(c) + Running(c) <= Cardinality(Procs)
    BY AtDisjoint DEF Ready, Running
  <2>2. QED
    BY <2>1, NumAtType, ChatAssumption, FS_CardinalityType
       DEF ExecutedInv, ExecutedOK, Ready, Running, IInv, TypeOK
<1>2. IInv /\ HolderInv /\ ExecutedInv /\ [Next]_vars => HolderInv' /\ ExecutedInv'
  BY HolderStep, ExecutedStep DEF ExecutedInv
<1>3. QED
  BY <1>1, <1>2, InvariantHolds, ExecutedInit, PTL DEF Spec
============================================================================
