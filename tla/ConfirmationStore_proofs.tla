---------------------- MODULE ConfirmationStore_proofs ----------------------
(***************************************************************************)
(* The inductive invariant of the request files and their writers, kept by *)
(* every step any process takes on them.  AgentLoop_proofs and             *)
(* ChatConfirmation_proofs show that the steps of the agent are such steps *)
(* and inherit the invariant.                                              *)
(***************************************************************************)
EXTENDS ConfirmationStore, TLAPS

Busy(w) == writer[w].pc # "idle"

(* A file exists exactly for the ids that were filed; only those are       *)
(* granted.                                                                *)
FiledInv ==
    /\ \A c \in Confirmations : file[c].status = "absent" <=> requestedAs[c] = NoAction
    /\ \A c \in granted : requestedAs[c] # NoAction

(* A process inside _record_decision works on a filed id, approves only    *)
(* what an operator granted, and holds the body of that id or an empty one. *)
WriterInv ==
    \A w \in Writers :
        /\ writer[w] = Idle \/ Busy(w)
        /\ Busy(w) =>
              /\ writer[w].id \in Confirmations
              /\ requestedAs[writer[w].id] # NoAction
              /\ writer[w].status = "approved" => writer[w].id \in granted
              /\ writer[w].action \in {requestedAs[writer[w].id], NoAction}

(* No two decisions on c overlapped and none died half way: at most one    *)
(* process writes, the file is torn only between its truncation and its    *)
(* write, and it holds the whole body from its read on.                    *)
QuietInv(c) ==
    /\ \A v, w \in Writers : writer[v].id = c /\ writer[w].id = c => v = w
    /\ file[c].status = "torn" => \E w \in Writers : writer[w].id = c /\ writer[w].pc = "write"
    /\ \A w \in Writers : writer[w].id = c =>
          /\ writer[w].pc \in {"truncate", "write"} => writer[w].action = requestedAs[c]
          /\ writer[w].pc = "write" => file[c] = Torn

StoreInv ==
    /\ StoreTypeOK
    /\ FiledInv
    /\ WriterInv
    /\ \A c \in Confirmations \ contended : QuietInv(c)
    /\ ApprovedOnlyByOperator
    /\ BodySurvivesDecisions

(* Starting to record a decision, an operator's or a timeout's.            *)
BeginRecord(w, c, s) ==
    /\ requestedAs[c] # NoAction
    /\ StartRecord(w, c, s)
    /\ granted' = IF s = "approved" THEN granted \cup {c} ELSE granted
    /\ UNCHANGED <<file, requestedAs>>

StoreStep ==
    \/ \E c \in Confirmations, a \in Actions : RequestConfirmation(c, a)
    \/ \E w \in Writers :
          \/ \E c \in Confirmations, s \in Statuses : BeginRecord(w, c, s)
          \/ ReadForUpdate(w)
          \/ Truncate(w)
          \/ WriteBack(w)
          \/ WriterDies(w)

-----------------------------------------------------------------------------
LEMMA StoreInitInv == StoreInit => StoreInv
BY StoreAssumption
   DEF StoreInit, StoreInv, StoreTypeOK, FiledInv, WriterInv, QuietInv, Busy, Idle, Absent, Torn,
       ApprovedOnlyByOperator, BodySurvivesDecisions, FileContents, WriterStates, Statuses

LEMMA RequestKeepsInv ==
    ASSUME StoreInv,
           NEW c \in Confirmations, NEW a \in Actions, RequestConfirmation(c, a)
    PROVE  StoreInv'
<1>1. StoreTypeOK'
  BY DEF StoreInv, StoreTypeOK, RequestConfirmation, FileContents, Statuses
<1>2. \A w \in Writers : writer[w].id # c
  BY StoreAssumption DEF StoreInv, WriterInv, Busy, Idle, RequestConfirmation
<1>3. FiledInv'
  BY StoreAssumption DEF StoreInv, StoreTypeOK, FiledInv, RequestConfirmation
<1>4. WriterInv'
  BY <1>2 DEF StoreInv, StoreTypeOK, WriterInv, Busy, Idle, RequestConfirmation
<1>5. (\A d \in Confirmations \ contended : QuietInv(d))'
  BY <1>2 DEF StoreInv, StoreTypeOK, QuietInv, RequestConfirmation, Torn
<1>6. ApprovedOnlyByOperator' /\ BodySurvivesDecisions'
  BY DEF StoreInv, StoreTypeOK, ApprovedOnlyByOperator, BodySurvivesDecisions,
         RequestConfirmation
<1>7. QED
  BY <1>1, <1>3, <1>4, <1>5, <1>6 DEF StoreInv

LEMMA BeginKeepsInv ==
    ASSUME StoreInv,
           NEW w \in Writers, NEW c \in Confirmations, NEW s \in Statuses, BeginRecord(w, c, s)
    PROVE  StoreInv'
<1>1. StoreTypeOK'
  BY DEF StoreInv, StoreTypeOK, BeginRecord, StartRecord, WriterStates, Statuses
<1>2. FiledInv' /\ ApprovedOnlyByOperator' /\ BodySurvivesDecisions'
  BY DEF StoreInv, StoreTypeOK, FiledInv, ApprovedOnlyByOperator, BodySurvivesDecisions,
         BeginRecord, StartRecord
<1>3. WriterInv'
  BY DEF StoreInv, StoreTypeOK, WriterInv, Busy, Idle, BeginRecord, StartRecord
<1>4. ASSUME NEW d \in Confirmations \ contended'
      PROVE  QuietInv(d)'
  <2>1. QuietInv(d)
    BY <1>4 DEF StoreInv, BeginRecord, StartRecord
  <2>2. CASE d = c
    <3>1. \A v \in Writers \ {w} : writer[v].id # c
      BY <1>4, <2>2 DEF BeginRecord, StartRecord, OtherWriter
    <3>2. writer[w] = Idle
      BY DEF StoreInv, WriterInv, Busy, BeginRecord, StartRecord
    <3>3. file[c].status # "torn"
      BY <2>1, <2>2, <3>1, <3>2 DEF QuietInv, Idle
    <3>4. QED
      BY <2>1, <2>2, <3>1, <3>2, <3>3 DEF QuietInv, BeginRecord, StartRecord, StoreInv, StoreTypeOK
  <2>3. CASE d # c
    <3>1. writer[w] = Idle
      BY DEF StoreInv, WriterInv, Busy, BeginRecord, StartRecord
    <3>2. writer[w].id # d
      BY <3>1, StoreAssumption DEF Idle
    <3>3. QED
      BY <2>1, <2>3, <3>2 DEF QuietInv, BeginRecord, StartRecord, StoreInv, StoreTypeOK
  <2>4. QED
    BY <2>2, <2>3
<1>5. QED
  BY <1>1, <1>2, <1>3, <1>4 DEF StoreInv

LEMMA ReadKeepsInv ==
    ASSUME StoreInv, NEW w \in Writers, ReadForUpdate(w)
    PROVE  StoreInv'
<1> DEFINE c == writer[w].id
<1>1. /\ c \in Confirmations
      /\ requestedAs[c] # NoAction
      /\ file[c].action \in {requestedAs[c], NoAction}
  BY DEF StoreInv, WriterInv, Busy, BodySurvivesDecisions, ReadForUpdate
<1>2. StoreTypeOK'
  BY <1>1 DEF StoreInv, StoreTypeOK, ReadForUpdate, WriterStates, FileContents
<1>3. FiledInv' /\ ApprovedOnlyByOperator' /\ BodySurvivesDecisions'
  BY DEF StoreInv, FiledInv, ApprovedOnlyByOperator, BodySurvivesDecisions, ReadForUpdate
<1>4. WriterInv'
  BY <1>1 DEF StoreInv, StoreTypeOK, WriterInv, Busy, Idle, ReadForUpdate
<1>5. ASSUME NEW d \in Confirmations \ contended'
      PROVE  QuietInv(d)'
  <2>1. QuietInv(d)
    BY <1>5 DEF StoreInv, ReadForUpdate
  <2>2. ASSUME c = d
        PROVE  file[d].action = requestedAs[d]
    <3>1. file[d].status \notin {"torn", "absent"}
      BY <1>1, <2>1, <2>2 DEF QuietInv, ReadForUpdate, StoreInv, FiledInv
    <3>2. file[d].status \in Statuses
      BY <3>1 DEF StoreInv, StoreTypeOK, FileContents
    <3>3. QED
      BY <3>2, <1>5 DEF StoreInv, BodySurvivesDecisions, ReadForUpdate
  <2>3. QED
    BY <2>1, <2>2 DEF QuietInv, ReadForUpdate, StoreInv, StoreTypeOK
<1>6. QED
  BY <1>2, <1>3, <1>4, <1>5 DEF StoreInv

LEMMA TruncateKeepsInv ==
    ASSUME StoreInv, NEW w \in Writers, Truncate(w)
    PROVE  StoreInv'
<1> DEFINE c == writer[w].id
<1>1. c \in Confirmations /\ requestedAs[c] # NoAction
  BY DEF StoreInv, WriterInv, Busy, Truncate
<1>2. StoreTypeOK'
  BY <1>1 DEF StoreInv, StoreTypeOK, Truncate, WriterStates, FileContents, Torn
<1>3. FiledInv' /\ ApprovedOnlyByOperator' /\ BodySurvivesDecisions'
  BY <1>1 DEF StoreInv, StoreTypeOK, FiledInv, ApprovedOnlyByOperator, BodySurvivesDecisions,
              Truncate, Torn, Statuses
<1>4. WriterInv'
  BY <1>1 DEF StoreInv, StoreTypeOK, WriterInv, Busy, Idle, Truncate
<1>5. ASSUME NEW d \in Confirmations \ contended'
      PROVE  QuietInv(d)'
  <2>1. QuietInv(d)
    BY <1>5 DEF StoreInv, Truncate
  <2>2. QED
    BY <1>1, <2>1 DEF QuietInv, Truncate, StoreInv, StoreTypeOK
<1>6. QED
  BY <1>2, <1>3, <1>4, <1>5 DEF StoreInv

LEMMA WriteBackKeepsInv ==
    ASSUME StoreInv, NEW w \in Writers, WriteBack(w)
    PROVE  StoreInv'
<1> DEFINE c == writer[w].id
           body == [status |-> writer[w].status,
                    action |-> writer[w].action,
                    reason |-> IF w \in Waiters THEN "timeout" ELSE "operator"]
<1>1. /\ c \in Confirmations
      /\ requestedAs[c] # NoAction
      /\ writer[w].status = "approved" => c \in granted
      /\ writer[w].action \in {requestedAs[c], NoAction}
  BY DEF StoreInv, WriterInv, Busy, WriteBack
<1>2. PICK result \in {body, Torn} :
         /\ file' = [file EXCEPT ![c] = result]
         /\ file[c] = Torn => result = body
  BY DEF WriteBack
<1>3. body \in FileContents /\ body.status \in Statuses
  BY <1>1 DEF StoreInv, StoreTypeOK, WriterStates, FileContents, Statuses
<1>4. StoreTypeOK'
  BY <1>2, <1>3, <1>1 DEF StoreInv, StoreTypeOK, WriteBack, WriterStates, FileContents, Torn, Idle, Statuses
<1>5. FiledInv' /\ ApprovedOnlyByOperator'
  BY <1>1, <1>2, <1>3 DEF StoreInv, StoreTypeOK, FiledInv, ApprovedOnlyByOperator,
                          WriteBack, Torn, Statuses
<1>6. WriterInv'
  BY DEF StoreInv, StoreTypeOK, WriterInv, Busy, Idle, WriteBack
<1>7. ASSUME NEW d \in Confirmations \ contended'
      PROVE  QuietInv(d)' /\ (file'[d].status \in Statuses => file'[d].action = requestedAs[d])
  <2>1. QuietInv(d)
    BY <1>7 DEF StoreInv, WriteBack
  <2>2. CASE d = c
    <3>1. file[c] = Torn /\ writer[w].action = requestedAs[c]
      BY <2>1, <2>2 DEF QuietInv, WriteBack
    <3>2. file'[d] = body
      BY <3>1, <2>2, <1>1, <1>2 DEF StoreInv, StoreTypeOK
    <3>3. file'[d].status # "torn" /\ file'[d].action = requestedAs[d]
      BY <3>1, <3>2, <1>3, <2>2 DEF Statuses
    <3>4. \A v \in Writers : writer'[v].id # d
      BY <2>1, <2>2, <1>1, StoreAssumption DEF QuietInv, WriteBack, StoreInv, StoreTypeOK, Idle
    <3>5. QED
      BY <3>3, <3>4 DEF QuietInv
  <2>3. CASE d # c
    <3>1. file'[d] = file[d]
      BY <2>3, <1>2 DEF StoreInv, StoreTypeOK
    <3>2. \A v \in Writers \ {w} : writer'[v] = writer[v]
      BY DEF WriteBack, StoreInv, StoreTypeOK
    <3>3. writer'[w].id # d /\ writer[w].id # d
      BY <2>3, StoreAssumption DEF WriteBack, StoreInv, StoreTypeOK, Idle
    <3>4. QuietInv(d)'
      BY <2>1, <3>1, <3>2, <3>3 DEF QuietInv, WriteBack
    <3>5. file'[d].status \in Statuses => file'[d].action = requestedAs[d]
      BY <1>7, <3>1 DEF StoreInv, BodySurvivesDecisions, WriteBack
    <3>6. QED
      BY <3>4, <3>5
  <2>4. QED
    BY <2>2, <2>3
<1>8. BodySurvivesDecisions'
  <2>1. \A d \in Confirmations : file'[d].action \in {requestedAs'[d], NoAction}
    BY <1>1, <1>2 DEF StoreInv, StoreTypeOK, BodySurvivesDecisions, WriteBack, Torn
  <2>2. requestedAs' = requestedAs
    BY DEF WriteBack
  <2>3. QED
    BY <2>1, <2>2, <1>7 DEF BodySurvivesDecisions
<1>9. QED
  BY <1>4, <1>5, <1>6, <1>7, <1>8 DEF StoreInv

LEMMA WriterDiesKeepsInv ==
    ASSUME StoreInv, NEW w \in Writers, WriterDies(w)
    PROVE  StoreInv'
<1>1. writer[w].id \in Confirmations
  BY DEF StoreInv, WriterInv, Busy, WriterDies
<1>2. StoreTypeOK'
  BY <1>1 DEF StoreInv, StoreTypeOK, WriterDies, WriterStates, Idle, Statuses
<1>3. FiledInv' /\ ApprovedOnlyByOperator' /\ BodySurvivesDecisions' /\ WriterInv'
  BY DEF StoreInv, StoreTypeOK, FiledInv, ApprovedOnlyByOperator, BodySurvivesDecisions,
         WriterInv, Busy, Idle, WriterDies
<1>4. ASSUME NEW d \in Confirmations \ contended'
      PROVE  QuietInv(d)'
  <2>1. QuietInv(d) /\ writer[w].id # d
    BY <1>4 DEF StoreInv, WriterDies
  <2>2. QED
    BY <2>1, StoreAssumption DEF QuietInv, WriterDies, StoreInv, StoreTypeOK, Idle
<1>5. QED
  BY <1>2, <1>3, <1>4 DEF StoreInv

(* Every step on the store keeps its invariant, whoever takes it.          *)
THEOREM StoreStepKeepsInv ==
    ASSUME StoreInv, StoreStep \/ UNCHANGED storeVars
    PROVE  StoreInv'
<1>1. CASE StoreStep
  BY <1>1, RequestKeepsInv, BeginKeepsInv, ReadKeepsInv, TruncateKeepsInv, WriteBackKeepsInv,
     WriterDiesKeepsInv DEF StoreStep
<1>2. CASE UNCHANGED storeVars
  BY <1>2 DEF storeVars, StoreInv, StoreTypeOK, FiledInv, WriterInv, QuietInv, Busy,
              ApprovedOnlyByOperator, BodySurvivesDecisions
<1>3. QED
  BY <1>1, <1>2
============================================================================
