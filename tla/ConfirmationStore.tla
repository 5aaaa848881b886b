------------------------- MODULE ConfirmationStore -------------------------
(***************************************************************************)
(* The confirmation request files of orchestrator/confirmation.py and the  *)
(* processes that rewrite them.                                            *)
(*                                                                         *)
(* A request is one JSON file per id.  A decision is a read-modify-write   *)
(* of that file with no lock: the body is read (an unreadable one counts   *)
(* as empty), the file is truncated by the open of write_text, then the    *)
(* new body is written.  Other processes run between these steps.          *)
(*                                                                         *)
(* This module has no Next of its own: AgentLoop and ChatConfirmation add  *)
(* the agent that files and consumes the requests.                         *)
(***************************************************************************)
CONSTANTS Confirmations,  \* confirmation ids (uuid4, never reused)
          Actions,        \* write_execute actions with their parameters
          Deciders,       \* invocations of `sr-agent confirm` and of the web decide
          Waiters,        \* agent loops that may record a timeout
          NoAction, NoConf

ASSUME StoreAssumption ==
    /\ NoAction \notin Actions
    /\ NoConf \notin Confirmations
    /\ Deciders \cap Waiters = {}

VARIABLES
    file,         \* id -> what is on disk
    writer,       \* process -> its _record_decision in progress
    requestedAs,  \* history: id -> the action it was filed for
    granted,      \* history: ids some operator chose to approve
    contended     \* history: ids with overlapping or interrupted decisions

storeVars == <<file, writer, requestedAs, granted, contended>>

Writers == Deciders \cup Waiters

Statuses == {"pending", "approved", "rejected"}

Absent == [status |-> "absent", action |-> NoAction, reason |-> "none"]
Torn   == [status |-> "torn",   action |-> NoAction, reason |-> "none"]

FileContents ==
    [status : Statuses \cup {"absent", "torn"},
     action : Actions \cup {NoAction},
     reason : {"none", "operator", "timeout"}]

WriterStates ==
    [pc     : {"idle", "read", "truncate", "write"},
     id     : Confirmations \cup {NoConf},
     status : Statuses,
     action : Actions \cup {NoAction}]

Idle == [pc |-> "idle", id |-> NoConf, status |-> "pending", action |-> NoAction]

StoreTypeOK ==
    /\ file \in [Confirmations -> FileContents]
    /\ writer \in [Writers -> WriterStates]
    /\ requestedAs \in [Confirmations -> Actions \cup {NoAction}]
    /\ granted \subseteq Confirmations
    /\ contended \subseteq Confirmations

StoreInit ==
    /\ file = [c \in Confirmations |-> Absent]
    /\ writer = [w \in Writers |-> Idle]
    /\ requestedAs = [c \in Confirmations |-> NoAction]
    /\ granted = {}
    /\ contended = {}

-----------------------------------------------------------------------------
(* Mistake for RetiredForGood: ids that repeat.                            *)
RequestAgain(c, a) ==
    /\ file' = [file EXCEPT ![c] = [status |-> "pending", action |-> a, reason |-> "none"]]
    /\ requestedAs' = [requestedAs EXCEPT ![c] = a]
    /\ UNCHANGED <<writer, granted, contended>>

(* request_confirmation: a new file under a fresh id.  Nobody knows the id *)
(* before the call returns, so the write is one step.                      *)
RequestConfirmation(c, a) ==
    /\ requestedAs[c] = NoAction
    /\ file' = [file EXCEPT ![c] = [status |-> "pending", action |-> a, reason |-> "none"]]
    /\ requestedAs' = [requestedAs EXCEPT ![c] = a]
    /\ UNCHANGED <<writer, granted, contended>>

(* Mistake for DispatchesAreGranted: an unreadable file counts as approved. *)
ReadStatusFailOpen(c) == IF file[c].status \in Statuses THEN file[c].status ELSE "approved"

(* _read_status: a missing or unreadable file counts as pending.           *)
ReadStatus(c) == IF file[c].status \in Statuses THEN file[c].status ELSE "pending"

(* Some other process is inside _record_decision on c.                     *)
OtherWriter(w, c) == \E v \in Writers \ {w} : writer[v].id = c

StartRecord(w, c, s) ==
    /\ writer[w].pc = "idle"
    /\ writer' = [writer EXCEPT ![w] = [pc |-> "read", id |-> c,
                                        status |-> s, action |-> NoAction]]
    /\ contended' = IF OtherWriter(w, c) THEN contended \cup {c} ELSE contended

(* resolve_confirmation: an operator decides on an existing file, whatever *)
(* its present status is.                                                  *)
Decide(d, c, s) ==
    /\ file[c].status # "absent"
    /\ StartRecord(d, c, s)
    /\ granted' = IF s = "approved" THEN granted \cup {c} ELSE granted
    /\ UNCHANGED <<file, requestedAs>>

(* Mistake for BodySurvivesDecisions: the body is not read first.          *)
ReadNothing(w) ==
    /\ writer[w].pc = "read"
    /\ writer' = [writer EXCEPT ![w] = [@ EXCEPT !.pc = "truncate"]]
    /\ UNCHANGED <<file, requestedAs, granted, contended>>

(* _record_decision, its three effects: read the body ...                  *)
ReadForUpdate(w) ==
    /\ writer[w].pc = "read"
    /\ writer' = [writer EXCEPT ![w] = [@ EXCEPT !.pc = "truncate",
                                                 !.action = file[writer[w].id].action]]
    /\ UNCHANGED <<file, requestedAs, granted, contended>>

(* ... open the file for writing, which empties it ...                     *)
Truncate(w) ==
    /\ writer[w].pc = "truncate"
    /\ file' = [file EXCEPT ![writer[w].id] = Torn]
    /\ writer' = [writer EXCEPT ![w] = [@ EXCEPT !.pc = "write"]]
    /\ UNCHANGED <<requestedAs, granted, contended>>

(* ... and write the new body, at offset 0.  If another writer got its own *)
(* body in since our truncation and ours is shorter, its tail survives and *)
(* the file does not parse.                                                *)
WriteBack(w) ==
    LET c    == writer[w].id
        body == [status |-> writer[w].status,
                 action |-> writer[w].action,
                 reason |-> IF w \in Waiters THEN "timeout" ELSE "operator"]
    IN  /\ writer[w].pc = "write"
        /\ \E result \in (IF file[c] = Torn THEN {body} ELSE {body, Torn}) :
               file' = [file EXCEPT ![c] = result]
        /\ writer' = [writer EXCEPT ![w] = Idle]
        /\ UNCHANGED <<requestedAs, granted, contended>>

(* The process dies inside _record_decision.                               *)
WriterDies(w) ==
    /\ writer[w].pc # "idle"
    /\ writer' = [writer EXCEPT ![w] = Idle]
    /\ contended' = contended \cup {writer[w].id}
    /\ UNCHANGED <<file, requestedAs, granted>>

DeciderStep(d) ==
    \/ \E c \in Confirmations : Decide(d, c, "approved")
    \/ \E c \in Confirmations : Decide(d, c, "rejected")
    \/ ReadForUpdate(d)
    \/ Truncate(d)
    \/ WriteBack(d)
    \/ WriterDies(d)

-----------------------------------------------------------------------------
(* Only an operator makes a request approved: neither the agent's timeout  *)
(* nor a collision of two writers ever leaves "approved" in a file that no *)
(* operator approved (resolve_confirmation: "the ONLY path that may set    *)
(* 'approved'").                                                           *)
ApprovedOnlyByOperator ==
    \A c \in Confirmations : file[c].status = "approved" => c \in granted

(* The body of a request, which a resumed session rebuilds the action      *)
(* from, is the one that was filed; it is lost only when two decisions on  *)
(* the id overlapped or one died half way (data = {} in _record_decision). *)
BodySurvivesDecisions ==
    \A c \in Confirmations :
        /\ file[c].action \in {requestedAs[c], NoAction}
        /\ file[c].status \in Statuses /\ c \notin contended
               => file[c].action = requestedAs[c]
============================================================================
