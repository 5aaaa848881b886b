------------------------- MODULE ChatConfirmation -------------------------
(***************************************************************************)
(* The confirmation gate of the chat: `sr-agent chat` processes, the       *)
(* session snapshots they share through episodic memory, and the requests  *)
(* operators decide meanwhile (ConfirmationStore).                         *)
(*                                                                         *)
(* A turn that wants a write_execute action files a request, saves the     *)
(* session as paused and the process ends.  A later `chat --resume` loads  *)
(* the snapshot, reads the decision, executes the action rebuilt from the  *)
(* request file, records its PoC status and saves the session as active.   *)
(* A process may die between any two of these steps, and two processes may *)
(* resume the same session.                                                *)
(***************************************************************************)
EXTENDS Naturals, FiniteSets, ConfirmationStore

CONSTANTS
    Procs,       \* `sr-agent chat` processes
    Sessions,    \* chat session ids
    Silent,      \* the actions with no PoC status (deploy_test_contract)
    NoSession,
    MaxDeaths    \* bound: deaths between executing and saving, per id

ASSUME ChatAssumption ==
    /\ Silent \subseteq Actions
    /\ NoSession \notin Sessions
    /\ Waiters = {}                 \* the chat never polls, so never times out
    /\ MaxDeaths \in Nat
    /\ IsFiniteSet(Procs)

VARIABLES
    snapshot,     \* session -> its latest chat_session record
    proc,         \* process -> its control point and its ChatSession object
    performed,    \* history: what was executed, as <<id, action>>
    runs,         \* history: id -> how often its action was executed
    interrupted,  \* history: id -> processes that died after executing it
    statusEvents  \* id -> PoC status records written for it

chatVars == <<snapshot, proc, performed, runs, interrupted, statusEvents>>
vars == <<storeVars, chatVars>>

SessionStatuses == {"active", "paused_confirmation", "paused_relay"}

Snapshots == [status : SessionStatuses \cup {"none"}, pending : Confirmations \cup {NoConf}]

Active == [status |-> "active", pending |-> NoConf]

ProcStates ==
    [pc      : {"off", "prompt", "filed", "resume", "execute", "record", "save"},
     session : Sessions \cup {NoSession},
     pending : Confirmations \cup {NoConf},
     action  : Actions \cup {NoAction}]

Off == [pc |-> "off", session |-> NoSession, pending |-> NoConf, action |-> NoAction]

(* Past the prompt a process holds the id it works on, and once it set out *)
(* to execute, the action too.                                             *)
ProcOK(state) ==
    /\ state.pc # "off" => state.session # NoSession
    /\ state.pc \in {"filed", "resume", "execute", "record", "save"} => state.pending # NoConf
    /\ state.pc \in {"execute", "record", "save"} => state.action # NoAction

TypeOK ==
    /\ StoreTypeOK
    /\ snapshot \in [Sessions -> Snapshots]
    /\ proc \in [Procs -> ProcStates]
    /\ \A p \in Procs : ProcOK(proc[p])
    /\ performed \subseteq Confirmations \X (Actions \cup {NoAction})
    /\ runs \in [Confirmations -> Nat]
    /\ interrupted \in [Confirmations -> Nat]
    /\ statusEvents \in [Confirmations -> Nat]

Init ==
    /\ StoreInit
    /\ snapshot = [s \in Sessions |-> [status |-> "none", pending |-> NoConf]]
    /\ proc = [p \in Procs |-> Off]
    /\ performed = {}
    /\ runs = [c \in Confirmations |-> 0]
    /\ interrupted = [c \in Confirmations |-> 0]
    /\ statusEvents = [c \in Confirmations |-> 0]

-----------------------------------------------------------------------------
Become(p, state) == proc' = [proc EXCEPT ![p] = state]

AtPrompt(s, c) == [pc |-> "prompt", session |-> s, pending |-> c, action |-> NoAction]

SaveSession(s, status, c) ==
    snapshot' = [snapshot EXCEPT ![s] = [status |-> status, pending |-> c]]

History == <<performed, runs, interrupted, statusEvents>>

(* `chat <project>`: a new session, saved at once.                         *)
StartSession(p, s) ==
    /\ proc[p].pc = "off"
    /\ snapshot[s].status = "none"
    /\ SaveSession(s, "active", NoConf)
    /\ Become(p, AtPrompt(s, NoConf))
    /\ UNCHANGED <<storeVars, History>>

(* `chat --resume <session>`: load the snapshot; resume_confirmation runs  *)
(* first if it is paused on a confirmation.                                *)
ResumeSession(p, s) ==
    /\ proc[p].pc = "off"
    /\ snapshot[s].status # "none"
    /\ Become(p, IF snapshot[s].status = "paused_confirmation"
                 THEN [AtPrompt(s, snapshot[s].pending) EXCEPT !.pc = "resume"]
                 ELSE AtPrompt(s, snapshot[s].pending))
    /\ UNCHANGED <<storeVars, snapshot, History>>

(* resume_confirmation on an undecided request: nothing is saved, and the  *)
(* process goes on to prompt for the next message.                         *)
ResumePending(p) ==
    /\ proc[p].pc = "resume"
    /\ file[proc[p].pending].status \in {"absent", "pending"}
    /\ Become(p, AtPrompt(proc[p].session, proc[p].pending))
    /\ UNCHANGED <<storeVars, snapshot, History>>

(* ... on a rejected one: the session is active again, nothing executed.   *)
ResumeRejected(p) ==
    /\ proc[p].pc = "resume"
    /\ file[proc[p].pending].status = "rejected"
    /\ SaveSession(proc[p].session, "active", NoConf)
    /\ Become(p, AtPrompt(proc[p].session, NoConf))
    /\ UNCHANGED <<storeVars, History>>

(* Mistake for ExecutionsAreGranted: any decided request is executed.      *)
ResumeDecided(p) ==
    LET request == file[proc[p].pending]
    IN  /\ proc[p].pc = "resume"
        /\ request.status \in {"approved", "rejected"}
        /\ request.action # NoAction
        /\ Become(p, [proc[p] EXCEPT !.pc = "execute", !.action = request.action])
        /\ UNCHANGED <<storeVars, snapshot, History>>

(* Mistake for ImplementsGate: a request that lost its action              *)
(* is executed.                                                            *)
ResumeWithoutBody(p) ==
    /\ proc[p].pc = "resume"
    /\ file[proc[p].pending].status = "approved"
    /\ Become(p, [proc[p] EXCEPT !.pc = "execute", !.action = file[proc[p].pending].action])
    /\ UNCHANGED <<storeVars, snapshot, History>>

(* ... on an approved one: the action is rebuilt from the file.            *)
ResumeApproved(p) ==
    LET request == file[proc[p].pending]
    IN  /\ proc[p].pc = "resume"
        /\ request.status = "approved"
        /\ request.action # NoAction
        /\ Become(p, [proc[p] EXCEPT !.pc = "execute", !.action = request.action])
        /\ UNCHANGED <<storeVars, snapshot, History>>

(* ... on a file that does not parse, or an approved one that lost its     *)
(* action: JSONDecodeError or KeyError, and the process ends.              *)
ResumeUnusable(p) ==
    LET request == file[proc[p].pending]
    IN  /\ proc[p].pc = "resume"
        /\ \/ request.status = "torn"
           \/ request.status = "approved" /\ request.action = NoAction
        /\ Become(p, Off)
        /\ UNCHANGED <<storeVars, snapshot, History>>

(* Mistake for RunsAreRecorded: the session is saved with no status event. *)
ExecuteUnrecorded(p) ==
    /\ proc[p].pc = "execute"
    /\ performed' = performed \cup {<<proc[p].pending, proc[p].action>>}
    /\ runs' = [runs EXCEPT ![proc[p].pending] = @ + 1]
    /\ Become(p, [proc[p] EXCEPT !.pc = "save"])
    /\ UNCHANGED <<storeVars, snapshot, interrupted, statusEvents>>

(* execute_confirmed: the effect happens in the sandbox or on disk.        *)
Execute(p) ==
    /\ proc[p].pc = "execute"
    /\ performed' = performed \cup {<<proc[p].pending, proc[p].action>>}
    /\ runs' = [runs EXCEPT ![proc[p].pending] = @ + 1]
    /\ Become(p, [proc[p] EXCEPT !.pc = IF proc[p].action \in Silent
                                        THEN "save" ELSE "record"])
    /\ UNCHANGED <<storeVars, snapshot, interrupted, statusEvents>>

(* record_poc_status, before the session is saved.                         *)
RecordStatus(p) ==
    /\ proc[p].pc = "record"
    /\ statusEvents' = [statusEvents EXCEPT ![proc[p].pending] = @ + 1]
    /\ Become(p, [proc[p] EXCEPT !.pc = "save"])
    /\ UNCHANGED <<storeVars, snapshot, performed, runs, interrupted>>

(* Mistake for SnapshotConsistent: pending_confirmation_id is not reset.   *)
SaveKeepingPending(p) ==
    /\ proc[p].pc = "save"
    /\ SaveSession(proc[p].session, "active", proc[p].pending)
    /\ Become(p, AtPrompt(proc[p].session, proc[p].pending))
    /\ UNCHANGED <<storeVars, History>>

(* Mistake for RunsAccountedFor: the session is updated but not saved.     *)
SaveResumedInMemory(p) ==
    /\ proc[p].pc = "save"
    /\ Become(p, AtPrompt(proc[p].session, NoConf))
    /\ UNCHANGED <<storeVars, snapshot, History>>

(* status = active, pending_confirmation_id = None, save_session.          *)
SaveResumed(p) ==
    /\ proc[p].pc = "save"
    /\ SaveSession(proc[p].session, "active", NoConf)
    /\ Become(p, AtPrompt(proc[p].session, NoConf))
    /\ UNCHANGED <<storeVars, History>>

-----------------------------------------------------------------------------
(* handle_turn, when the turn ends without a confirmation: the session's   *)
(* status and pending id are overwritten by the turn's.  A relay pause, or *)
(* a local model that is not ready (the same to this module), also ends    *)
(* the process.                                                            *)
HandleTurn(p) ==
    LET s == proc[p].session
    IN  /\ proc[p].pc = "prompt"
        /\ \/ /\ SaveSession(s, "active", NoConf)
              /\ Become(p, AtPrompt(s, NoConf))
           \/ /\ SaveSession(s, "paused_relay", NoConf)
              /\ Become(p, Off)
        /\ UNCHANGED <<storeVars, History>>

(* handle_turn, when the model wants a write_execute action: run_turn      *)
(* files the request and returns ...                                       *)
HandleTurnConfirm(p, c, a) ==
    /\ proc[p].pc = "prompt"
    /\ RequestConfirmation(c, a)
    /\ Become(p, [proc[p] EXCEPT !.pc = "filed", !.pending = c])
    /\ UNCHANGED <<snapshot, History>>

(* ... save_turn persists the paused session, and the process ends.        *)
SavePaused(p) ==
    /\ proc[p].pc = "filed"
    /\ SaveSession(proc[p].session, "paused_confirmation", proc[p].pending)
    /\ Become(p, Off)
    /\ UNCHANGED <<storeVars, History>>

(* Ctrl-D at the prompt, or death at any other point before an execution   *)
(* or after its save.                                                      *)
Quit(p) ==
    /\ proc[p].pc \notin {"off", "record", "save"}
    /\ Become(p, Off)
    /\ UNCHANGED <<storeVars, snapshot, History>>

(* Death between executing the action and saving the session.              *)
DieAfterExecuting(p) ==
    /\ proc[p].pc \in {"record", "save"}
    /\ interrupted[proc[p].pending] < MaxDeaths
    /\ interrupted' = [interrupted EXCEPT ![proc[p].pending] = @ + 1]
    /\ Become(p, Off)
    /\ UNCHANGED <<storeVars, snapshot, performed, runs, statusEvents>>

-----------------------------------------------------------------------------
ProcStep(p) ==
    \/ \E s \in Sessions : StartSession(p, s) \/ ResumeSession(p, s)
    \/ ResumePending(p)
    \/ ResumeRejected(p)
    \/ ResumeApproved(p)
    \/ ResumeUnusable(p)
    \/ Execute(p)
    \/ RecordStatus(p)
    \/ SaveResumed(p)
    \/ HandleTurn(p)
    \/ \E c \in Confirmations, a \in Actions : HandleTurnConfirm(p, c, a)
    \/ SavePaused(p)
    \/ Quit(p)
    \/ DieAfterExecuting(p)

OperatorStep(d) == DeciderStep(d) /\ UNCHANGED chatVars

Next ==
    \/ \E p \in Procs : ProcStep(p)
    \/ \E d \in Deciders : OperatorStep(d)

Spec == Init /\ [][Next]_vars

-----------------------------------------------------------------------------
(* A session executes only what was filed under an id a human approved,    *)
(* although the action is rebuilt from a file that other processes rewrite *)
(* and tear (resume_confirmation).                                         *)
ExecutionsAreGranted ==
    \A e \in performed : e[1] \in granted /\ e[2] = requestedAs[e[1]]

(* A saved session is paused on a confirmation exactly when it names one,  *)
(* and the one it names has been filed: a process that dies between filing *)
(* and saving leaves an orphan request, never a session without a request. *)
SnapshotConsistent ==
    \A s \in Sessions :
        /\ snapshot[s].status = "paused_confirmation" <=> snapshot[s].pending # NoConf
        /\ snapshot[s].pending # NoConf => file[snapshot[s].pending].status # "absent"

(* Every repeated execution is paid for by a death between the execution   *)
(* and save_session, or by another process that had resumed the session    *)
(* before the save: with one process and no death an approval is good for  *)
(* one execution, although no request file is ever marked as consumed.     *)
RunsAccountedFor ==
    \A c \in Confirmations : runs[c] <= interrupted[c] + Cardinality(Procs)

(* The processes that are at one of these points with c.                   *)
At(points, c) == {p \in Procs : proc[p].pc \in points /\ proc[p].pending = c}

(* The roadmap misses an executed action only if its process is still on   *)
(* the way to record_poc_status, or died: each has its PoC status event.   *)
RunsAreRecorded ==
    \A c \in Confirmations :
        /\ statusEvents[c] <= runs[c]
        /\ requestedAs[c] \notin Silent =>
              runs[c] <= statusEvents[c] + interrupted[c] + Cardinality(At({"record"}, c))

(* No session and no process refers to c any more.                         *)
Retired(c) ==
    /\ requestedAs[c] # NoAction
    /\ \A s \in Sessions : snapshot[s].pending # c
    /\ \A p \in Procs : proc[p].pending # c

(* A confirmation that no session and no process refers to stays so, and   *)
(* its action is never executed again: later decisions on the file, deaths *)
(* and resumed sessions do not bring it back.                              *)
RetiredForGood ==
    [][\A c \in Confirmations : Retired(c) => Retired(c)' /\ runs'[c] = runs[c]]_vars

Gate == INSTANCE ConfirmationGate WITH requested <- requestedAs

(* The chat implements the abstract gate.                                  *)
ImplementsGate == Gate!Spec

(* specs/003-interactive-chat-mode/data-model.md gives a paused session    *)
(* two ways out, both after a decision: it leaves a pending confirmation   *)
(* only once that confirmation is no longer undecided.                     *)
PausedUntilDecided ==
    [][\A s \in Sessions :
          /\ snapshot[s].pending # NoConf
          /\ snapshot'[s].pending # snapshot[s].pending
          => file[snapshot[s].pending].status # "pending"]_vars
============================================================================
