------------------------------ MODULE WebGate ------------------------------
(* Approval in the operator frontend (frontend/backend/confirm.py and its    *)
(* endpoints in app.py). Fetching a notice runs in the thread pool: the      *)
(* request file is read, then a token is issued. A decision runs on the      *)
(* event loop, one at a time, but beside the fetching threads and beside     *)
(* `sr-agent confirm`, which rewrites the same file (ConfirmationStore).     *)
EXTENDS ConfirmationStore, Naturals

CONSTANTS
    Tabs,         \* browser tabs, each with the last notice it was shown
    Web,          \* the decider that is the web backend
    MaxFetches,   \* bound: notices fetched
    MaxDecisions, \* bound: decisions taken, in the browser or with `sr-agent confirm`
    MaxFailures   \* bound: restarts, deaths, and decisions whose write fails

ASSUME GateAssumption ==
    /\ Web \in Deciders
    /\ {MaxFetches, MaxDecisions, MaxFailures} \subseteq Nat

VARIABLES
    tokens,       \* _TOKENS: id -> the token issued last, 0 if none
    tab,          \* tab -> its notice, or the fetch that is under way
    deciding,     \* the decision the event loop is in
    fetches, decisions, failures,   \* what is used of the bounds
    approvals,    \* history: what approved a request, and what its notice showed
    replayed,     \* history: tokens that approved twice
    cliRejected,  \* history: ids rejected from the command line
    straddled,    \* history: ids with a token for a notice older than a web decision
    overruled     \* history: rejected ids approved over a notice that did not say so

webVars == <<tokens, tab, deciding, fetches, decisions, failures>>
webHistory == <<approvals, replayed, cliRejected, straddled, overruled>>
vars == <<storeVars, webVars, webHistory>>

(* A token is named by the number of its fetch: secrets never repeat.        *)
NoNotice == [pc |-> "idle", id |-> NoConf, action |-> NoAction, status |-> "pending",
             token |-> 0, old |-> FALSE]
Free == [pc |-> "free", id |-> NoConf, status |-> "pending", notice |-> NoNotice]

Init ==
    /\ StoreInit
    /\ tokens = [c \in Confirmations |-> 0]
    /\ tab = [t \in Tabs |-> NoNotice]
    /\ deciding = Free
    /\ fetches = 0 /\ decisions = 0 /\ failures = 0
    /\ approvals = {} /\ replayed = {}
    /\ cliRejected = {} /\ straddled = {} /\ overruled = {}

(* Some session files a request.                                             *)
File(c, a) ==
    /\ RequestConfirmation(c, a)
    /\ UNCHANGED <<webVars, webHistory>>

-----------------------------------------------------------------------------
(* GET /api/confirmations/{id}                                               *)

(* load_notice reads the request: an absent or unparseable one is an error,  *)
(* a decided one is not.                                                     *)
ReadNotice(t, c) ==
    /\ tab[t].pc = "idle" /\ fetches < MaxFetches
    /\ file[c].status \in Statuses
    /\ fetches' = fetches + 1
    /\ tab' = [tab EXCEPT ![t] = [pc |-> "fetching", id |-> c, action |-> file[c].action,
                                  status |-> file[c].status, token |-> fetches', old |-> FALSE]]
    /\ UNCHANGED <<storeVars, tokens, deciding, decisions, failures, webHistory>>

(* The token replaces that of any earlier fetch of the same id.              *)
IssueToken(t) ==
    /\ tab[t].pc = "fetching"
    /\ tokens' = [tokens EXCEPT ![tab[t].id] = tab[t].token]
    /\ tab' = [tab EXCEPT ![t].pc = "idle"]
    /\ straddled' = IF tab[t].old THEN straddled \cup {tab[t].id} ELSE straddled
    /\ UNCHANGED <<storeVars, deciding, fetches, decisions, failures, approvals, replayed, cliRejected, overruled>>

-----------------------------------------------------------------------------
(* POST /api/confirm/{id}                                                    *)

(* Mistake for ApprovalsAreReviewed: any live token will do.                 *)
ValidAnywhere(c, token) == token # 0 /\ \E b \in Confirmations : tokens[b] = token

(* _valid: the token of the id's last fetch.                                 *)
Valid(c, token) == token # 0 /\ tokens[c] = token

StartDecision(c, s, notice) ==
    /\ deciding = Free
    /\ decisions < MaxDecisions /\ decisions' = decisions + 1
    /\ deciding' = [pc |-> "resolving", id |-> c, status |-> s, notice |-> notice]
    /\ Decide(Web, c, s)
    /\ UNCHANGED <<tokens, tab, fetches, failures, approvals, replayed, cliRejected, straddled>>

(* A tab sends whatever token it holds for whatever id; one that is not      *)
(* valid is answered 403 and changes nothing. The status of the request is   *)
(* not looked at.                                                            *)
Approve(t, c) ==
    /\ tab[t].pc = "idle"
    /\ Valid(c, tab[t].token)
    /\ StartDecision(c, "approved", tab[t])
    /\ overruled' = IF file[c].status = "rejected" /\ tab[t].status # "rejected"
                    THEN overruled \cup {c} ELSE overruled

(* Rejecting needs no token.                                                 *)
Reject(c) ==
    /\ StartDecision(c, "rejected", NoNotice)
    /\ UNCHANGED overruled

(* _record_decision of the backend, under its last step the decision stands. *)
WebRecords ==
    /\ ReadForUpdate(Web) \/ Truncate(Web)
    /\ UNCHANGED <<webVars, webHistory>>

WebWrites ==
    /\ WriteBack(Web)
    /\ deciding' = [deciding EXCEPT !.pc = "resolved"]
    /\ IF deciding.status = "approved"
       THEN /\ approvals' = approvals \cup 
                   {[id |-> deciding.id, for |-> deciding.notice.id,
                     action |-> deciding.notice.action, token |-> deciding.notice.token]}
            /\ replayed' = IF \E a \in approvals : a.token = deciding.notice.token
                           THEN replayed \cup {deciding.notice.token} ELSE replayed
       ELSE UNCHANGED <<approvals, replayed>>
    /\ UNCHANGED <<tokens, tab, fetches, decisions, failures, cliRejected, straddled, overruled>>

(* Mistake for RejectionsStand: only an approval uses up the token.          *)
PopApproved ==
    /\ deciding.pc = "resolved"
    /\ tokens' = IF deciding.status = "approved" THEN [tokens EXCEPT ![deciding.id] = 0] ELSE tokens
    /\ deciding' = Free
    /\ UNCHANGED <<storeVars, tab, fetches, decisions, failures, webHistory>>

(* One-shot: whatever token the id has now is dropped, the one of a fetch    *)
(* that ended during the decision included. A fetch still between its two    *)
(* steps is not: its notice is older than the decision, its token will live. *)
PopToken ==
    /\ deciding.pc = "resolved"
    /\ tokens' = [tokens EXCEPT ![deciding.id] = 0]
    /\ tab' = [t \in Tabs |-> IF tab[t].pc = "fetching" /\ tab[t].id = deciding.id
                              THEN [tab[t] EXCEPT !.old = TRUE] ELSE tab[t]]
    /\ deciding' = Free
    /\ UNCHANGED <<storeVars, fetches, decisions, failures, webHistory>>

(* The write fails: the error leaves decide before the token is dropped.     *)
DecisionFails ==
    /\ failures < MaxFailures /\ failures' = failures + 1
    /\ WriterDies(Web)
    /\ deciding' = Free
    /\ UNCHANGED <<tokens, tab, fetches, decisions, webHistory>>

(* The backend restarts: tokens are only in memory, fetches under way fail.  *)
Restart ==
    /\ failures < MaxFailures /\ failures' = failures + 1
    /\ IF writer[Web].pc = "idle" THEN UNCHANGED storeVars ELSE WriterDies(Web)
    /\ tokens' = [c \in Confirmations |-> 0]
    /\ tab' = [t \in Tabs |-> IF tab[t].pc = "fetching" THEN NoNotice ELSE tab[t]]
    /\ deciding' = Free
    /\ UNCHANGED <<fetches, decisions, webHistory>>

-----------------------------------------------------------------------------
(* `sr-agent confirm` in a terminal.                                         *)
CliDecides(d, c, s) ==
    /\ decisions < MaxDecisions /\ decisions' = decisions + 1
    /\ Decide(d, c, s)
    /\ cliRejected' = IF s = "rejected" THEN cliRejected \cup {c} ELSE cliRejected
    /\ UNCHANGED <<tokens, tab, deciding, fetches, failures, approvals, replayed, straddled, overruled>>

CliRecords(d) ==
    /\ ReadForUpdate(d) \/ Truncate(d) \/ WriteBack(d)
    /\ UNCHANGED <<webVars, webHistory>>

CliDies(d) ==
    /\ failures < MaxFailures /\ failures' = failures + 1
    /\ WriterDies(d)
    /\ UNCHANGED <<tokens, tab, deciding, fetches, decisions, webHistory>>

Next ==
    \/ \E c \in Confirmations, a \in Actions : File(c, a)
    \/ \E t \in Tabs, c \in Confirmations : ReadNotice(t, c)
    \/ \E t \in Tabs : IssueToken(t)
    \/ \E t \in Tabs, c \in Confirmations : Approve(t, c)
    \/ \E c \in Confirmations : Reject(c)
    \/ WebRecords
    \/ WebWrites
    \/ PopToken
    \/ DecisionFails
    \/ Restart
    \/ \E d \in Deciders \ {Web}, c \in Confirmations, s \in {"approved", "rejected"} :
           CliDecides(d, c, s)
    \/ \E d \in Deciders \ {Web} : CliRecords(d) \/ CliDies(d)

Spec == Init /\ [][Next]_vars

-----------------------------------------------------------------------------
GateTypeOK ==
    /\ StoreTypeOK
    /\ tokens \in [Confirmations -> 0..MaxFetches]
    /\ \A t \in Tabs : tab[t].token <= fetches
    /\ deciding.pc = "resolving" <=> writer[Web].pc # "idle"
    /\ fetches <= MaxFetches /\ decisions <= MaxDecisions /\ failures <= MaxFailures

(* No reflexive click (FR-009): every approval the gate records used the     *)
(* token of a notice of that very request, which showed the action it was    *)
(* filed for (or none, when earlier decisions on it collided and lost the    *)
(* body), and no token ever approves twice, whatever fetches, decisions,     *)
(* failed writes and restarts come between.                                  *)
ApprovalsAreReviewed ==
    /\ \A a \in approvals :
           /\ a.for = a.id
           /\ \/ a.action = requestedAs[a.id]
              \/ a.action = NoAction /\ a.id \in contended
    /\ replayed = {}

(* A rejection is not undone by accident: a request that is rejected is      *)
(* approved over a notice that did not show the rejection only if the        *)
(* rejection came from the command line, which drops no token, or if the     *)
(* notice had been read, its token not yet issued, when the web decided.     *)
RejectionsStand == overruled \subseteq cliRejected \cup straddled
============================================================================
