-------------------------- MODULE WebFrontend_proofs --------------------------
(* Theorems about the operator's web frontend, for any number of tabs,       *)
(* terminals, requests, viewers and messages.                                *)
(*                                                                           *)
(* The gate (WebGate): approvals follow a notice of the request that was     *)
(* read, and rejections are not undone by notices older than they are.       *)
(*                                                                           *)
(* The trace (TraceBus): a browser is sent the events in the order they were *)
(* published and misses none but for want of room, and the session shows the *)
(* outcome of the last message.                                              *)
EXTENDS WebGate, TraceBus, ConfirmationStore_proofs, SequenceTheorems

-----------------------------------------------------------------------------
(* The gate                                                                  *)

TabStates ==
    [pc : {"idle", "fetching"}, id : Confirmations \cup {NoConf},
     action : Actions \cup {NoAction}, status : Statuses, token : Nat, old : BOOLEAN]

Decisions ==
    [pc : {"free", "resolving", "resolved"}, id : Confirmations \cup {NoConf},
     status : Statuses, notice : TabStates]

Approvals ==
    [id : Confirmations, for : Confirmations, action : Actions \cup {NoAction}, token : Nat]

WebTypeOK ==
    /\ tokens \in [Confirmations -> Nat]
    /\ tab \in [Tabs -> TabStates]
    /\ deciding \in Decisions
    /\ approvals \subseteq Approvals
    /\ fetches \in 0..MaxFetches /\ decisions \in 0..MaxDecisions /\ failures \in 0..MaxFailures
    /\ cliRejected \subseteq Confirmations /\ straddled \subseteq Confirmations
    /\ overruled \subseteq Confirmations

(* The event loop is inside a decision exactly while the backend is inside   *)
(* _record_decision, on the same id and with the same decision. Any other    *)
(* writer about to reject works for the command line.                        *)
LoopInv ==
    /\ deciding.pc = "resolving" <=> Busy(Web)
    /\ deciding.pc = "resolving" =>
           writer[Web].id = deciding.id /\ writer[Web].status = deciding.status
    /\ deciding.pc # "free" => deciding.id \in Confirmations
    /\ deciding.pc = "free" => deciding = Free
    /\ \A w \in Writers \ {Web} :
           Busy(w) /\ writer[w].status = "rejected" => writer[w].id \in cliRejected

(* What a notice with a token showed is the request's own action, or none    *)
(* when decisions on it collided.                                            *)
Shows(id, action) ==
    /\ id \in Confirmations
    /\ requestedAs[id] # NoAction
    /\ \/ action = requestedAs[id]
       \/ action = NoAction /\ id \in contended

Reads(notice) == Shows(notice.id, notice.action)

NoticeInv ==
    /\ \A t \in Tabs : tab[t].token # 0 => Reads(tab[t])
    /\ \A t \in Tabs : tab[t].pc = "fetching" => tab[t].token # 0
    /\ deciding.pc # "free" /\ deciding.status = "approved" =>
           /\ Reads(deciding.notice)
           /\ deciding.notice.id = deciding.id
           /\ deciding.notice.token # 0
    /\ \A a \in approvals : a.for = a.id /\ Shows(a.id, a.action)

(* A token names one fetch: no two tabs or ids have the same, and the token  *)
(* of a fetch under way is issued nowhere.                                   *)
TokenInv ==
    /\ \A c \in Confirmations : tokens[c] <= fetches
    /\ \A t \in Tabs : tab[t].token <= fetches
    /\ deciding.notice.token <= fetches
    /\ \A t, u \in Tabs : tab[t].token = tab[u].token => t = u \/ tab[t].token = 0
    /\ \A c, d \in Confirmations : tokens[c] = tokens[d] => c = d \/ tokens[c] = 0
    /\ \A t \in Tabs, c \in Confirmations :
           tab[t].token = tokens[c] /\ tokens[c] # 0 => tab[t].pc = "idle" /\ tab[t].id = c
    /\ \A t \in Tabs : tab[t].pc = "fetching" => tab[t].token # deciding.notice.token

(* A token that approved is used up: it is only alive until the loop, still  *)
(* in that decision, drops it.                                               *)
UsedInv ==
    /\ replayed = {}
    /\ \A a \in approvals :
          /\ a.token # 0 /\ a.token <= fetches
          /\ \A t \in Tabs : tab[t].pc = "fetching" => tab[t].token # a.token
          /\ \A c \in Confirmations :
                tokens[c] = a.token => deciding.pc = "resolved" /\ deciding.id = c
          /\ deciding.pc = "resolving" /\ deciding.status = "approved"
                => deciding.notice.token # a.token
    /\ \A c \in Confirmations :
          deciding.pc # "free" /\ deciding.status = "approved" /\ tokens[c] = deciding.notice.token
              => c = deciding.id

(* The notice of a tab could still approve: its token is alive or to come.   *)
Outstanding(t, c) ==
    /\ tab[t].id = c /\ tab[t].token # 0
    /\ tab[t].pc = "fetching" \/ tokens[c] = tab[t].token

Admitted(t, c) ==
    tab[t].status = "rejected" \/ c \in straddled \/ (tab[t].pc = "fetching" /\ tab[t].old)

(* A request the browser rejected stays so known: its outstanding notices    *)
(* say so, or are marked as older than the rejection, unless the loop is     *)
(* still in the decision.                                                    *)
RejectedInv ==
    \A c \in Confirmations :
        file[c].status = "rejected" /\ c \notin cliRejected =>
            \/ deciding.pc = "resolved" /\ deciding.id = c
            \/ \A t \in Tabs : Outstanding(t, c) => Admitted(t, c)

IInv ==
    /\ StoreInv /\ WebTypeOK
    /\ LoopInv /\ NoticeInv /\ TokenInv /\ UsedInv /\ RejectedInv
    /\ RejectionsStand

-----------------------------------------------------------------------------
LEMMA InitInv == Init => IInv
<1> SUFFICES ASSUME Init PROVE IInv
  OBVIOUS
<1> USE DEF Init, NoNotice, Free
<1>1. StoreInv
  BY StoreInitInv
<1>2. WebTypeOK
  BY GateAssumption DEF WebTypeOK, TabStates, Decisions, Statuses
<1>3. LoopInv /\ NoticeInv
  BY GateAssumption DEF LoopInv, NoticeInv, Busy, StoreInit, Idle, Writers
<1>4. TokenInv /\ UsedInv
  BY DEF TokenInv, UsedInv
<1>5. RejectedInv
  BY DEF RejectedInv, StoreInit, Absent
<1>6. RejectionsStand
  BY DEF RejectionsStand
<1>7. QED
  BY <1>1, <1>2, <1>3, <1>4, <1>5, <1>6 DEF IInv

(* Every step of the gate is a step on the request files.                    *)
LEMMA NextIsStoreStep ==
    ASSUME StoreInv, Next
    PROVE  StoreStep \/ UNCHANGED storeVars
<1>1. ASSUME NEW c \in Confirmations, NEW a \in Actions, File(c, a)
      PROVE  StoreStep
  BY <1>1 DEF File, StoreStep
<1>2. ASSUME NEW w \in Deciders, NEW c \in Confirmations, NEW s \in Statuses, Decide(w, c, s)
      PROVE  StoreStep
  <2>1. requestedAs[c] # NoAction
    BY <1>2 DEF StoreInv, FiledInv, Decide
  <2>2. BeginRecord(w, c, s)
    BY <2>1, <1>2 DEF Decide, BeginRecord
  <2>3. QED
    BY <2>2 DEF StoreStep, Writers
<1>3. ASSUME NEW w \in Deciders,
             ReadForUpdate(w) \/ Truncate(w) \/ WriteBack(w) \/ WriterDies(w)
      PROVE  StoreStep
  BY <1>3 DEF StoreStep, Writers
<1>4. ASSUME NEW t \in Tabs, NEW c \in Confirmations, Approve(t, c) PROVE StoreStep
  BY <1>2, <1>4, GateAssumption DEF Approve, StartDecision, Statuses
<1>5. ASSUME NEW c \in Confirmations, Reject(c) PROVE StoreStep
  BY <1>2, <1>5, GateAssumption DEF Reject, StartDecision, Statuses
<1>6. ASSUME NEW d \in Deciders \ {Web}, NEW c \in Confirmations,
             NEW s \in {"approved", "rejected"}, CliDecides(d, c, s)
      PROVE  StoreStep
  BY <1>2, <1>6 DEF CliDecides, Statuses
<1>7. ASSUME NEW d \in Deciders \ {Web}, CliRecords(d) \/ CliDies(d) PROVE StoreStep
  BY <1>3, <1>7 DEF CliRecords, CliDies
<1>8. ASSUME WebRecords \/ WebWrites \/ DecisionFails PROVE StoreStep
  BY <1>3, <1>8, GateAssumption DEF WebRecords, WebWrites, DecisionFails
<1>9. ASSUME Restart PROVE StoreStep \/ UNCHANGED storeVars
  BY <1>3, <1>9, GateAssumption DEF Restart
<1>10. ASSUME PopToken \/ (\E t \in Tabs : IssueToken(t) \/ \E c \in Confirmations : ReadNotice(t, c))
       PROVE  UNCHANGED storeVars
  BY <1>10 DEF PopToken, IssueToken, ReadNotice
<1>11. QED
  BY <1>1, <1>4, <1>5, <1>6, <1>7, <1>8, <1>9, <1>10 DEF Next

(* What a notice showed of a request stays what it was filed for.            *)
LEMMA ReadsStays ==
    ASSUME StoreInv, StoreStep \/ UNCHANGED storeVars
    PROVE  /\ \A c \in Confirmations : requestedAs[c] # NoAction => requestedAs'[c] = requestedAs[c]
           /\ contended \subseteq contended'
<1> USE DEF StoreInv, StoreTypeOK
<1>1. CASE UNCHANGED storeVars
  BY <1>1 DEF storeVars
<1>2. ASSUME NEW c \in Confirmations, NEW a \in Actions, RequestConfirmation(c, a)
      PROVE  /\ \A d \in Confirmations : requestedAs[d] # NoAction => requestedAs'[d] = requestedAs[d]
             /\ contended \subseteq contended'
  BY <1>2 DEF RequestConfirmation
<1>3. ASSUME NEW w \in Writers,
             \/ \E c \in Confirmations, s \in Statuses : BeginRecord(w, c, s)
             \/ ReadForUpdate(w) \/ Truncate(w) \/ WriteBack(w) \/ WriterDies(w)
      PROVE  requestedAs' = requestedAs /\ contended \subseteq contended'
  BY <1>3 DEF BeginRecord, StartRecord, ReadForUpdate, Truncate, WriteBack, WriterDies
<1>4. QED
  BY <1>1, <1>2, <1>3 DEF StoreStep

(* What every step may rely on, and what is shown of every action.           *)
Before == IInv /\ StoreInv' /\ (StoreStep \/ UNCHANGED storeVars)
WebInv == WebTypeOK /\ LoopInv /\ NoticeInv /\ TokenInv /\ UsedInv /\ RejectedInv

-----------------------------------------------------------------------------
(* Fetching a notice.                                                        *)
LEMMA ReadNoticeKeepsInv ==
    ASSUME Before, NEW t \in Tabs, NEW c \in Confirmations, ReadNotice(t, c)
    PROVE  WebInv'
<1> USE DEF Before, IInv
<1> DEFINE n == [pc |-> "fetching", id |-> c, action |-> file[c].action,
                 status |-> file[c].status, token |-> fetches + 1, old |-> FALSE]
<1>1. /\ tab' = [tab EXCEPT ![t] = n]
      /\ fetches' = fetches + 1 /\ fetches < MaxFetches
      /\ UNCHANGED <<storeVars, tokens, deciding, decisions, failures, webHistory>>
  BY DEF ReadNotice
<1>2. n \in TabStates
  BY DEF ReadNotice, WebTypeOK, TabStates, StoreInv, StoreTypeOK, FileContents
<1>3. tab' \in [Tabs -> TabStates] /\ \A u \in Tabs : tab'[u] = IF u = t THEN n ELSE tab[u]
  BY <1>1, <1>2 DEF WebTypeOK
<1>4. WebTypeOK'
  BY <1>1, <1>3, GateAssumption DEF WebTypeOK, webHistory
<1>5. Reads(n)
  BY DEF Reads, Shows, ReadNotice, StoreInv, FiledInv, BodySurvivesDecisions, Statuses
<1>6. LoopInv'
  BY <1>1 DEF LoopInv, Busy, storeVars, webHistory
<1>7. NoticeInv'
  BY <1>1, <1>3, <1>5 DEF NoticeInv, Reads, Shows, storeVars, WebTypeOK, webHistory
<1>8. TokenInv' /\ UsedInv'
  BY <1>1, <1>3 DEF TokenInv, UsedInv, webHistory, WebTypeOK, TabStates, Decisions, Approvals
<1>9. RejectedInv'
  BY <1>1, <1>3 DEF RejectedInv, Outstanding, Admitted, storeVars, webHistory
<1>10. QED
  BY <1>4, <1>6, <1>7, <1>8, <1>9 DEF WebInv

LEMMA IssueTokenKeepsInv ==
    ASSUME Before, NEW t \in Tabs, IssueToken(t)
    PROVE  WebInv'
<1> USE DEF Before, IInv
<1> DEFINE c == tab[t].id
<1>1. /\ tokens' = [tokens EXCEPT ![c] = tab[t].token]
      /\ tab' = [tab EXCEPT ![t].pc = "idle"]
      /\ straddled' = IF tab[t].old THEN straddled \cup {c} ELSE straddled
      /\ tab[t].pc = "fetching"
      /\ UNCHANGED <<storeVars, deciding, fetches, decisions, failures, approvals, replayed, cliRejected, overruled>>
  BY DEF IssueToken
<1>2. c \in Confirmations /\ tab[t] \in TabStates /\ tab[t].token # 0
  BY <1>1 DEF NoticeInv, Reads, Shows, WebTypeOK
<1>3. /\ tab' \in [Tabs -> TabStates]
      /\ \A u \in Tabs \ {t} : tab'[u] = tab[u]
      /\ tab'[t] = [tab[t] EXCEPT !.pc = "idle"]
  BY <1>1, <1>2 DEF WebTypeOK, TabStates
<1>4. /\ tab'[t].pc = "idle" /\ tab'[t].id = c /\ tab'[t].token = tab[t].token
      /\ tab'[t].action = tab[t].action /\ tab'[t].status = tab[t].status
  BY <1>2, <1>3 DEF TabStates
<1>5. /\ tokens' \in [Confirmations -> Nat]
      /\ \A d \in Confirmations : tokens'[d] = IF d = c THEN tab[t].token ELSE tokens[d]
  BY <1>1, <1>2 DEF WebTypeOK, TabStates
<1>6. WebTypeOK'
  BY <1>1, <1>2, <1>3, <1>5 DEF WebTypeOK
<1>7. LoopInv'
  BY <1>1 DEF LoopInv, Busy, storeVars
<1>8. NoticeInv'
  BY <1>1, <1>3, <1>4 DEF NoticeInv, Reads, Shows, storeVars
<1>9. TokenInv'
  BY <1>1, <1>2, <1>3, <1>4, <1>5 DEF TokenInv
<1>10. UsedInv'
  BY <1>1, <1>2, <1>3, <1>4, <1>5 DEF UsedInv, TokenInv
<1>11. ASSUME NEW d \in Confirmations, file[d].status = "rejected", d \notin cliRejected,
              ~(deciding.pc = "resolved" /\ deciding.id = d),
              NEW u \in Tabs, Outstanding(u, d)'
       PROVE  Admitted(u, d)'
  <2>1. \A v \in Tabs : Outstanding(v, d) => Admitted(v, d)
    BY <1>11 DEF RejectedInv
  <2>2. CASE u = t
    <3>1. d = c /\ Outstanding(t, d)
      BY <1>1, <1>2, <1>4, <1>11, <2>2 DEF Outstanding
    <3>2. QED
      BY <2>1, <2>2, <3>1, <1>1, <1>4 DEF Admitted
  <2>3. CASE u # t
    <3>1. Outstanding(u, d)
      BY <1>2, <1>3, <1>5, <1>11, <2>3 DEF Outstanding, TokenInv
    <3>2. QED
      BY <2>1, <2>3, <3>1, <1>1, <1>3 DEF Admitted
  <2>4. QED
    BY <2>2, <2>3
<1>12. RejectedInv'
  BY <1>1, <1>11 DEF RejectedInv, storeVars
<1>13. QED
  BY <1>6, <1>7, <1>8, <1>9, <1>10, <1>12 DEF WebInv


-----------------------------------------------------------------------------
(* Deciding in the browser.                                                  *)

(* A decision begins: what it adds to the inductive invariant.               *)
LEMMA StartDecisionKeepsInv ==
    ASSUME Before, NEW c \in Confirmations, NEW s \in {"approved", "rejected"},
           NEW notice \in TabStates, StartDecision(c, s, notice),
           notice.token <= fetches,
           \A t \in Tabs : tab[t].pc = "fetching" => tab[t].token # notice.token,
           s = "approved" => /\ Reads(notice) /\ notice.id = c /\ notice.token # 0
                             /\ tokens[c] = notice.token,
           overruled' \subseteq Confirmations
    PROVE  WebInv'
<1> USE DEF Before, IInv
<1>1. /\ deciding = Free
      /\ deciding' = [pc |-> "resolving", id |-> c, status |-> s, notice |-> notice]
      /\ decisions' = decisions + 1 /\ decisions < MaxDecisions
      /\ UNCHANGED <<file, requestedAs, tokens, tab, fetches, failures, approvals, replayed, cliRejected, straddled>>
  BY DEF StartDecision, Decide
<1>2. /\ writer' = [writer EXCEPT ![Web] = [pc |-> "read", id |-> c, status |-> s, action |-> NoAction]]
      /\ writer \in [Writers -> WriterStates] /\ Web \in Writers
      /\ contended \subseteq contended'
  BY GateAssumption, ReadsStays DEF StartDecision, Decide, StartRecord, StoreInv, StoreTypeOK, Writers
<1>3. WebTypeOK'
  BY <1>1, GateAssumption DEF WebTypeOK, Decisions, Statuses
<1>4. LoopInv'
  BY <1>1, <1>2 DEF LoopInv, Busy
<1>5. NoticeInv'
  BY <1>1, <1>2 DEF NoticeInv, Reads, Shows
<1>6. TokenInv'
  BY <1>1 DEF TokenInv
<1>7. UsedInv'
  BY <1>1 DEF UsedInv, TokenInv, Free
<1>8. RejectedInv'
  BY <1>1 DEF RejectedInv, Outstanding, Admitted, Free
<1>9. QED
  BY <1>3, <1>4, <1>5, <1>6, <1>7, <1>8 DEF WebInv

LEMMA ApproveKeepsInv ==
    ASSUME Before, NEW t \in Tabs, NEW c \in Confirmations, Approve(t, c)
    PROVE  WebInv'
<1> USE DEF Before, IInv
<1>1. tab[t] \in TabStates /\ tab[t].token # 0 /\ tokens[c] = tab[t].token
  BY DEF Approve, Valid, WebTypeOK
<1>2. Reads(tab[t]) /\ tab[t].id = c /\ tab[t].token <= fetches
  BY <1>1 DEF NoticeInv, TokenInv
<1>3. \A u \in Tabs : tab[u].pc = "fetching" => tab[u].token # tab[t].token
  BY <1>1, <1>2 DEF Approve, TokenInv
<1>4. overruled' \subseteq Confirmations
  BY DEF Approve, WebTypeOK
<1>5. QED
  BY <1>1, <1>2, <1>3, <1>4, StartDecisionKeepsInv DEF Approve

LEMMA RejectKeepsInv ==
    ASSUME Before, NEW c \in Confirmations, Reject(c)
    PROVE  WebInv'
<1> USE DEF Before, IInv
<1>1. NoNotice \in TabStates /\ NoNotice.token = 0
  BY DEF NoNotice, TabStates, Statuses
<1>2. NoNotice.token <= fetches /\ \A u \in Tabs : tab[u].pc = "fetching" => tab[u].token # NoNotice.token
  BY <1>1 DEF NoticeInv, WebTypeOK
<1>3. overruled' \subseteq Confirmations
  BY DEF Reject, WebTypeOK
<1>4. QED
  BY <1>1, <1>2, <1>3, StartDecisionKeepsInv DEF Reject

LEMMA WebRecordsKeepsInv ==
    ASSUME Before, WebRecords
    PROVE  WebInv'
<1> USE DEF Before, IInv
<1>1. /\ writer \in [Writers -> WriterStates] /\ Web \in Writers
      /\ UNCHANGED <<webVars, webHistory, requestedAs, contended>>
  BY GateAssumption DEF WebRecords, ReadForUpdate, Truncate, StoreInv, StoreTypeOK, Writers
<1>2. /\ Busy(Web) /\ writer'[Web].pc # "idle"
      /\ writer'[Web].id = writer[Web].id /\ writer'[Web].status = writer[Web].status
      /\ \A w \in Writers \ {Web} : writer'[w] = writer[w]
  <2>1. CASE ReadForUpdate(Web)
    BY <2>1, <1>1 DEF ReadForUpdate, Busy, WriterStates
  <2>2. CASE Truncate(Web)
    BY <2>2, <1>1 DEF Truncate, Busy, WriterStates
  <2>3. QED
    BY <2>1, <2>2 DEF WebRecords
<1>3. \A c \in Confirmations : file'[c] = file[c] \/ file'[c] = Torn
  BY DEF WebRecords, ReadForUpdate, Truncate, StoreInv, StoreTypeOK
<1>4. WebTypeOK'
  BY <1>1 DEF WebTypeOK, webVars, webHistory
<1>5. LoopInv'
  BY <1>1, <1>2 DEF LoopInv, Busy, webVars, webHistory
<1>6. NoticeInv' /\ TokenInv' /\ UsedInv'
  BY <1>1 DEF NoticeInv, Reads, Shows, TokenInv, UsedInv, webVars, webHistory
<1>7. RejectedInv'
  BY <1>1, <1>3 DEF RejectedInv, Outstanding, Admitted, Torn, webVars, webHistory
<1>8. QED
  BY <1>4, <1>5, <1>6, <1>7 DEF WebInv

(* The new approval carries a token no earlier one had.                      *)
LEMMA WebWritesKeepsInv ==
    ASSUME Before, WebWrites
    PROVE  WebInv'
<1> USE DEF Before, IInv
<1> DEFINE a == [id |-> deciding.id, for |-> deciding.notice.id,
                 action |-> deciding.notice.action, token |-> deciding.notice.token]
<1>1. /\ UNCHANGED <<tokens, tab, fetches, decisions, failures, cliRejected, straddled, overruled,
                     requestedAs, contended>>
      /\ deciding' = [deciding EXCEPT !.pc = "resolved"]
      /\ approvals' = IF deciding.status = "approved" THEN approvals \cup {a} ELSE approvals
  BY DEF WebWrites, WriteBack
<1>2. /\ writer[Web].pc = "write" /\ writer' = [writer EXCEPT ![Web] = Idle]
      /\ writer \in [Writers -> WriterStates] /\ Web \in Writers
  BY GateAssumption DEF WebWrites, WriteBack, StoreInv, StoreTypeOK, Writers
<1>3. /\ deciding.pc = "resolving" /\ deciding.id \in Confirmations /\ deciding \in Decisions
      /\ writer[Web].id = deciding.id /\ writer[Web].status = deciding.status
  BY <1>2 DEF LoopInv, Busy, WebTypeOK
<1>4. /\ deciding'.pc = "resolved" /\ deciding'.id = deciding.id
      /\ deciding'.status = deciding.status /\ deciding'.notice = deciding.notice
      /\ deciding' \in Decisions
  BY <1>1, <1>3 DEF Decisions
<1>5. deciding.status = "approved" => a \in Approvals /\ a.token # 0 /\ a.token <= fetches
  BY <1>3 DEF NoticeInv, TokenInv, Reads, Shows, Approvals, Decisions, TabStates
<1>6. WebTypeOK'
  BY <1>1, <1>4, <1>5 DEF WebTypeOK
<1>7. LoopInv'
  BY <1>1, <1>2, <1>3, <1>4 DEF LoopInv, Busy, Idle
<1>8. NoticeInv' /\ TokenInv'
  BY <1>1, <1>3, <1>4 DEF NoticeInv, Reads, Shows, TokenInv
<1>9. UsedInv'
  <2>1. replayed' = {}
    BY <1>3 DEF WebWrites, UsedInv
  <2>2. QED
    BY <2>1, <1>1, <1>3, <1>4, <1>5 DEF UsedInv, TokenInv
<1>10. \A c \in Confirmations \ {deciding.id} : file'[c] = file[c]
  BY <1>3 DEF WebWrites, WriteBack, StoreInv, StoreTypeOK
<1>11. RejectedInv'
  BY <1>1, <1>3, <1>4, <1>10 DEF RejectedInv, Outstanding, Admitted
<1>12. QED
  BY <1>6, <1>7, <1>8, <1>9, <1>11 DEF WebInv

LEMMA PopTokenKeepsInv ==
    ASSUME Before, PopToken
    PROVE  WebInv'
<1> USE DEF Before, IInv
<1> DEFINE c == deciding.id
<1>1. /\ deciding.pc = "resolved" /\ c \in Confirmations
      /\ tokens' = [tokens EXCEPT ![c] = 0]
      /\ tab' = [t \in Tabs |-> IF tab[t].pc = "fetching" /\ tab[t].id = c
                                THEN [tab[t] EXCEPT !.old = TRUE] ELSE tab[t]]
      /\ deciding' = Free
      /\ UNCHANGED <<storeVars, fetches, decisions, failures, webHistory>>
  BY DEF PopToken, LoopInv
<1>2. /\ tokens' \in [Confirmations -> Nat]
      /\ \A d \in Confirmations : tokens'[d] = IF d = c THEN 0 ELSE tokens[d]
  BY <1>1 DEF WebTypeOK
<1>3. \A t \in Tabs :
         /\ tab'[t] \in TabStates
         /\ tab'[t].pc = tab[t].pc /\ tab'[t].id = tab[t].id /\ tab'[t].token = tab[t].token
         /\ tab'[t].action = tab[t].action /\ tab'[t].status = tab[t].status
         /\ tab'[t].pc = "fetching" /\ (tab'[t].id = c \/ tab[t].old) => tab'[t].old
  BY <1>1 DEF WebTypeOK, TabStates
<1>4. deciding' \in Decisions /\ deciding'.pc = "free" /\ deciding'.notice.token = 0
  BY <1>1 DEF Decisions, Free, TabStates, NoNotice, Statuses
<1>5. WebTypeOK'
  BY <1>1, <1>2, <1>3, <1>4 DEF WebTypeOK, webHistory
<1>6. LoopInv'
  BY <1>1, <1>4 DEF LoopInv, Busy, storeVars, webHistory
<1>7. NoticeInv'
  BY <1>1, <1>3, <1>4 DEF NoticeInv, Reads, Shows, storeVars, webHistory
<1>8. TokenInv'
  BY <1>1, <1>2, <1>3, <1>4 DEF TokenInv, NoticeInv, WebTypeOK
<1>9. UsedInv'
  BY <1>1, <1>2, <1>3, <1>4 DEF UsedInv, webHistory
<1>10. \A d \in Confirmations, t \in Tabs :
          /\ Outstanding(t, d)' => Outstanding(t, d)
          /\ Outstanding(t, d)' /\ Admitted(t, d) => Admitted(t, d)'
          /\ Outstanding(t, d)' /\ d = c => Admitted(t, d)'
  BY <1>1, <1>2, <1>3 DEF Outstanding, Admitted, webHistory
<1>11. RejectedInv'
  BY <1>1, <1>10 DEF RejectedInv, storeVars, webHistory
<1>12. QED
  BY <1>5, <1>6, <1>7, <1>8, <1>9, <1>11 DEF WebInv


(* The write fails, or the backend restarts: the decision is forgotten.      *)
LEMMA DecisionFailsKeepsInv ==
    ASSUME Before, DecisionFails
    PROVE  WebInv'
<1> USE DEF Before, IInv
<1>1. /\ failures' = failures + 1 /\ failures < MaxFailures
      /\ deciding' = Free /\ deciding.pc = "resolving"
      /\ UNCHANGED <<file, requestedAs, tokens, tab, fetches, decisions, webHistory>>
      /\ contended \subseteq contended'
      /\ writer' = [writer EXCEPT ![Web] = Idle]
  BY DEF DecisionFails, WriterDies, LoopInv, Busy
<1>2. Web \in Writers /\ writer \in [Writers -> WriterStates]
  BY GateAssumption DEF Writers, StoreInv, StoreTypeOK
<1>3. deciding' \in Decisions /\ deciding'.pc = "free" /\ deciding'.notice.token = 0
  BY <1>1 DEF Decisions, Free, TabStates, NoNotice, Statuses
<1>4. WebTypeOK'
  BY <1>1, <1>3, GateAssumption DEF WebTypeOK, webHistory
<1>5. LoopInv'
  BY <1>1, <1>2, <1>3 DEF LoopInv, Busy, Idle, webHistory
<1>6. NoticeInv'
  BY <1>1, <1>3 DEF NoticeInv, Reads, Shows, webHistory
<1>7. TokenInv' /\ UsedInv'
  BY <1>1, <1>3 DEF TokenInv, UsedInv, NoticeInv, WebTypeOK, webHistory
<1>8. RejectedInv'
  BY <1>1 DEF RejectedInv, Outstanding, Admitted, webHistory
<1>9. QED
  BY <1>4, <1>5, <1>6, <1>7, <1>8 DEF WebInv

LEMMA RestartKeepsInv ==
    ASSUME Before, Restart
    PROVE  WebInv'
<1> USE DEF Before, IInv
<1>1. /\ failures' = failures + 1 /\ failures < MaxFailures
      /\ tokens' = [c \in Confirmations |-> 0]
      /\ tab' = [t \in Tabs |-> IF tab[t].pc = "fetching" THEN NoNotice ELSE tab[t]]
      /\ deciding' = Free
      /\ UNCHANGED <<file, requestedAs, fetches, decisions, webHistory>>
      /\ contended \subseteq contended'
  BY DEF Restart, WriterDies, storeVars
<1>2. /\ Web \in Writers /\ writer \in [Writers -> WriterStates]
      /\ writer'[Web].pc = "idle" /\ \A w \in Writers \ {Web} : writer'[w] = writer[w]
  BY GateAssumption DEF Restart, WriterDies, storeVars, Writers, StoreInv, StoreTypeOK, Idle
<1>3. \A t \in Tabs :
         /\ tab'[t] \in TabStates /\ tab'[t].pc = "idle"
         /\ tab'[t] = tab[t] \/ tab'[t].token = 0
  BY <1>1 DEF WebTypeOK, TabStates, NoNotice, Statuses
<1>4. deciding' \in Decisions /\ deciding'.pc = "free" /\ deciding'.notice.token = 0
  BY <1>1 DEF Decisions, Free, TabStates, NoNotice, Statuses
<1>5. WebTypeOK'
  BY <1>1, <1>3, <1>4, GateAssumption DEF WebTypeOK, webHistory
<1>6. LoopInv'
  BY <1>1, <1>2, <1>4 DEF LoopInv, Busy, webHistory
<1>7. NoticeInv'
  BY <1>1, <1>3, <1>4 DEF NoticeInv, Reads, Shows, webHistory
<1>8. TokenInv'
  BY <1>1, <1>3, <1>4 DEF TokenInv, WebTypeOK
<1>9. UsedInv'
  BY <1>1, <1>3, <1>4 DEF UsedInv, webHistory
<1>10. RejectedInv'
  BY <1>1, <1>3 DEF RejectedInv, Outstanding
<1>11. QED
  BY <1>5, <1>6, <1>7, <1>8, <1>9, <1>10 DEF WebInv

-----------------------------------------------------------------------------
(* What happens beside the backend: sessions file requests, terminals decide. *)
LEMMA FileKeepsInv ==
    ASSUME Before, NEW c \in Confirmations, NEW a \in Actions, File(c, a)
    PROVE  WebInv'
<1> USE DEF Before, IInv
<1>1. /\ UNCHANGED <<webVars, webHistory, writer, contended>>
      /\ \A d \in Confirmations : requestedAs[d] # NoAction => requestedAs'[d] = requestedAs[d]
      /\ \A d \in Confirmations : file'[d].status = "rejected" => file[d].status = "rejected"
  BY ReadsStays DEF File, RequestConfirmation, StoreInv, StoreTypeOK
<1>2. WebTypeOK' /\ LoopInv'
  BY <1>1 DEF WebTypeOK, LoopInv, Busy, webVars, webHistory
<1>3. NoticeInv' /\ TokenInv' /\ UsedInv'
  BY <1>1 DEF NoticeInv, Reads, Shows, TokenInv, UsedInv, webVars, webHistory
<1>4. RejectedInv'
  BY <1>1 DEF RejectedInv, Outstanding, Admitted, webVars, webHistory
<1>5. QED
  BY <1>2, <1>3, <1>4 DEF WebInv

LEMMA CliDecidesKeepsInv ==
    ASSUME Before, NEW d \in Deciders \ {Web}, NEW c \in Confirmations,
           NEW s \in {"approved", "rejected"}, CliDecides(d, c, s)
    PROVE  WebInv'
<1> USE DEF Before, IInv
<1>1. /\ decisions' = decisions + 1 /\ decisions < MaxDecisions
      /\ cliRejected' = IF s = "rejected" THEN cliRejected \cup {c} ELSE cliRejected
      /\ UNCHANGED <<file, requestedAs, tokens, tab, deciding, fetches, failures, approvals, replayed,
                     straddled, overruled>>
      /\ contended \subseteq contended'
      /\ writer' = [writer EXCEPT ![d] = [pc |-> "read", id |-> c, status |-> s, action |-> NoAction]]
  BY DEF CliDecides, Decide, StartRecord
<1>2. {d, Web} \subseteq Writers /\ writer \in [Writers -> WriterStates]
  BY GateAssumption DEF Writers, StoreInv, StoreTypeOK
<1>3. WebTypeOK'
  BY <1>1, GateAssumption DEF WebTypeOK
<1>4. LoopInv'
  BY <1>1, <1>2 DEF LoopInv, Busy
<1>5. NoticeInv' /\ TokenInv' /\ UsedInv'
  BY <1>1 DEF NoticeInv, Reads, Shows, TokenInv, UsedInv
<1>6. RejectedInv'
  BY <1>1 DEF RejectedInv, Outstanding, Admitted
<1>7. QED
  BY <1>3, <1>4, <1>5, <1>6 DEF WebInv

(* Only a terminal that rejects leaves a rejected file behind.               *)
LEMMA CliRecordsKeepsInv ==
    ASSUME Before, NEW d \in Deciders \ {Web}, CliRecords(d) \/ CliDies(d)
    PROVE  WebInv'
<1> USE DEF Before, IInv
<1>1. /\ UNCHANGED <<requestedAs, tokens, tab, deciding, fetches, decisions, webHistory>>
      /\ failures' \in 0..MaxFailures
      /\ contended \subseteq contended'
  BY GateAssumption, ReadsStays DEF CliRecords, CliDies, ReadForUpdate, Truncate, WriteBack, WriterDies,
     webVars, WebTypeOK
<1>2. {d, Web} \subseteq Writers /\ writer \in [Writers -> WriterStates]
  BY GateAssumption DEF Writers, StoreInv, StoreTypeOK
<1>3. \A w \in Writers \ {d} : writer'[w] = writer[w]
  <2>1. CASE ReadForUpdate(d)
    BY <2>1, <1>2 DEF ReadForUpdate
  <2>2. CASE Truncate(d)
    BY <2>2, <1>2 DEF Truncate
  <2>3. CASE WriteBack(d) \/ WriterDies(d)
    BY <2>3, <1>2 DEF WriteBack, WriterDies
  <2>4. QED
    BY <2>1, <2>2, <2>3 DEF CliRecords, CliDies
<1>4. Busy(d) /\ (writer'[d].pc = "idle" \/ (/\ writer'[d].id = writer[d].id
                                            /\ writer'[d].status = writer[d].status))
  <2>1. CASE ReadForUpdate(d)
    BY <2>1, <1>2 DEF ReadForUpdate, WriterStates, Busy
  <2>2. CASE Truncate(d)
    BY <2>2, <1>2 DEF Truncate, WriterStates, Busy
  <2>3. CASE WriteBack(d) \/ WriterDies(d)
    BY <2>3, <1>2 DEF WriteBack, WriterDies, Idle, Busy
  <2>4. QED
    BY <2>1, <2>2, <2>3 DEF CliRecords, CliDies
<1>5. \A c \in Confirmations :
         file'[c].status = "rejected" => file[c].status = "rejected" \/ c \in cliRejected
  <2>1. CASE ReadForUpdate(d) \/ WriterDies(d)
    BY <2>1 DEF ReadForUpdate, WriterDies
  <2>2. CASE Truncate(d)
    BY <2>2 DEF Truncate, Torn, StoreInv, StoreTypeOK
  <2>3. CASE WriteBack(d)
    <3>1. writer[d].status = "rejected" => writer[d].id \in cliRejected
      BY <1>2, <1>4 DEF LoopInv
    <3>2. \A c \in Confirmations \ {writer[d].id} : file'[c] = file[c]
      BY <2>3 DEF WriteBack, StoreInv, StoreTypeOK
    <3>3. writer[d].id \in Confirmations =>
              file'[writer[d].id].status \in {writer[d].status, "torn"}
      BY <2>3 DEF WriteBack, Torn, StoreInv, StoreTypeOK
    <3>4. QED
      BY <3>1, <3>2, <3>3
  <2>4. QED
    BY <2>1, <2>2, <2>3 DEF CliRecords, CliDies
<1>6. WebTypeOK'
  BY <1>1 DEF WebTypeOK, webHistory
<1>7. LoopInv'
  BY <1>1, <1>2, <1>3, <1>4 DEF LoopInv, Busy, webHistory
<1>8. NoticeInv' /\ TokenInv' /\ UsedInv'
  BY <1>1 DEF NoticeInv, Reads, Shows, TokenInv, UsedInv, webHistory
<1>9. RejectedInv'
  BY <1>1, <1>5 DEF RejectedInv, Outstanding, Admitted, webHistory
<1>10. QED
  BY <1>6, <1>7, <1>8, <1>9 DEF WebInv

-----------------------------------------------------------------------------
(* A rejection is only overruled by a notice the invariant lets through.     *)
LEMMA NextKeepsRejections ==
    ASSUME Before, Next
    PROVE  RejectionsStand'
<1> USE DEF Before, IInv, RejectionsStand
<1>1. cliRejected \subseteq cliRejected' /\ straddled \subseteq straddled'
  BY DEF Next, File, ReadNotice, IssueToken, Approve, Reject, StartDecision, WebRecords, WebWrites,
         PopToken, DecisionFails, Restart, CliDecides, CliRecords, CliDies, webHistory
<1>2. ASSUME NEW t \in Tabs, NEW c \in Confirmations, Approve(t, c)
      PROVE  overruled' \subseteq cliRejected \cup straddled
  <2>1. Outstanding(t, c) /\ tab[t].pc = "idle" /\ deciding.pc = "free"
    BY <1>2 DEF Approve, Valid, StartDecision, Free, Outstanding, TokenInv
  <2>2. file[c].status = "rejected" /\ tab[t].status # "rejected" => c \in cliRejected \cup straddled
    BY <2>1 DEF RejectedInv, Admitted
  <2>3. QED
    BY <1>2, <2>2 DEF Approve
<1>3. CASE \E t \in Tabs, c \in Confirmations : Approve(t, c)
  BY <1>1, <1>2, <1>3
<1>4. CASE ~\E t \in Tabs, c \in Confirmations : Approve(t, c)
  <2>1. overruled' = overruled
    BY <1>4 DEF Next, File, ReadNotice, IssueToken, Reject, WebRecords, WebWrites,
         PopToken, DecisionFails, Restart, CliDecides, CliRecords, CliDies, webHistory
  <2>2. QED
    BY <1>1, <2>1
<1>5. QED
  BY <1>3, <1>4

LEMMA NextKeepsInv ==
    ASSUME IInv, [Next]_vars
    PROVE  IInv'
<1>1. CASE Next
  <2>1. StoreStep \/ UNCHANGED storeVars
    BY <1>1, NextIsStoreStep DEF IInv
  <2>2. StoreInv'
    BY <2>1, StoreStepKeepsInv DEF IInv
  <2>3. Before
    BY <2>1, <2>2 DEF Before
  <2>4. WebInv'
    BY <1>1, <2>3, ReadNoticeKeepsInv, IssueTokenKeepsInv, ApproveKeepsInv, RejectKeepsInv,
       WebRecordsKeepsInv, WebWritesKeepsInv, PopTokenKeepsInv, DecisionFailsKeepsInv,
       RestartKeepsInv, FileKeepsInv, CliDecidesKeepsInv, CliRecordsKeepsInv DEF Next
  <2>5. RejectionsStand'
    BY <1>1, <2>3, NextKeepsRejections
  <2>6. QED
    BY <2>2, <2>4, <2>5 DEF IInv, WebInv
<1>2. CASE UNCHANGED vars
  <2>1. StoreInv'
    BY <1>2, StoreStepKeepsInv DEF IInv, vars
  <2>2. UNCHANGED <<storeVars, webVars, webHistory>>
    BY <1>2 DEF vars
  <2>3. WebTypeOK' /\ LoopInv' /\ NoticeInv'
    BY <2>2 DEF IInv, WebTypeOK, LoopInv, NoticeInv, Reads, Shows, Busy, storeVars, webVars, webHistory
  <2>4. TokenInv' /\ UsedInv' /\ RejectedInv' /\ RejectionsStand'
    BY <2>2 DEF IInv, TokenInv, UsedInv, RejectedInv, Outstanding, Admitted, RejectionsStand,
                storeVars, webVars, webHistory
  <2>5. QED
    BY <2>1, <2>3, <2>4 DEF IInv
<1>3. QED
  BY <1>1, <1>2

-----------------------------------------------------------------------------
(* The inductive invariant of the gate: what every notice, token, decision   *)
(* and approval has to do with the request files.                            *)
THEOREM InvariantHolds == Spec => []IInv
<1>1. QED
  BY InitInv, NextKeepsInv, PTL DEF Spec

(* The gate keeps its types and its bounds.                                  *)
THEOREM TypeCorrect == Spec => []GateTypeOK
<1>1. IInv => GateTypeOK
  <2> SUFFICES ASSUME IInv PROVE GateTypeOK
    OBVIOUS
  <2>1. fetches <= MaxFetches /\ decisions <= MaxDecisions /\ failures <= MaxFailures
    BY GateAssumption DEF IInv, WebTypeOK
  <2>2. ASSUME NEW c \in Confirmations PROVE tokens[c] \in 0..MaxFetches
    <3>1. tokens[c] \in Nat /\ tokens[c] <= fetches
      BY DEF IInv, WebTypeOK, TokenInv
    <3>2. fetches \in Nat /\ MaxFetches \in Nat
      BY GateAssumption DEF IInv, WebTypeOK
    <3>3. QED
      BY <2>1, <3>1, <3>2
  <2>3. tokens \in [Confirmations -> 0..MaxFetches]
    BY <2>2 DEF IInv, WebTypeOK
  <2>4. QED
    BY <2>1, <2>3 DEF IInv, StoreInv, LoopInv, TokenInv, Busy, GateTypeOK
<1>2. QED
  BY <1>1, InvariantHolds, PTL

(* With any number of tabs and terminals at work, a request loses its body   *)
(* only to decisions that overlap or die.                                    *)
THEOREM BodiesSurvive == Spec => []BodySurvivesDecisions
<1>1. IInv => BodySurvivesDecisions
  BY DEF IInv, StoreInv
<1>2. QED
  BY <1>1, InvariantHolds, PTL

(* Every approval of the gate used the token of a notice of that very        *)
(* request, and no token approves twice, whatever fails or restarts.         *)
THEOREM ApprovalsReviewed == Spec => []ApprovalsAreReviewed
<1>1. IInv => ApprovalsAreReviewed
  BY DEF IInv, NoticeInv, Shows, UsedInv, ApprovalsAreReviewed
<1>2. QED
  BY <1>1, InvariantHolds, PTL

(* A notice that did not show a rejection approves over it only if a         *)
(* terminal rejected, or if it was read before the decision in the browser   *)
(* and its token issued after.                                               *)
THEOREM RejectionsLast == Spec => []RejectionsStand
<1>1. IInv => RejectionsStand
  BY DEF IInv
<1>2. QED
  BY <1>1, InvariantHolds, PTL

-----------------------------------------------------------------------------
(* The trace                                                                 *)

Callbacks ==
    [kind : {"fan"}, subs : Nat, event : Nat, watching : SUBSET Viewers]
    \cup [kind : {"resume"}, msg : Messages]

Turns ==
    [pc : {"new", "running", "publishing", "returned", "answered"}, n : Nat, subs : Nat,
     watching : SUBSET Viewers, result : {"none", "active", "paused_confirmation", "failed"}]

BusTypeOK ==
    /\ sets \in Seq(SUBSET Viewers) /\ live \in 0..Len(sets)
    /\ loopq \in Seq(Callbacks)
    /\ queue \in [Viewers -> Seq(Nat)]
    /\ viewer \in [Viewers -> {"off", "on", "gone"}]
    /\ turn \in [Messages -> Turns]
    /\ posted \in Seq(Messages)
    /\ stamp \in Nat /\ last \in [Viewers -> Nat]
    /\ silent \subseteq Viewers /\ overtaken \in BOOLEAN

(* Who was subscribed when a set was captured is still in that set or has    *)
(* left for good: the set is replaced only once the last of them has.        *)
Keeps(subs, watching) ==
    /\ subs \in 0..Len(sets)
    /\ \A v \in watching : viewer[v] # "off"
    /\ watching \cap Subscribed \subseteq IF subs = 0 THEN {} ELSE sets[subs]

IsFan(i) == i \in DOMAIN loopq /\ loopq[i].kind = "fan"

SetsInv ==
    /\ Subscribed = IF live = 0 THEN {} ELSE sets[live]
    /\ \A i \in DOMAIN loopq :
           IsFan(i) => loopq[i].subs # 0 /\ Keeps(loopq[i].subs, loopq[i].watching)
    /\ \A m \in Messages : turn[m].pc = "publishing" => Keeps(turn[m].subs, turn[m].watching)
    /\ silent = {}

(* What a viewer was sent, what waits in its queue and what is scheduled are *)
(* in the order of the stamps.                                               *)
OrderInv ==
    /\ \A v \in Viewers :
           /\ last[v] <= stamp
           /\ \A i \in DOMAIN queue[v] : last[v] < queue[v][i] /\ queue[v][i] <= stamp
           /\ \A i, j \in DOMAIN queue[v] : i < j => queue[v][i] < queue[v][j]
    /\ \A k \in DOMAIN loopq : IsFan(k) =>
           /\ 0 < loopq[k].event /\ loopq[k].event <= stamp
           /\ \A v \in Viewers :
                  /\ last[v] < loopq[k].event
                  /\ \A i \in DOMAIN queue[v] : queue[v][i] < loopq[k].event
    /\ \A k, l \in DOMAIN loopq :
           IsFan(k) /\ IsFan(l) /\ k < l => loopq[k].event < loopq[l].event

(* A message is posted once, and its handler resumed once its turn returned. *)
PostedInv ==
    /\ \A i, j \in DOMAIN posted : posted[i] = posted[j] => i = j
    /\ \A m \in Messages : turn[m].pc # "new" <=> \E i \in DOMAIN posted : posted[i] = m
    /\ \A k \in DOMAIN loopq : ~IsFan(k) => turn[loopq[k].msg].pc = "returned"
    /\ \A k, l \in DOMAIN loopq :
           ~IsFan(k) /\ ~IsFan(l) /\ loopq[k].msg = loopq[l].msg => k = l

(* Posted i-th, answered, and not by an error.                               *)
Shown(i) == turn[posted[i]].pc = "answered" /\ turn[posted[i]].result # "failed"

SessionInv ==
    ~overtaken =>
        \A i \in DOMAIN posted :
            Shown(i) /\ (\A j \in DOMAIN posted : j > i => ~Shown(j))
                => session = View(posted[i], turn[posted[i]].result)

BusInv == BusTypeOK /\ SetsInv /\ OrderInv /\ PostedInv /\ SessionInv

LEMMA BusInit == TraceInit => BusInv
<1> SUFFICES ASSUME TraceInit PROVE BusInv
  OBVIOUS
<1> USE DEF TraceInit
<1>1. BusTypeOK
  <2>1. [pc |-> "new", n |-> 0, subs |-> 0, watching |-> {}, result |-> "none"] \in Turns
    BY DEF Turns
  <2>2. \A S : <<>> \in Seq(S)
    OBVIOUS
  <2>3. sets \in Seq(SUBSET Viewers) /\ loopq \in Seq(Callbacks) /\ posted \in Seq(Messages)
    BY <2>2
  <2>4. queue \in [Viewers -> Seq(Nat)]
    BY <2>2
  <2>5. live \in 0..Len(sets)
    OBVIOUS
  <2>6. QED
    BY <2>1, <2>3, <2>4, <2>5 DEF BusTypeOK
<1>2. SetsInv
  BY DEF SetsInv, IsFan, Subscribed
<1>3. OrderInv
  BY DEF OrderInv, IsFan
<1>4. PostedInv
  BY DEF PostedInv, IsFan
<1>5. SessionInv
  BY DEF SessionInv
<1>6. QED
  BY <1>1, <1>2, <1>3, <1>4, <1>5 DEF BusInv

-----------------------------------------------------------------------------
(* A step takes at most the first callback and schedules at most one more.   *)
Moved(d, news) ==
    /\ loopq' \in Seq(Callbacks)
    /\ \A k \in DOMAIN loopq' :
           \/ k + d \in DOMAIN loopq /\ loopq'[k] = loopq[k + d]
           \/ k = Len(loopq') /\ loopq'[k] \in news

LEMMA KeptCallbacks ==
    ASSUME loopq \in Seq(Callbacks), loopq' = loopq
    PROVE  Moved(0, {})
BY DEF Moved

LEMMA TakenCallback ==
    ASSUME loopq \in Seq(Callbacks), loopq # <<>>, loopq' = Tail(loopq)
    PROVE  Moved(1, {})
<1>1. /\ loopq' \in Seq(Callbacks) /\ Len(loopq') = Len(loopq) - 1
      /\ \A k \in 1..Len(loopq') : loopq'[k] = loopq[k + 1]
  BY HeadTailProperties
<1>2. QED
  BY <1>1 DEF Moved

LEMMA AddedCallback ==
    ASSUME loopq \in Seq(Callbacks), NEW new \in Callbacks, loopq' = Append(loopq, new)
    PROVE  Moved(0, {new})
BY DEF Moved

(* What publish schedules, on top of the queue or of what is left of it.     *)
LEMMA ScheduledFan ==
    ASSUME loopq \in Seq(Callbacks), stamp \in Nat, NEW callbacks, NEW d \in {0, 1},
           \/ d = 0 /\ callbacks = loopq
           \/ d = 1 /\ loopq # <<>> /\ callbacks = Tail(loopq),
           NEW subs \in Nat, NEW watching \in SUBSET Viewers,
           Scheduled(callbacks, subs, watching)
    PROVE  /\ stamp' \in Nat
           /\ \/ subs = 0 /\ stamp' = stamp /\ Moved(d, {})
              \/ subs # 0 /\ stamp' = stamp + 1 /\ Moved(d, {FanOf(subs, stamp + 1, watching)})
<1>1. /\ callbacks \in Seq(Callbacks)
      /\ \A k \in DOMAIN callbacks : k + d \in DOMAIN loopq /\ callbacks[k] = loopq[k + d]
  <2>1. CASE d = 0 /\ callbacks = loopq
    BY <2>1
  <2>2. CASE d = 1 /\ loopq # <<>> /\ callbacks = Tail(loopq)
    <3>1. /\ callbacks \in Seq(Callbacks) /\ Len(callbacks) = Len(loopq) - 1
          /\ \A k \in 1..Len(callbacks) : callbacks[k] = loopq[k + 1]
      BY <2>2, HeadTailProperties
    <3>2. QED
      BY <2>2, <3>1
  <2>3. QED
    BY <2>1, <2>2
<1>2. CASE subs = 0
  BY <1>1, <1>2 DEF Scheduled, Moved
<1>3. CASE subs # 0
  <2>1. FanOf(subs, stamp + 1, watching) \in Callbacks
    BY DEF FanOf, Callbacks
  <2>2. /\ loopq' = Append(callbacks, FanOf(subs, stamp + 1, watching))
        /\ stamp' = stamp + 1
    BY <1>3 DEF Scheduled
  <2>3. Moved(d, {FanOf(subs, stamp + 1, watching)})
    BY <1>1, <2>1, <2>2 DEF Moved
  <2>4. QED
    BY <1>3, <2>2, <2>3
<1>4. QED
  BY <1>2, <1>3

-----------------------------------------------------------------------------
(* Steps of messages: the bus is left alone but for what they schedule.      *)

LEMMA LiveKeeps == ASSUME BusTypeOK, SetsInv PROVE Keeps(live, Subscribed)
BY DEF BusTypeOK, SetsInv, Keeps, Subscribed

LEMMA SetsStay ==
    ASSUME BusTypeOK, SetsInv, UNCHANGED bus, NEW d, NEW news, Moved(d, news),
           \A e \in news : e.kind = "fan" => e.subs # 0 /\ Keeps(e.subs, e.watching),
           \A m \in Messages : turn'[m].pc = "publishing" =>
               \/ turn'[m] = turn[m]
               \/ Keeps(turn'[m].subs, turn'[m].watching),
           silent' = silent \/ Captured
    PROVE  SetsInv'
<1>1. Subscribed' = Subscribed /\ sets' = sets /\ viewer' = viewer /\ live' = live
  BY DEF bus, Subscribed
<1>2. Subscribed' = IF live' = 0 THEN {} ELSE sets'[live']
  BY <1>1 DEF SetsInv
<1>3. ASSUME NEW i \in DOMAIN loopq', loopq'[i].kind = "fan"
      PROVE  loopq'[i].subs # 0 /\ Keeps(loopq'[i].subs, loopq'[i].watching)
  BY <1>3 DEF Moved, SetsInv, IsFan
<1>4. ASSUME NEW m \in Messages, turn'[m].pc = "publishing"
      PROVE  Keeps(turn'[m].subs, turn'[m].watching)
  BY <1>4 DEF SetsInv
<1>5. silent' = {}
  BY DEF Captured, SetsInv
<1>6. (\A i \in DOMAIN loopq :
          IsFan(i) => loopq[i].subs # 0 /\ Keeps(loopq[i].subs, loopq[i].watching))'
  BY <1>1, <1>3 DEF IsFan, Keeps
<1>7. (\A m \in Messages : turn[m].pc = "publishing" => Keeps(turn[m].subs, turn[m].watching))'
  BY <1>1, <1>4 DEF Keeps
<1>8. QED
  BY <1>2, <1>5, <1>6, <1>7 DEF SetsInv

LEMMA OrderStays ==
    ASSUME BusTypeOK, OrderInv, UNCHANGED <<queue, last>>,
           NEW d \in {0, 1}, NEW news, Moved(d, news), stamp' \in Nat,
           stamp <= stamp', \A e \in news : e.kind = "fan" => e.event = stamp' /\ stamp < stamp'
    PROVE  OrderInv'
<1>1. ASSUME NEW v \in Viewers
      PROVE  /\ last'[v] <= stamp'
             /\ \A i \in DOMAIN queue'[v] : last'[v] < queue'[v][i] /\ queue'[v][i] <= stamp'
             /\ \A i, j \in DOMAIN queue'[v] : i < j => queue'[v][i] < queue'[v][j]
  BY DEF BusTypeOK, OrderInv
<1>2. ASSUME NEW k \in DOMAIN loopq', loopq'[k].kind = "fan"
      PROVE  /\ 0 < loopq'[k].event /\ loopq'[k].event <= stamp'
             /\ \A v \in Viewers :
                    /\ last'[v] < loopq'[k].event
                    /\ \A i \in DOMAIN queue'[v] : queue'[v][i] < loopq'[k].event
  <2>1. CASE k + d \in DOMAIN loopq /\ loopq'[k] = loopq[k + d]
    <3>1. IsFan(k + d)
      BY <1>2, <2>1 DEF IsFan
    <3>2. loopq[k + d].event \in Nat
      BY <1>2, <2>1 DEF BusTypeOK, Callbacks
    <3>3. QED
      BY <2>1, <3>1, <3>2 DEF OrderInv, BusTypeOK
  <2>2. CASE loopq'[k] \in news
    <3>1. loopq'[k].event = stamp' /\ stamp < stamp'
      BY <1>2, <2>2
    <3>2. ASSUME NEW v \in Viewers
          PROVE  /\ last[v] \in Nat /\ last[v] <= stamp
                 /\ \A i \in DOMAIN queue[v] : queue[v][i] \in Nat /\ queue[v][i] <= stamp
      BY DEF BusTypeOK, OrderInv
    <3>3. QED
      BY <3>1, <3>2 DEF BusTypeOK
  <2>3. QED
    BY <2>1, <2>2 DEF Moved
<1>3. ASSUME NEW k \in DOMAIN loopq', NEW l \in DOMAIN loopq', loopq'[k].kind = "fan",
             loopq'[l].kind = "fan", k < l
      PROVE  loopq'[k].event < loopq'[l].event
  <2>1. k \in Nat /\ l \in Nat /\ l <= Len(loopq') /\ k # Len(loopq') /\ Len(loopq') \in Nat
    BY <1>3 DEF Moved
  <2>2. k + d \in DOMAIN loopq /\ loopq'[k] = loopq[k + d] /\ IsFan(k + d)
    BY <1>3, <2>1 DEF Moved, IsFan
  <2>3. loopq[k + d].event \in Nat /\ loopq[k + d].event <= stamp
    BY <1>3, <2>2 DEF BusTypeOK, Callbacks, OrderInv, IsFan
  <2>4. CASE l + d \in DOMAIN loopq /\ loopq'[l] = loopq[l + d]
    <3>1. IsFan(l + d) /\ k + d < l + d
      BY <1>3, <2>1, <2>4 DEF IsFan
    <3>2. QED
      BY <2>2, <2>4, <3>1 DEF OrderInv
  <2>5. CASE loopq'[l] \in news
    BY <1>3, <2>2, <2>3, <2>5 DEF BusTypeOK
  <2>6. QED
    BY <2>4, <2>5 DEF Moved
<1>4. QED
  BY <1>1, <1>2, <1>3 DEF OrderInv, IsFan

(* No turn returns and no handler is resumed: posted messages stay so.       *)
LEMMA PostedStays ==
    ASSUME BusTypeOK, PostedInv, posted' = posted,
           NEW d \in {0, 1}, NEW news, Moved(d, news),
           \A e \in news : e.kind # "fan" =>
               /\ turn'[e.msg].pc = "returned"
               /\ \A k \in DOMAIN loopq : ~IsFan(k) => loopq[k].msg # e.msg,
           \A m \in Messages : turn'[m].pc = "new" <=> turn[m].pc = "new",
           \A k \in DOMAIN loopq : k > d /\ ~IsFan(k) => turn'[loopq[k].msg].pc = "returned"
    PROVE  PostedInv'
<1>1. \A i, j \in DOMAIN posted' : posted'[i] = posted'[j] => i = j
  BY DEF PostedInv
<1>2. \A m \in Messages : turn'[m].pc # "new" <=> \E i \in DOMAIN posted' : posted'[i] = m
  BY DEF PostedInv
<1>3. ASSUME NEW k \in DOMAIN loopq', loopq'[k].kind # "fan"
      PROVE  turn'[loopq'[k].msg].pc = "returned"
  <2>1. k \in Nat \ {0}
    BY DEF Moved
  <2>2. CASE k + d \in DOMAIN loopq /\ loopq'[k] = loopq[k + d]
    <3>1. k + d > d /\ ~IsFan(k + d)
      BY <1>3, <2>1, <2>2 DEF IsFan
    <3>2. QED
      BY <2>2, <3>1
  <2>3. CASE loopq'[k] \in news
    BY <1>3, <2>3
  <2>4. QED
    BY <2>2, <2>3 DEF Moved
<1>4. ASSUME NEW k \in DOMAIN loopq', NEW l \in DOMAIN loopq', loopq'[k].kind # "fan",
             loopq'[l].kind # "fan", loopq'[k].msg = loopq'[l].msg
      PROVE  k = l
  <2>1. k \in Nat /\ l \in Nat /\ Len(loopq') \in Nat
    BY DEF Moved
  <2>2. CASE k + d \in DOMAIN loopq /\ loopq'[k] = loopq[k + d]
    <3>1. ~IsFan(k + d)
      BY <1>4, <2>2 DEF IsFan
    <3>2. CASE l + d \in DOMAIN loopq /\ loopq'[l] = loopq[l + d]
      <4>1. ~IsFan(l + d)
        BY <1>4, <3>2 DEF IsFan
      <4>2. k + d = l + d
        BY <1>4, <2>2, <3>1, <3>2, <4>1 DEF PostedInv
      <4>3. QED
        BY <2>1, <4>2
    <3>3. CASE loopq'[l] \in news
      BY <1>4, <2>2, <3>1, <3>3
    <3>4. QED
      BY <3>2, <3>3 DEF Moved
  <2>3. CASE loopq'[k] \in news /\ k = Len(loopq')
    <3>1. CASE l + d \in DOMAIN loopq /\ loopq'[l] = loopq[l + d]
      <4>1. ~IsFan(l + d)
        BY <1>4, <3>1 DEF IsFan
      <4>2. QED
        BY <1>4, <2>3, <3>1, <4>1
    <3>2. CASE l = Len(loopq')
      BY <2>3, <3>2
    <3>3. QED
      BY <3>1, <3>2 DEF Moved
  <2>4. QED
    BY <2>2, <2>3 DEF Moved
<1>5. QED
  BY <1>1, <1>2, <1>3, <1>4 DEF PostedInv, IsFan

LEMMA SessionStays ==
    ASSUME BusTypeOK, SessionInv, UNCHANGED <<session, overtaken>>,
           \/ posted' = posted
           \/ \E m \in Messages : posted' = Append(posted, m) /\ turn'[m].pc # "answered",
           \A i \in DOMAIN posted :
               /\ turn'[posted[i]].pc = "answered" <=> turn[posted[i]].pc = "answered"
               /\ turn[posted[i]].pc = "answered" => turn'[posted[i]].result = turn[posted[i]].result
    PROVE  SessionInv'
<1> SUFFICES ASSUME ~overtaken', NEW i \in DOMAIN posted', Shown(i)',
                    \A j \in DOMAIN posted' : j > i => ~Shown(j)'
             PROVE  session' = View(posted'[i], turn'[posted'[i]].result)
  BY DEF SessionInv
<1>1. /\ Len(posted) \in Nat /\ DOMAIN posted = 1..Len(posted)
      /\ \A j \in DOMAIN posted : j \in DOMAIN posted' /\ posted'[j] = posted[j]
      /\ i \in DOMAIN posted
  <2>1. CASE posted' = posted
    BY <2>1 DEF BusTypeOK
  <2>2. ASSUME NEW m \in Messages, posted' = Append(posted, m), turn'[m].pc # "answered"
        PROVE  /\ Len(posted) \in Nat /\ DOMAIN posted = 1..Len(posted)
               /\ \A j \in DOMAIN posted : j \in DOMAIN posted' /\ posted'[j] = posted[j]
               /\ i \in DOMAIN posted
    <3>1. /\ Len(posted) \in Nat /\ DOMAIN posted = 1..Len(posted)
          /\ DOMAIN posted' = 1..(Len(posted) + 1)
          /\ \A j \in DOMAIN posted : posted'[j] = posted[j]
          /\ posted'[Len(posted) + 1] = m
      BY <2>2 DEF BusTypeOK
    <3>2. i # Len(posted) + 1
      BY <2>2, <3>1 DEF Shown
    <3>3. QED
      BY <3>1, <3>2
  <2>3. QED
    BY <2>1, <2>2
<1>2. Shown(i) /\ \A j \in DOMAIN posted : j > i => ~Shown(j)
  BY <1>1 DEF Shown
<1>3. session = View(posted[i], turn[posted[i]].result)
  BY <1>1, <1>2 DEF SessionInv
<1>4. QED
  BY <1>1, <1>2, <1>3 DEF Shown, View

LEMMA PostKeepsInv ==
    ASSUME BusInv, NEW m \in Messages, Post(m)
    PROVE  BusInv'
<1>1. BusTypeOK /\ SetsInv /\ OrderInv /\ PostedInv /\ SessionInv
  BY DEF BusInv
<1>2. /\ turn[m].pc = "new" /\ posted' = Append(posted, m)
      /\ Scheduled(loopq, live, Subscribed) /\ Captured
      /\ UNCHANGED <<sets, live, queue, viewer, session, last, overtaken>>
  BY DEF Post, Publish
<1>3. /\ turn' \in [Messages -> Turns]
      /\ turn'[m].pc = "running" /\ \A n \in Messages : n # m => turn'[n] = turn[n]
  BY <1>1 DEF Post, BusTypeOK, Turns
<1>4. Subscribed \in SUBSET Viewers /\ live \in Nat /\ loopq \in Seq(Callbacks) /\ stamp \in Nat
  BY <1>1 DEF Subscribed, BusTypeOK
<1>5. PICK news :
          /\ Moved(0, news) /\ stamp' \in Nat /\ stamp <= stamp'
          /\ \A e \in news : /\ e.kind = "fan" /\ e.subs # 0 /\ Keeps(e.subs, e.watching)
                             /\ e.event = stamp' /\ stamp < stamp'
  <2>1. CASE live = 0 /\ stamp' = stamp /\ Moved(0, {})
    BY <1>4, <2>1
  <2>2. CASE live # 0 /\ stamp' = stamp + 1 /\ Moved(0, {FanOf(live, stamp + 1, Subscribed)})
    BY <1>1, <1>4, <2>2, LiveKeeps DEF FanOf
  <2>3. QED
    BY <1>2, <1>4, <2>1, <2>2, ScheduledFan
<1>6. BusTypeOK'
  BY <1>1, <1>2, <1>3, <1>4, <1>5 DEF BusTypeOK, Moved, Captured
<1>7. SetsInv'
  BY <1>1, <1>2, <1>3, <1>5, SetsStay DEF bus
<1>8. OrderInv'
  BY <1>1, <1>2, <1>5, OrderStays
<1>9. PostedInv'
  <2>1. /\ Len(posted) \in Nat /\ DOMAIN posted = 1..Len(posted)
        /\ DOMAIN posted' = 1..(Len(posted) + 1)
        /\ \A j \in DOMAIN posted : posted'[j] = posted[j] /\ posted[j] # m
        /\ posted'[Len(posted) + 1] = m
    BY <1>1, <1>2 DEF BusTypeOK, PostedInv
  <2>2. \A i, j \in DOMAIN posted' : posted'[i] = posted'[j] => i = j
    BY <1>1, <2>1 DEF PostedInv
  <2>3. \A n \in Messages : turn'[n].pc # "new" <=> \E i \in DOMAIN posted' : posted'[i] = n
    BY <1>1, <1>3, <2>1 DEF PostedInv
  <2>4. ASSUME NEW k \in DOMAIN loopq', loopq'[k].kind # "fan"
        PROVE  k \in DOMAIN loopq /\ loopq'[k] = loopq[k] /\ ~IsFan(k)
    BY <1>4, <1>5, <2>4 DEF Moved, IsFan
  <2>5. \A k \in DOMAIN loopq' : loopq'[k].kind # "fan" => turn'[loopq'[k].msg].pc = "returned"
    <3>1. \A k \in DOMAIN loopq : ~IsFan(k) => loopq[k].msg \in Messages
      BY <1>4 DEF IsFan, Callbacks
    <3>2. QED
      BY <1>1, <1>2, <1>3, <2>4, <3>1 DEF PostedInv
  <2>6. \A k, l \in DOMAIN loopq' : loopq'[k].kind # "fan" /\ loopq'[l].kind # "fan"
            /\ loopq'[k].msg = loopq'[l].msg => k = l
    BY <1>1, <2>4 DEF PostedInv
  <2>7. QED
    BY <2>2, <2>3, <2>5, <2>6 DEF PostedInv, IsFan
<1>10. SessionInv'
  <2>1. \A i \in DOMAIN posted : posted[i] \in Messages /\ turn[posted[i]].pc # "new"
    BY <1>1 DEF BusTypeOK, PostedInv
  <2>2. QED
    BY <1>1, <1>2, <1>3, <2>1, SessionStays
<1>11. QED
  BY <1>6, <1>7, <1>8, <1>9, <1>10 DEF BusInv

(* Steps of a turn's thread.                                                 *)
LEMMA CaptureKeepsInv ==
    ASSUME BusInv, NEW m \in Messages, Capture(m)
    PROVE  BusInv'
<1>1. BusTypeOK /\ SetsInv /\ OrderInv /\ PostedInv /\ SessionInv
  BY DEF BusInv
<1>2. /\ turn[m].pc = "running" /\ Captured
      /\ UNCHANGED <<sets, live, queue, viewer, loopq, session, posted, stamp, last, overtaken>>
  BY DEF Capture, bus
<1>3. Subscribed \in SUBSET Viewers /\ live \in Nat /\ loopq \in Seq(Callbacks) /\ stamp \in Nat
  BY <1>1 DEF Subscribed, BusTypeOK
<1>4. /\ turn' \in [Messages -> Turns] /\ \A n \in Messages : n # m => turn'[n] = turn[n]
      /\ turn'[m].pc = "publishing" /\ turn'[m].subs = live /\ turn'[m].watching = Subscribed
  <2>1. turn[m] \in Turns /\ turn[m].n + 1 \in Nat
    BY <1>1 DEF BusTypeOK, Turns
  <2>2. turn'[m] = [turn[m] EXCEPT !.pc = "publishing", !.n = @ + 1, !.subs = live,
                                   !.watching = Subscribed]
    BY <1>1 DEF Capture, BusTypeOK
  <2>3. turn'[m] = [pc |-> "publishing", n |-> turn[m].n + 1, subs |-> live,
                    watching |-> Subscribed, result |-> turn[m].result]
    BY <2>1, <2>2 DEF Turns
  <2>4. turn'[m] \in Turns
    BY <1>3, <2>1, <2>3 DEF Turns
  <2>5. QED
    BY <1>1, <2>3, <2>4 DEF Capture, BusTypeOK
<1>5. Moved(0, {})
  BY <1>2, <1>3, KeptCallbacks
<1>6. BusTypeOK'
  BY <1>1, <1>2, <1>3, <1>4 DEF BusTypeOK, Captured
<1>7. SetsInv'
  BY <1>1, <1>2, <1>4, <1>5, LiveKeeps, SetsStay DEF bus
<1>8. OrderInv'
  BY <1>1, <1>2, <1>3, <1>5, OrderStays
<1>9. PostedInv'
  <2>1. \A k \in DOMAIN loopq : ~IsFan(k) =>
            turn[loopq[k].msg].pc = "returned" /\ loopq[k].msg \in Messages
    BY <1>1, <1>3 DEF PostedInv, IsFan, Callbacks
  <2>2. \A k \in DOMAIN loopq : k > 0 /\ ~IsFan(k) => turn'[loopq[k].msg].pc = "returned"
    BY <1>2, <1>4, <2>1
  <2>3. \A n \in Messages : turn'[n].pc = "new" <=> turn[n].pc = "new"
    BY <1>2, <1>4
  <2>4. QED
    BY <1>1, <1>2, <1>5, <2>2, <2>3, PostedStays
<1>10. SessionInv'
  <2>1. \A i \in DOMAIN posted : posted[i] \in Messages
    BY <1>1 DEF BusTypeOK
  <2>2. QED
    BY <1>1, <1>2, <1>4, <2>1, SessionStays
<1>11. QED
  BY <1>6, <1>7, <1>8, <1>9, <1>10 DEF BusInv

LEMMA ScheduleKeepsInv ==
    ASSUME BusInv, NEW m \in Messages, Schedule(m)
    PROVE  BusInv'
<1>1. BusTypeOK /\ SetsInv /\ OrderInv /\ PostedInv /\ SessionInv
  BY DEF BusInv
<1>2. /\ turn[m].pc = "publishing" /\ Scheduled(loopq, turn[m].subs, turn[m].watching)
      /\ UNCHANGED <<sets, live, queue, viewer, session, posted, last, silent, overtaken>>
  BY DEF Schedule, bus
<1>3. /\ turn[m] \in Turns /\ turn[m].subs \in Nat /\ turn[m].watching \in SUBSET Viewers
      /\ loopq \in Seq(Callbacks) /\ stamp \in Nat
  <2>1. turn[m] \in Turns /\ loopq \in Seq(Callbacks) /\ stamp \in Nat
    BY <1>1 DEF BusTypeOK
  <2>2. QED
    BY <2>1 DEF Turns
<1>4. /\ turn' \in [Messages -> Turns] /\ \A n \in Messages : n # m => turn'[n] = turn[n]
      /\ turn'[m].pc = "running" /\ turn'[m].result = turn[m].result
  <2>1. turn'[m] = [turn[m] EXCEPT !.pc = "running", !.subs = 0, !.watching = {}]
    BY <1>1 DEF Schedule, BusTypeOK
  <2>2. turn'[m] = [pc |-> "running", n |-> turn[m].n, subs |-> 0,
                    watching |-> {}, result |-> turn[m].result]
    BY <1>3, <2>1 DEF Turns
  <2>3. turn'[m] \in Turns
    BY <1>3, <2>2 DEF Turns
  <2>4. QED
    BY <1>1, <2>2, <2>3 DEF Schedule, BusTypeOK
<1>5. PICK news :
          /\ Moved(0, news) /\ stamp' \in Nat /\ stamp <= stamp'
          /\ \A e \in news : /\ e.kind = "fan" /\ e.subs # 0 /\ Keeps(e.subs, e.watching)
                             /\ e.event = stamp' /\ stamp < stamp'
  <2>1. CASE turn[m].subs = 0 /\ stamp' = stamp /\ Moved(0, {})
    BY <1>3, <2>1
  <2>2. CASE /\ turn[m].subs # 0 /\ stamp' = stamp + 1
             /\ Moved(0, {FanOf(turn[m].subs, stamp + 1, turn[m].watching)})
    <3>1. Keeps(turn[m].subs, turn[m].watching)
      BY <1>1, <1>2 DEF SetsInv
    <3>2. QED
      BY <1>3, <2>2, <3>1 DEF FanOf
  <2>3. QED
    BY <1>2, <1>3, <2>1, <2>2, ScheduledFan
<1>6. BusTypeOK'
  BY <1>1, <1>2, <1>4, <1>5 DEF BusTypeOK, Moved
<1>7. SetsInv'
  BY <1>1, <1>2, <1>4, <1>5, SetsStay DEF bus
<1>8. OrderInv'
  BY <1>1, <1>2, <1>5, OrderStays
<1>9. PostedInv'
  <2>1. \A k \in DOMAIN loopq : ~IsFan(k) =>
            turn[loopq[k].msg].pc = "returned" /\ loopq[k].msg \in Messages
    BY <1>1, <1>3 DEF PostedInv, IsFan, Callbacks
  <2>2. \A k \in DOMAIN loopq : k > 0 /\ ~IsFan(k) => turn'[loopq[k].msg].pc = "returned"
    BY <1>2, <1>4, <2>1
  <2>3. \A n \in Messages : turn'[n].pc = "new" <=> turn[n].pc = "new"
    BY <1>2, <1>4
  <2>4. QED
    BY <1>1, <1>2, <1>5, <2>2, <2>3, PostedStays
<1>10. SessionInv'
  <2>1. \A i \in DOMAIN posted : posted[i] \in Messages
    BY <1>1 DEF BusTypeOK
  <2>2. QED
    BY <1>1, <1>2, <1>4, <2>1, SessionStays
<1>11. QED
  BY <1>6, <1>7, <1>8, <1>9, <1>10 DEF BusInv

LEMMA ReturnKeepsInv ==
    ASSUME BusInv, NEW m \in Messages, NEW result \in Ends[m], Return(m, result)
    PROVE  BusInv'
<1>1. BusTypeOK /\ SetsInv /\ OrderInv /\ PostedInv /\ SessionInv
  BY DEF BusInv
<1>2. /\ turn[m].pc = "running" /\ loopq' = Append(loopq, ResumeOf(m))
      /\ UNCHANGED <<sets, live, queue, viewer, session, posted, stamp, last, silent, overtaken>>
  BY DEF Return, bus, history
<1>3. /\ turn[m] \in Turns /\ loopq \in Seq(Callbacks) /\ stamp \in Nat
      /\ result \in {"active", "paused_confirmation", "failed"}
  BY <1>1, TraceAssumption DEF BusTypeOK
<1>4. /\ turn' \in [Messages -> Turns] /\ \A n \in Messages : n # m => turn'[n] = turn[n]
      /\ turn'[m].pc = "returned"
  <2>1. turn'[m] = [turn[m] EXCEPT !.pc = "returned", !.result = result]
    BY <1>1 DEF Return, BusTypeOK
  <2>2. turn'[m] = [pc |-> "returned", n |-> turn[m].n, subs |-> turn[m].subs,
                    watching |-> turn[m].watching, result |-> result]
    BY <1>3, <2>1 DEF Turns
  <2>3. turn'[m] \in Turns
    BY <1>3, <2>2 DEF Turns
  <2>4. QED
    BY <1>1, <2>2, <2>3 DEF Return, BusTypeOK
<1>5. ResumeOf(m) \in Callbacks /\ ResumeOf(m).kind = "resume" /\ ResumeOf(m).msg = m
  BY DEF ResumeOf, Callbacks
<1>6. Moved(0, {ResumeOf(m)})
  BY <1>2, <1>3, <1>5, AddedCallback
<1>7. BusTypeOK'
  BY <1>1, <1>2, <1>4, <1>6 DEF BusTypeOK, Moved
<1>8. SetsInv'
  BY <1>1, <1>2, <1>4, <1>5, <1>6, SetsStay DEF bus
<1>9. OrderInv'
  BY <1>1, <1>2, <1>3, <1>5, <1>6, OrderStays
<1>10. PostedInv'
  <2>1. \A k \in DOMAIN loopq : ~IsFan(k) =>
            turn[loopq[k].msg].pc = "returned" /\ loopq[k].msg \in Messages
    BY <1>1, <1>3 DEF PostedInv, IsFan, Callbacks
  <2>2. \A k \in DOMAIN loopq : ~IsFan(k) => turn'[loopq[k].msg].pc = "returned" /\ loopq[k].msg # m
    BY <1>2, <1>4, <2>1
  <2>3. \A n \in Messages : turn'[n].pc = "new" <=> turn[n].pc = "new"
    BY <1>2, <1>4
  <2>4. QED
    BY <1>1, <1>2, <1>4, <1>5, <1>6, <2>2, <2>3, PostedStays
<1>11. SessionInv'
  <2>1. \A i \in DOMAIN posted : posted[i] \in Messages
    BY <1>1 DEF BusTypeOK
  <2>2. QED
    BY <1>1, <1>2, <1>4, <2>1, SessionStays
<1>12. QED
  BY <1>7, <1>8, <1>9, <1>10, <1>11 DEF BusInv

-----------------------------------------------------------------------------
(* Steps of the event loop that resume a handler.                            *)
LEMMA Resumed ==
    ASSUME BusInv, NEW m \in Messages, NextResumes(m)
    PROVE  /\ loopq \in Seq(Callbacks) /\ loopq # <<>>
           /\ turn[m] \in Turns /\ turn[m].pc = "returned"
           /\ \A k \in DOMAIN loopq : k > 1 /\ ~IsFan(k) =>
                  /\ turn[loopq[k].msg].pc = "returned"
                  /\ loopq[k].msg \in Messages /\ loopq[k].msg # m
<1>1. loopq \in Seq(Callbacks) /\ loopq # <<>> /\ turn[m] \in Turns /\ 1 \in DOMAIN loopq
      /\ loopq[1] = ResumeOf(m)
  BY DEF NextResumes, BusInv, BusTypeOK
<1>2. ~IsFan(1) /\ loopq[1].msg = m
  BY <1>1 DEF IsFan, ResumeOf
<1>3. \A k \in DOMAIN loopq : ~IsFan(k) =>
          loopq[k].msg \in Messages /\ turn[loopq[k].msg].pc = "returned"
  BY <1>1 DEF IsFan, Callbacks, BusInv, PostedInv
<1>4. \A k \in DOMAIN loopq : k > 1 /\ ~IsFan(k) => loopq[k].msg # m
  BY <1>1, <1>2 DEF BusInv, PostedInv
<1>5. QED
  BY <1>1, <1>2, <1>3, <1>4

LEMMA FailKeepsInv ==
    ASSUME BusInv, NEW m \in Messages, Fail(m)
    PROVE  BusInv'
<1>1. BusTypeOK /\ SetsInv /\ OrderInv /\ PostedInv /\ SessionInv
  BY DEF BusInv
<1>2. /\ NextResumes(m) /\ turn[m].result = "failed" /\ loopq' = Tail(loopq)
      /\ UNCHANGED <<sets, live, queue, viewer, session, posted, stamp, last, silent, overtaken>>
  BY DEF Fail, bus, history
<1>3. /\ loopq \in Seq(Callbacks) /\ loopq # <<>> /\ turn[m] \in Turns /\ turn[m].pc = "returned"
      /\ \A k \in DOMAIN loopq : k > 1 /\ ~IsFan(k) =>
             turn[loopq[k].msg].pc = "returned" /\ loopq[k].msg \in Messages /\ loopq[k].msg # m
  BY <1>2, Resumed
<1>4. /\ turn' \in [Messages -> Turns] /\ \A n \in Messages : n # m => turn'[n] = turn[n]
      /\ turn'[m].pc = "answered" /\ turn'[m].result = "failed"
  BY <1>1, <1>2, <1>3 DEF Fail, BusTypeOK, Turns
<1>5. Moved(1, {})
  BY <1>2, <1>3, TakenCallback
<1>6. BusTypeOK'
  BY <1>1, <1>2, <1>4, <1>5 DEF BusTypeOK, Moved
<1>7. SetsInv'
  BY <1>1, <1>2, <1>4, <1>5, SetsStay DEF bus
<1>8. OrderInv'
  BY <1>1, <1>2, <1>5, OrderStays DEF BusTypeOK
<1>9. PostedInv'
  <2>1. \A k \in DOMAIN loopq : k > 1 /\ ~IsFan(k) => turn'[loopq[k].msg].pc = "returned"
    BY <1>3, <1>4
  <2>2. \A n \in Messages : turn'[n].pc = "new" <=> turn[n].pc = "new"
    BY <1>3, <1>4
  <2>3. QED
    BY <1>1, <1>2, <1>5, <2>1, <2>2, PostedStays
<1>10. SessionInv'
  <2>1. SUFFICES ASSUME ~overtaken', NEW i \in DOMAIN posted', Shown(i)',
                        \A j \in DOMAIN posted' : j > i => ~Shown(j)'
                 PROVE  session' = View(posted'[i], turn'[posted'[i]].result)
    BY DEF SessionInv
  <2>2. \A j \in DOMAIN posted : posted[j] \in Messages
    BY <1>1 DEF BusTypeOK
  <2>3. \A j \in DOMAIN posted : Shown(j)' => Shown(j) /\ posted[j] # m
    BY <1>2, <1>3, <1>4, <2>2 DEF Shown
  <2>4. \A j \in DOMAIN posted : Shown(j) => Shown(j)'
    BY <1>2, <1>3, <1>4, <2>2 DEF Shown
  <2>5. session = View(posted[i], turn[posted[i]].result)
    BY <1>1, <1>2, <2>1, <2>3, <2>4 DEF SessionInv
  <2>6. QED
    BY <1>2, <1>4, <2>1, <2>2, <2>3, <2>5
<1>11. QED
  BY <1>6, <1>7, <1>8, <1>9, <1>10 DEF BusInv

LEMMA AnswerKeepsInv ==
    ASSUME BusInv, NEW m \in Messages, Answer(m)
    PROVE  BusInv'
<1>1. BusTypeOK /\ SetsInv /\ OrderInv /\ PostedInv /\ SessionInv
  BY DEF BusInv
<1>2. /\ NextResumes(m) /\ turn[m].result # "failed"
      /\ Scheduled(Tail(loopq), live, Subscribed) /\ Captured
      /\ session' = View(m, turn[m].result)
      /\ overtaken' = (m # Last(posted) /\ (overtaken \/ Overtakes(m)))
      /\ UNCHANGED <<sets, live, queue, viewer, posted, last>>
  BY DEF Answer, Publish, ShowTurn
<1>3. /\ loopq \in Seq(Callbacks) /\ loopq # <<>> /\ turn[m] \in Turns /\ turn[m].pc = "returned"
      /\ \A k \in DOMAIN loopq : k > 1 /\ ~IsFan(k) =>
             turn[loopq[k].msg].pc = "returned" /\ loopq[k].msg \in Messages /\ loopq[k].msg # m
  BY <1>2, Resumed
<1>4. /\ turn' \in [Messages -> Turns] /\ \A n \in Messages : n # m => turn'[n] = turn[n]
      /\ turn'[m].pc = "answered" /\ turn'[m].result = turn[m].result
  BY <1>1, <1>3 DEF Answer, BusTypeOK, Turns
<1>5. Subscribed \in SUBSET Viewers /\ live \in Nat /\ stamp \in Nat
  BY <1>1 DEF Subscribed, BusTypeOK
<1>6. PICK news :
          /\ Moved(1, news) /\ stamp' \in Nat /\ stamp <= stamp'
          /\ \A e \in news : /\ e.kind = "fan" /\ e.subs # 0 /\ Keeps(e.subs, e.watching)
                             /\ e.event = stamp' /\ stamp < stamp'
  <2>1. CASE live = 0 /\ stamp' = stamp /\ Moved(1, {})
    BY <1>5, <2>1
  <2>2. CASE live # 0 /\ stamp' = stamp + 1 /\ Moved(1, {FanOf(live, stamp + 1, Subscribed)})
    BY <1>1, <1>5, <2>2, LiveKeeps DEF FanOf
  <2>3. QED
    BY <1>2, <1>3, <1>5, <2>1, <2>2, ScheduledFan
<1>7. BusTypeOK'
  BY <1>1, <1>2, <1>4, <1>5, <1>6 DEF BusTypeOK, Moved, Captured
<1>8. SetsInv'
  BY <1>1, <1>2, <1>4, <1>6, SetsStay DEF bus
<1>9. OrderInv'
  BY <1>1, <1>2, <1>6, OrderStays
<1>10. PostedInv'
  <2>1. \A k \in DOMAIN loopq : k > 1 /\ ~IsFan(k) => turn'[loopq[k].msg].pc = "returned"
    BY <1>3, <1>4
  <2>2. \A n \in Messages : turn'[n].pc = "new" <=> turn[n].pc = "new"
    BY <1>3, <1>4
  <2>3. QED
    BY <1>1, <1>2, <1>6, <2>1, <2>2, PostedStays
<1>11. SessionInv'
  <2>1. SUFFICES ASSUME ~overtaken', NEW i \in DOMAIN posted', Shown(i)',
                        \A j \in DOMAIN posted' : j > i => ~Shown(j)'
                 PROVE  session' = View(posted'[i], turn'[posted'[i]].result)
    BY DEF SessionInv
  <2>2. /\ \A j \in DOMAIN posted : posted[j] \in Messages
        /\ DOMAIN posted = 1..Len(posted) /\ Len(posted) \in Nat
    BY <1>1 DEF BusTypeOK
  <2>3. PICK k \in DOMAIN posted : posted[k] = m
    BY <1>1, <1>3 DEF PostedInv
  <2>4. Shown(k)'
    BY <1>2, <1>4, <2>3 DEF Shown
  <2>5. ~(i < k)
    BY <1>2, <2>1, <2>2, <2>3, <2>4
  <2>6. ~(i > k)
    <3>1. SUFFICES ASSUME i > k PROVE FALSE
      OBVIOUS
    <3>2. i \in 1..Len(posted) /\ k \in 1..Len(posted) /\ posted[i] # m /\ posted[i] \in Messages
      BY <1>1, <1>2, <2>1, <2>2, <2>3, <3>1 DEF PostedInv
    <3>3. turn[posted[i]].pc = "answered"
      BY <1>2, <1>4, <2>1, <3>2 DEF Shown
    <3>4. Overtakes(m)
      BY <2>3, <3>1, <3>2, <3>3 DEF Overtakes
    <3>5. Last(posted) = posted[Len(posted)] /\ Len(posted) \in DOMAIN posted
      BY <2>2, <3>2 DEF Last
    <3>6. m # Last(posted)
      BY <1>1, <2>2, <2>3, <3>1, <3>2, <3>5 DEF PostedInv
    <3>7. QED
      BY <1>2, <2>1, <3>4, <3>6
  <2>7. i = k
    BY <1>2, <2>1, <2>2, <2>3, <2>5, <2>6
  <2>8. QED
    BY <1>2, <1>4, <2>3, <2>7
<1>12. QED
  BY <1>7, <1>8, <1>9, <1>10, <1>11 DEF BusInv

-----------------------------------------------------------------------------
(* Steps that move events to the viewers.                                    *)

(* Where only the bus and what was sent change, the session stays right.     *)
LEMMA SessionUntouched ==
    ASSUME PostedInv, SessionInv, UNCHANGED <<turn, session, posted, overtaken>>,
           BusTypeOK, NEW d \in {0, 1}, Moved(d, {})
    PROVE  PostedInv' /\ SessionInv'
<1>1. \A k \in DOMAIN loopq : k > d /\ ~IsFan(k) => turn'[loopq[k].msg].pc = "returned"
  BY DEF PostedInv
<1>2. PostedInv'
  BY <1>1, PostedStays
<1>3. SessionInv'
  BY DEF SessionInv, Shown
<1>4. QED
  BY <1>2, <1>3

(* A queue in order, all of it before event e, is in order with e at its end. *)
LEMMA AppendedInOrder ==
    ASSUME NEW old \in Seq(Nat), NEW e \in Nat, NEW new, new = old \/ new = Append(old, e),
           NEW low \in Nat, NEW high \in Nat, low < e, e <= high,
           \A i \in DOMAIN old : low < old[i] /\ old[i] <= high /\ old[i] < e,
           \A i, j \in DOMAIN old : i < j => old[i] < old[j]
    PROVE  /\ new \in Seq(Nat)
           /\ \A i \in DOMAIN new : low < new[i] /\ new[i] <= high /\ new[i] <= e
           /\ \A i, j \in DOMAIN new : i < j => new[i] < new[j]
<1>1. \A i \in DOMAIN old : old[i] \in Nat /\ old[i] <= e
  OBVIOUS
<1>2. CASE new = old
  BY <1>1, <1>2
<1>3. CASE new = Append(old, e)
  <2>1. /\ new \in Seq(Nat) /\ Len(old) \in Nat /\ DOMAIN old = 1..Len(old)
        /\ DOMAIN new = 1..(Len(old) + 1)
        /\ new[Len(old) + 1] = e /\ \A i \in 1..Len(old) : new[i] = old[i]
    BY <1>3
  <2>2. \A i \in DOMAIN new : low < new[i] /\ new[i] <= high /\ new[i] <= e
    BY <1>1, <2>1
  <2>3. ASSUME NEW i \in DOMAIN new, NEW j \in DOMAIN new, i < j
        PROVE  new[i] < new[j]
    <3>1. i \in DOMAIN old
      BY <2>1, <2>3
    <3>2. CASE j \in DOMAIN old
      BY <2>1, <2>3, <3>1, <3>2
    <3>3. CASE j = Len(old) + 1
      BY <2>1, <3>1, <3>3
    <3>4. QED
      BY <2>1, <3>2, <3>3
  <2>4. QED
    BY <2>1, <2>2, <2>3
<1>4. QED
  BY <1>2, <1>3

LEMMA FanKeepsInv ==
    ASSUME BusInv, Fan
    PROVE  BusInv'
<1>1. BusTypeOK /\ SetsInv /\ OrderInv /\ PostedInv /\ SessionInv
  BY DEF BusInv
<1>2. PICK e : e = loopq[1]
  OBVIOUS
<1>3. /\ loopq \in Seq(Callbacks) /\ loopq # <<>> /\ 1 \in DOMAIN loopq /\ IsFan(1)
      /\ e = Head(loopq) /\ e.subs \in Nat /\ e.event \in Nat /\ e.kind = "fan"
      /\ e.subs # 0 /\ Keeps(e.subs, e.watching)
  <2>1. loopq \in Seq(Callbacks) /\ loopq # <<>> /\ 1 \in DOMAIN loopq /\ Head(loopq) = loopq[1]
    BY <1>1 DEF Fan, NextIsFan, BusTypeOK
  <2>2. IsFan(1) /\ e \in Callbacks /\ e.kind = "fan"
    BY <1>2, <2>1 DEF Fan, NextIsFan, IsFan
  <2>3. e.subs \in Nat /\ e.event \in Nat
    BY <2>2 DEF Callbacks
  <2>4. QED
    BY <1>1, <1>2, <2>1, <2>2, <2>3 DEF SetsInv
<1>4. PICK to : to = {v \in sets[e.subs] : HasRoom(v)}
  OBVIOUS
<1>5. /\ queue' = [v \in Viewers |-> IF v \in to THEN Append(queue[v], e.event) ELSE queue[v]]
      /\ silent' = silent \cup {v \in e.watching \cap Subscribed : v \notin sets[e.subs]}
      /\ loopq' = Tail(loopq)
      /\ UNCHANGED <<sets, live, viewer, turn, session, posted, stamp, last, overtaken>>
  BY <1>3, <1>4 DEF Fan, Put
<1>6. Moved(1, {})
  BY <1>3, <1>5, TakenCallback
<1>7. silent' = {}
  BY <1>1, <1>3, <1>5 DEF SetsInv, Keeps
<1>8. ASSUME NEW v \in Viewers
      PROVE  /\ last[v] \in Nat /\ last[v] < e.event /\ last[v] <= stamp
             /\ queue'[v] \in Seq(Nat)
             /\ \A i \in DOMAIN queue'[v] :
                    last[v] < queue'[v][i] /\ queue'[v][i] <= stamp /\ queue'[v][i] <= e.event
             /\ \A i, j \in DOMAIN queue'[v] : i < j => queue'[v][i] < queue'[v][j]
  <2>1. PICK old \in Seq(Nat) : old = queue[v]
    BY <1>1 DEF BusTypeOK
  <2>2. PICK new : new = queue'[v]
    OBVIOUS
  <2>3. new = old \/ new = Append(old, e.event)
    BY <1>5, <2>1, <2>2
  <2>4. /\ stamp \in Nat /\ last[v] \in Nat /\ last[v] <= stamp /\ last[v] < e.event
        /\ e.event <= stamp
        /\ \A i \in DOMAIN old : last[v] < old[i] /\ old[i] <= stamp /\ old[i] < e.event
        /\ \A i, j \in DOMAIN old : i < j => old[i] < old[j]
    BY <1>1, <1>2, <1>3, <2>1 DEF BusTypeOK, OrderInv
  <2>5. PICK event \in Nat, low \in Nat, high \in Nat :
            event = e.event /\ low = last[v] /\ high = stamp
    BY <1>3, <2>4
  <2>6. /\ new = old \/ new = Append(old, event)
        /\ low < event /\ event <= high
        /\ \A i \in DOMAIN old : low < old[i] /\ old[i] <= high /\ old[i] < event
    BY <2>3, <2>4, <2>5
  <2>7. /\ new \in Seq(Nat)
        /\ \A i \in DOMAIN new : low < new[i] /\ new[i] <= high /\ new[i] <= event
        /\ \A i, j \in DOMAIN new : i < j => new[i] < new[j]
    BY <2>4, <2>6, AppendedInOrder
  <2>8. QED
    BY <2>2, <2>4, <2>5, <2>7
<1>9. BusTypeOK'
  <2>1. queue' \in [Viewers -> Seq(Nat)]
    BY <1>5, <1>8
  <2>2. QED
    BY <1>1, <1>5, <1>6, <1>7, <2>1 DEF BusTypeOK, Moved
<1>10. SetsInv'
  <2>1. /\ Subscribed' = Subscribed
        /\ \A k \in DOMAIN loopq' : k + 1 \in DOMAIN loopq /\ loopq'[k] = loopq[k + 1]
    BY <1>5, <1>6 DEF Subscribed, Moved
  <2>2. Subscribed' = IF live' = 0 THEN {} ELSE sets'[live']
    BY <1>1, <1>5, <2>1 DEF SetsInv
  <2>3. ASSUME NEW k \in DOMAIN loopq', loopq'[k].kind = "fan"
        PROVE  loopq'[k].subs # 0 /\ Keeps(loopq'[k].subs, loopq'[k].watching)
    BY <1>1, <2>1, <2>3 DEF SetsInv, IsFan
  <2>4. (\A k \in DOMAIN loopq :
            IsFan(k) => loopq[k].subs # 0 /\ Keeps(loopq[k].subs, loopq[k].watching))'
    BY <1>5, <2>1, <2>3 DEF IsFan, Keeps
  <2>5. (\A m \in Messages : turn[m].pc = "publishing" => Keeps(turn[m].subs, turn[m].watching))'
    BY <1>1, <1>5, <2>1 DEF SetsInv, Keeps
  <2>6. QED
    BY <1>7, <2>2, <2>4, <2>5 DEF SetsInv
<1>11. OrderInv'
  <2>1. \A k \in DOMAIN loopq' : k + 1 \in DOMAIN loopq /\ loopq'[k] = loopq[k + 1]
    BY <1>6 DEF Moved
  <2>2. \A k \in DOMAIN loopq' : k \in Nat \ {0}
    BY <1>6 DEF Moved
  <2>3. ASSUME NEW k \in DOMAIN loopq', loopq'[k].kind = "fan"
        PROVE  /\ IsFan(k + 1) /\ loopq'[k].event \in Nat /\ e.event < loopq'[k].event
               /\ loopq'[k].event <= stamp
    <3>1. IsFan(k + 1) /\ 1 < k + 1 /\ loopq'[k] = loopq[k + 1]
      BY <2>1, <2>2, <2>3 DEF IsFan
    <3>2. loopq'[k].event \in Nat
      BY <1>3, <2>1, <2>3 DEF Callbacks
    <3>3. QED
      BY <1>1, <1>2, <1>3, <3>1, <3>2 DEF OrderInv, IsFan
  <2>4. ASSUME NEW v \in Viewers
        PROVE  /\ last'[v] <= stamp'
               /\ \A i \in DOMAIN queue'[v] :
                      last'[v] < queue'[v][i] /\ queue'[v][i] <= stamp' /\ queue'[v][i] <= e.event
               /\ \A i, j \in DOMAIN queue'[v] : i < j => queue'[v][i] < queue'[v][j]
    BY <1>5, <1>8
  <2>5. ASSUME NEW k \in DOMAIN loopq', loopq'[k].kind = "fan"
        PROVE  /\ 0 < loopq'[k].event /\ loopq'[k].event <= stamp'
               /\ \A v \in Viewers :
                      /\ last'[v] < loopq'[k].event
                      /\ \A i \in DOMAIN queue'[v] : queue'[v][i] < loopq'[k].event
    <3>1. /\ e.event < loopq'[k].event /\ loopq'[k].event \in Nat /\ loopq'[k].event <= stamp'
      BY <1>5, <2>3, <2>5
    <3>2. ASSUME NEW v \in Viewers
          PROVE  /\ last'[v] < loopq'[k].event
                 /\ \A i \in DOMAIN queue'[v] : queue'[v][i] < loopq'[k].event
      <4>1. last[v] < e.event /\ last[v] \in Nat
        BY <1>1, <1>2, <1>3 DEF OrderInv, BusTypeOK
      <4>2. \A i \in DOMAIN queue'[v] : queue'[v][i] \in Nat /\ queue'[v][i] <= e.event
        BY <1>8, <2>4
      <4>3. QED
        BY <1>3, <1>5, <3>1, <4>1, <4>2
    <3>3. QED
      BY <1>3, <3>1, <3>2
  <2>6. ASSUME NEW k \in DOMAIN loopq', NEW l \in DOMAIN loopq', loopq'[k].kind = "fan",
               loopq'[l].kind = "fan", k < l
        PROVE  loopq'[k].event < loopq'[l].event
    <3>1. IsFan(k + 1) /\ IsFan(l + 1) /\ k + 1 < l + 1
      BY <2>2, <2>3, <2>6
    <3>2. QED
      BY <1>1, <2>1, <3>1 DEF OrderInv, IsFan
  <2>7. QED
    BY <2>4, <2>5, <2>6 DEF OrderInv, IsFan
<1>12. PostedInv' /\ SessionInv'
  BY <1>1, <1>5, <1>6, SessionUntouched
<1>13. QED
  BY <1>9, <1>10, <1>11, <1>12 DEF BusInv

-----------------------------------------------------------------------------
(* Steps of the viewers' handlers: no callback is scheduled or taken.        *)

(* What held a set when it was captured holds it still.                      *)
LEMMA SetsFollow ==
    ASSUME BusTypeOK, SetsInv, UNCHANGED <<loopq, turn, silent>>,
           Subscribed' = IF live' = 0 THEN {} ELSE sets'[live'],
           \A subs \in Nat, watching \in SUBSET Viewers :
               Keeps(subs, watching) => Keeps(subs, watching)'
    PROVE  SetsInv'
<1>1. ASSUME NEW k \in DOMAIN loopq, loopq[k].kind = "fan"
      PROVE  loopq[k].subs # 0 /\ Keeps(loopq[k].subs, loopq[k].watching)'
  <2>1. PICK subs \in Nat, watching \in SUBSET Viewers :
            subs = loopq[k].subs /\ watching = loopq[k].watching
    <3>1. loopq[k] \in Callbacks
      BY DEF BusTypeOK
    <3>2. loopq[k].subs \in Nat /\ loopq[k].watching \in SUBSET Viewers
      BY <1>1, <3>1 DEF Callbacks
    <3>3. QED
      BY <3>2
  <2>2. subs # 0 /\ Keeps(subs, watching)
    BY <1>1, <2>1 DEF SetsInv, IsFan
  <2>3. Keeps(subs, watching)'
    BY <2>2
  <2>4. subs = loopq'[k].subs /\ watching = loopq'[k].watching
    BY <2>1
  <2>5. QED
    BY <2>1, <2>2, <2>3, <2>4 DEF Keeps
<1>2. ASSUME NEW m \in Messages, turn[m].pc = "publishing"
      PROVE  Keeps(turn[m].subs, turn[m].watching)'
  <2>1. PICK subs \in Nat, watching \in SUBSET Viewers :
            subs = turn[m].subs /\ watching = turn[m].watching
    <3>1. turn[m] \in Turns
      BY DEF BusTypeOK
    <3>2. turn[m].subs \in Nat /\ turn[m].watching \in SUBSET Viewers
      BY <3>1 DEF Turns
    <3>3. QED
      BY <3>2
  <2>2. Keeps(subs, watching)'
    BY <1>2, <2>1 DEF SetsInv
  <2>3. subs = turn'[m].subs /\ watching = turn'[m].watching
    BY <2>1
  <2>4. QED
    BY <2>2, <2>3 DEF Keeps
<1>3. silent' = {}
  BY DEF SetsInv
<1>4. QED
  BY <1>1, <1>2, <1>3 DEF SetsInv, IsFan, Keeps

LEMMA SubscribeKeepsInv ==
    ASSUME BusInv, NEW v \in Viewers, Subscribe(v)
    PROVE  BusInv'
<1>1. BusTypeOK /\ SetsInv /\ OrderInv /\ PostedInv /\ SessionInv
  BY DEF BusInv
<1>2. /\ viewer[v] = "off"
      /\ UNCHANGED <<loopq, queue, turn, session, posted, stamp, last, silent, overtaken>>
  BY DEF Subscribe, history
<1>3. /\ viewer' \in [Viewers -> {"off", "on", "gone"}]
      /\ viewer'[v] = "on" /\ \A u \in Viewers : u # v => viewer'[u] = viewer[u]
  BY <1>1 DEF Subscribe, BusTypeOK
<1>4. Subscribed' = Subscribed \cup {v}
  BY <1>3 DEF Subscribed
<1>5. /\ sets' \in Seq(SUBSET Viewers) /\ live' \in 1..Len(sets')
      /\ Len(sets) \in Nat /\ Len(sets) <= Len(sets')
      /\ sets'[live'] = Subscribed'
      /\ \A i \in 1..Len(sets) : sets[i] \subseteq sets'[i]
  <2>1. CASE live = 0
    <3>1. sets' = Append(sets, {v}) /\ live' = Len(sets) + 1
      BY <2>1 DEF Subscribe
    <3>2. {v} \in SUBSET Viewers /\ Subscribed = {}
      BY <1>1, <2>1 DEF SetsInv
    <3>3. QED
      BY <1>1, <1>4, <3>1, <3>2 DEF BusTypeOK
  <2>2. CASE live # 0
    <3>1. sets' = [sets EXCEPT ![live] = sets[live] \cup {v}] /\ live' = live
      BY <2>2 DEF Subscribe
    <3>2. live \in 1..Len(sets) /\ sets[live] = Subscribed /\ sets[live] \cup {v} \in SUBSET Viewers
      BY <1>1, <2>2 DEF BusTypeOK, SetsInv
    <3>3. sets' \in Seq(SUBSET Viewers) /\ Len(sets') = Len(sets)
      BY <1>1, <3>1, <3>2 DEF BusTypeOK
    <3>4. QED
      BY <1>1, <1>4, <3>1, <3>2, <3>3 DEF BusTypeOK
  <2>3. QED
    BY <2>1, <2>2
<1>6. Moved(0, {})
  BY <1>1, <1>2, KeptCallbacks DEF BusTypeOK
<1>7. BusTypeOK'
  BY <1>1, <1>2, <1>3, <1>5 DEF BusTypeOK
<1>8. SetsInv'
  <2>1. ASSUME NEW subs \in Nat, NEW watching \in SUBSET Viewers, Keeps(subs, watching)
        PROVE  Keeps(subs, watching)'
    BY <1>2, <1>3, <1>4, <1>5, <2>1 DEF Keeps
  <2>2. Subscribed' = IF live' = 0 THEN {} ELSE sets'[live']
    BY <1>5
  <2>3. QED
    BY <1>1, <1>2, <2>1, <2>2, SetsFollow
<1>9. OrderInv'
  BY <1>1, <1>2 DEF OrderInv, IsFan
<1>10. PostedInv' /\ SessionInv'
  BY <1>1, <1>2, <1>6, SessionUntouched
<1>11. QED
  BY <1>7, <1>8, <1>9, <1>10 DEF BusInv

LEMMA SendKeepsInv ==
    ASSUME BusInv, NEW v \in Viewers, Send(v)
    PROVE  BusInv'
<1>1. BusTypeOK /\ SetsInv /\ OrderInv /\ PostedInv /\ SessionInv
  BY DEF BusInv
<1>2. /\ viewer[v] = "on" /\ queue[v] # <<>>
      /\ last' = [last EXCEPT ![v] = Head(queue[v])]
      /\ queue' = [queue EXCEPT ![v] = Tail(queue[v])]
      /\ UNCHANGED <<sets, live, viewer, loopq, turn, session, posted, stamp, silent, overtaken>>
  BY DEF Send
<1>3. PICK old \in Seq(Nat) : old = queue[v]
  BY <1>1 DEF BusTypeOK
<1>4. /\ old # <<>> /\ Len(old) \in Nat /\ Head(old) = old[1] /\ old[1] \in Nat /\ 1 \in DOMAIN old
      /\ Tail(old) \in Seq(Nat) /\ Len(Tail(old)) = Len(old) - 1
      /\ DOMAIN Tail(old) = 1..(Len(old) - 1) /\ DOMAIN old = 1..Len(old)
      /\ \A i \in DOMAIN Tail(old) : i + 1 \in DOMAIN old /\ Tail(old)[i] = old[i + 1]
  BY <1>2, <1>3, HeadTailProperties
<1>5. /\ queue'[v] = Tail(old) /\ last'[v] = old[1]
      /\ queue' \in [Viewers -> Seq(Nat)] /\ last' \in [Viewers -> Nat]
      /\ \A u \in Viewers : u # v => queue'[u] = queue[u] /\ last'[u] = last[u]
  BY <1>1, <1>2, <1>3, <1>4 DEF BusTypeOK
<1>6. Moved(0, {})
  BY <1>1, <1>2, KeptCallbacks DEF BusTypeOK
<1>7. BusTypeOK'
  BY <1>1, <1>2, <1>5 DEF BusTypeOK
<1>8. SetsInv'
  <2>1. Subscribed' = Subscribed
    BY <1>2 DEF Subscribed
  <2>2. QED
    BY <1>1, <1>2, <2>1 DEF SetsInv, Keeps, IsFan
<1>9. OrderInv'
  <2>1. ASSUME NEW u \in Viewers
        PROVE  /\ last'[u] <= stamp'
               /\ \A i \in DOMAIN queue'[u] : last'[u] < queue'[u][i] /\ queue'[u][i] <= stamp'
               /\ \A i, j \in DOMAIN queue'[u] : i < j => queue'[u][i] < queue'[u][j]
    <3>1. CASE u # v
      BY <1>1, <1>2, <1>5, <3>1 DEF OrderInv
    <3>2. CASE u = v
      <4>1. /\ \A i \in DOMAIN old : old[i] <= stamp
            /\ \A i, j \in DOMAIN old : i < j => old[i] < old[j]
        BY <1>1, <1>3 DEF OrderInv
      <4>2. \A i \in DOMAIN Tail(old) : i \in Nat \ {0}
        BY <1>4
      <4>3. \A i \in DOMAIN Tail(old) : old[1] < Tail(old)[i] /\ Tail(old)[i] <= stamp
        BY <1>4, <4>1, <4>2
      <4>4. \A i, j \in DOMAIN Tail(old) : i < j => Tail(old)[i] < Tail(old)[j]
        BY <1>4, <4>1, <4>2
      <4>5. QED
        BY <1>2, <1>4, <1>5, <3>2, <4>1, <4>3, <4>4
    <3>3. QED
      BY <3>1, <3>2
  <2>2. ASSUME NEW k \in DOMAIN loopq, IsFan(k), NEW u \in Viewers
        PROVE  /\ last'[u] < loopq[k].event
               /\ \A i \in DOMAIN queue'[u] : queue'[u][i] < loopq[k].event
    <3>1. last[u] < loopq[k].event /\ \A i \in DOMAIN queue[u] : queue[u][i] < loopq[k].event
      BY <1>1, <2>2 DEF OrderInv
    <3>2. CASE u # v
      BY <1>5, <3>1, <3>2
    <3>3. CASE u = v
      BY <1>3, <1>4, <1>5, <3>1, <3>3
    <3>4. QED
      BY <3>2, <3>3
  <2>3. QED
    BY <1>1, <1>2, <2>1, <2>2 DEF OrderInv, IsFan
<1>10. PostedInv' /\ SessionInv'
  BY <1>1, <1>2, <1>6, SessionUntouched
<1>11. QED
  BY <1>7, <1>8, <1>9, <1>10 DEF BusInv

LEMMA DisconnectKeepsInv ==
    ASSUME BusInv, NEW v \in Viewers, Disconnect(v)
    PROVE  BusInv'
<1>1. BusTypeOK /\ SetsInv /\ OrderInv /\ PostedInv /\ SessionInv
  BY DEF BusInv
<1>2. /\ viewer[v] = "on" /\ queue[v] # <<>>
      /\ viewer' = [viewer EXCEPT ![v] = "gone"]
      /\ queue' = [queue EXCEPT ![v] = <<>>]
      /\ last' = [last EXCEPT ![v] = 0]
      /\ sets' = [sets EXCEPT ![live] = sets[live] \ {v}]
      /\ live' = IF sets[live] = {v} THEN 0 ELSE live
      /\ UNCHANGED <<loopq, turn, session, posted, stamp, silent, overtaken>>
  BY DEF Disconnect, Unsubscribe
<1>3. /\ viewer' \in [Viewers -> {"off", "on", "gone"}]
      /\ viewer'[v] = "gone" /\ \A u \in Viewers : u # v => viewer'[u] = viewer[u]
  BY <1>1, <1>2 DEF BusTypeOK
<1>4. Subscribed' = Subscribed \ {v} /\ v \in Subscribed
  BY <1>2, <1>3 DEF Subscribed
<1>5. /\ <<>> \in Seq(Nat) /\ queue' \in [Viewers -> Seq(Nat)] /\ last' \in [Viewers -> Nat]
      /\ queue'[v] = <<>> /\ last'[v] = 0
      /\ \A u \in Viewers : u # v => queue'[u] = queue[u] /\ last'[u] = last[u]
  <2>1. <<>> \in Seq(Nat)
    OBVIOUS
  <2>2. QED
    BY <1>1, <1>2, <2>1 DEF BusTypeOK
<1>6. live \in 1..Len(sets) /\ sets[live] = Subscribed /\ sets \in Seq(SUBSET Viewers)
  BY <1>1, <1>4 DEF SetsInv, BusTypeOK
<1>7. /\ sets' \in Seq(SUBSET Viewers) /\ Len(sets') = Len(sets) /\ live' \in 0..Len(sets')
      /\ \A i \in 1..Len(sets) : sets[i] \ {v} \subseteq sets'[i]
      /\ sets'[live] = Subscribed'
  BY <1>2, <1>4, <1>6
<1>8. Subscribed' = IF live' = 0 THEN {} ELSE sets'[live']
  BY <1>2, <1>4, <1>6, <1>7
<1>9. Moved(0, {})
  BY <1>1, <1>2, KeptCallbacks DEF BusTypeOK
<1>10. BusTypeOK'
  BY <1>1, <1>2, <1>3, <1>5, <1>7 DEF BusTypeOK
<1>11. SetsInv'
  <2>1. ASSUME NEW subs \in Nat, NEW watching \in SUBSET Viewers, Keeps(subs, watching)
        PROVE  Keeps(subs, watching)'
    BY <1>3, <1>4, <1>6, <1>7, <2>1 DEF Keeps
  <2>2. QED
    BY <1>1, <1>2, <1>8, <2>1, SetsFollow
<1>12. OrderInv'
  <2>1. ASSUME NEW u \in Viewers
        PROVE  /\ last'[u] <= stamp'
               /\ \A i \in DOMAIN queue'[u] : last'[u] < queue'[u][i] /\ queue'[u][i] <= stamp'
               /\ \A i, j \in DOMAIN queue'[u] : i < j => queue'[u][i] < queue'[u][j]
    <3>1. CASE u # v
      BY <1>1, <1>2, <1>5, <3>1 DEF OrderInv
    <3>2. CASE u = v
      BY <1>1, <1>2, <1>5, <3>2 DEF BusTypeOK
    <3>3. QED
      BY <3>1, <3>2
  <2>2. ASSUME NEW k \in DOMAIN loopq, IsFan(k), NEW u \in Viewers
        PROVE  /\ last'[u] < loopq[k].event
               /\ \A i \in DOMAIN queue'[u] : queue'[u][i] < loopq[k].event
    <3>1. 0 < loopq[k].event /\ last[u] < loopq[k].event
          /\ \A i \in DOMAIN queue[u] : queue[u][i] < loopq[k].event
      BY <1>1, <2>2 DEF OrderInv
    <3>2. CASE u # v
      BY <1>5, <3>1, <3>2
    <3>3. CASE u = v
      BY <1>5, <3>1, <3>3
    <3>4. QED
      BY <3>2, <3>3
  <2>3. QED
    BY <1>1, <1>2, <2>1, <2>2 DEF OrderInv, IsFan
<1>13. PostedInv' /\ SessionInv'
  BY <1>1, <1>2, <1>9, SessionUntouched
<1>14. QED
  BY <1>10, <1>11, <1>12, <1>13 DEF BusInv

-----------------------------------------------------------------------------
LEMMA BusNextKeepsInv == BusInv /\ [TraceNext]_traceVars => BusInv'
<1> SUFFICES ASSUME BusInv, [TraceNext]_traceVars
             PROVE  BusInv'
  OBVIOUS
<1>1. ASSUME NEW m \in Messages, Post(m)
      PROVE  BusInv'
  BY <1>1, PostKeepsInv
<1>2. ASSUME NEW m \in Messages, Thread(m)
      PROVE  BusInv'
  <2>1. CASE Capture(m)
    BY <2>1, CaptureKeepsInv
  <2>2. CASE Schedule(m)
    BY <2>2, ScheduleKeepsInv
  <2>3. ASSUME NEW result \in Ends[m], Return(m, result)
        PROVE  BusInv'
    BY <2>3, ReturnKeepsInv
  <2>4. QED
    BY <1>2, <2>1, <2>2, <2>3 DEF Thread
<1>3. CASE EventLoop
  BY <1>3, FanKeepsInv, AnswerKeepsInv, FailKeepsInv DEF EventLoop
<1>4. ASSUME NEW v \in Viewers, Subscribe(v) \/ Send(v) \/ Disconnect(v)
      PROVE  BusInv'
  BY <1>4, SubscribeKeepsInv, SendKeepsInv, DisconnectKeepsInv
<1>5. CASE UNCHANGED traceVars
  <2>1. UNCHANGED <<sets, live, loopq, queue, viewer, turn, session, posted, stamp, last,
                    silent, overtaken>>
    BY <1>5 DEF traceVars, bus, history
  <2>2. BusTypeOK'
    BY <2>1 DEF BusInv, BusTypeOK
  <2>3. SetsInv'
    BY <2>1 DEF BusInv, SetsInv, Subscribed, Keeps, IsFan
  <2>4. OrderInv'
    BY <2>1 DEF BusInv, OrderInv, IsFan
  <2>5. PostedInv'
    BY <2>1 DEF BusInv, PostedInv, IsFan
  <2>6. SessionInv'
    BY <2>1 DEF BusInv, SessionInv, Shown
  <2>7. QED
    BY <2>2, <2>3, <2>4, <2>5, <2>6 DEF BusInv
<1>6. QED
  BY <1>1, <1>2, <1>3, <1>4, <1>5 DEF TraceNext

(* BusInv is an invariant of the web session (frontend/backend/app.py and    *)
(* events.py), for any number of messages, viewers, events and queue sizes.  *)
THEOREM BusInvariantHolds == TraceSpec => []BusInv
<1>1. TraceInit => BusInv
  BY BusInit
<1>2. BusInv /\ [TraceNext]_traceVars => BusInv'
  BY BusNextKeepsInv
<1>3. QED
  BY <1>1, <1>2, PTL DEF TraceSpec

(* A browser is sent the events of publish and _fan (events.py) in the order *)
(* they were scheduled, none twice, and misses none but for want of room in  *)
(* its own queue: TraceIsFaithful holds throughout.                          *)
THEOREM TraceFaithful == TraceSpec => []TraceIsFaithful
<1>1. ASSUME BusInv
      PROVE  TraceIsFaithful
  <2>1. ASSUME NEW v \in Viewers, NEW i \in 1..Len(queue[v])
        PROVE  (<<last[v]>> \o queue[v])[i] < (<<last[v]>> \o queue[v])[i + 1]
    <3>1. PICK old \in Seq(Nat), low \in Nat : old = queue[v] /\ low = last[v]
      BY <1>1 DEF BusInv, BusTypeOK
    <3>2. /\ \A k \in DOMAIN old : low < old[k]
          /\ \A k, l \in DOMAIN old : k < l => old[k] < old[l]
      BY <1>1, <3>1 DEF BusInv, OrderInv
    <3>3. /\ i \in 1..Len(old) /\ Len(old) \in Nat /\ DOMAIN old = 1..Len(old)
      BY <2>1, <3>1
    <3>4. /\ (<<low>> \o old)[i + 1] = old[i]
          /\ (<<low>> \o old)[i] = IF i = 1 THEN low ELSE old[i - 1]
      BY <3>3
    <3>5. (<<low>> \o old)[i] < (<<low>> \o old)[i + 1]
      <4>1. CASE i = 1
        BY <3>2, <3>3, <3>4, <4>1
      <4>2. CASE i # 1
        <5>1. i - 1 \in DOMAIN old /\ i \in DOMAIN old /\ i - 1 < i
          BY <3>3, <4>2
        <5>2. old[i - 1] < old[i]
          BY <3>2, <5>1
        <5>3. QED
          BY <3>4, <4>2, <5>2
      <4>3. QED
        BY <4>1, <4>2
    <3>6. QED
      BY <3>1, <3>5
  <2>2. silent = {}
    BY <1>1 DEF BusInv, SetsInv
  <2>3. QED
    BY <2>1, <2>2 DEF TraceIsFaithful
<1>2. QED
  BY <1>1, BusInvariantHolds, PTL

(* Once no turn runs, the session shows the outcome of the last message      *)
(* whose turn did not raise, unless an older one was answered after it.      *)
THEOREM SessionFollows == TraceSpec => []SessionFollowsTurns
<1>1. BusInv => SessionFollowsTurns
  BY DEF BusInv, SessionInv, SessionFollowsTurns, Shown
<1>2. QED
  BY <1>1, BusInvariantHolds, PTL

-----------------------------------------------------------------------------
(* No queue holds more than its maxsize, no turn publishes more than Steps.  *)
Limits ==
    /\ \A v \in Viewers : Len(queue[v]) <= QueueSize
    /\ \A m \in Messages : turn[m].n <= Steps

LEMMA LimitsStay ==
    ASSUME BusInv, Limits, [TraceNext]_traceVars
    PROVE  Limits'
<1>1. /\ QueueSize \in Nat /\ Steps \in Nat
      /\ queue \in [Viewers -> Seq(Nat)] /\ turn \in [Messages -> Turns]
      /\ \A m \in Messages : turn[m].n \in Nat
  BY TraceAssumption DEF BusInv, BusTypeOK, Turns
<1>2. CASE UNCHANGED <<queue, turn>>
  BY <1>2 DEF Limits
<1>3. ASSUME NEW m \in Messages, turn' = [turn EXCEPT ![m].pc = "running"] \/ Capture(m)
                 \/ Schedule(m) \/ (\E result \in Ends[m] : Return(m, result))
                 \/ turn' = [turn EXCEPT ![m].pc = "answered"], UNCHANGED queue
      PROVE  Limits'
  <2>1. /\ \A n \in Messages : n # m => turn'[n] = turn[n]
        /\ turn'[m].n = turn[m].n \/ turn'[m].n <= Steps
    <3>1. turn[m] \in Turns /\ turn[m].n \in Nat
      BY <1>1
    <3>2. CASE Capture(m)
      BY <1>1, <3>1, <3>2 DEF Capture, Turns
    <3>3. CASE Schedule(m)
      BY <1>1, <3>1, <3>3 DEF Schedule, Turns
    <3>4. ASSUME NEW result \in Ends[m], Return(m, result)
          PROVE  /\ \A n \in Messages : n # m => turn'[n] = turn[n]
                 /\ turn'[m].n = turn[m].n
      BY <1>1, <3>1, <3>4 DEF Return, Turns
    <3>5. ASSUME NEW pc, turn' = [turn EXCEPT ![m].pc = pc]
          PROVE  /\ \A n \in Messages : n # m => turn'[n] = turn[n]
                 /\ turn'[m].n = turn[m].n
      BY <1>1, <3>1, <3>5 DEF Turns
    <3>6. QED
      BY <1>3, <3>2, <3>3, <3>4, <3>5
  <2>2. QED
    BY <1>3, <2>1 DEF Limits
<1>4. CASE Fan
  <2>1. PICK to : to = {v \in sets[Head(loopq).subs] : HasRoom(v)}
    OBVIOUS
  <2>2. PICK e : e = Head(loopq).event
    OBVIOUS
  <2>3. /\ queue' = [v \in Viewers |-> IF v \in to THEN Append(queue[v], e) ELSE queue[v]]
        /\ UNCHANGED turn
    BY <1>4, <2>1, <2>2 DEF Fan, Put
  <2>4. ASSUME NEW v \in Viewers
        PROVE  Len(queue'[v]) <= QueueSize
    <3>1. PICK old \in Seq(Nat) : old = queue[v] /\ Len(old) <= QueueSize
      BY <1>1 DEF Limits
    <3>2. CASE v \in to
      <4>1. Len(old) < QueueSize
        BY <2>1, <3>1, <3>2 DEF HasRoom
      <4>2. queue'[v] = Append(old, e) /\ Len(Append(old, e)) = Len(old) + 1 /\ Len(old) \in Nat
        BY <2>3, <3>1, <3>2
      <4>3. QED
        BY <1>1, <4>1, <4>2
    <3>3. CASE v \notin to
      BY <2>3, <3>1, <3>3
    <3>4. QED
      BY <3>2, <3>3
  <2>5. QED
    BY <2>3, <2>4 DEF Limits
<1>5. ASSUME NEW v \in Viewers, Send(v) \/ Disconnect(v)
      PROVE  Limits'
  <2>1. PICK old \in Seq(Nat) : old = queue[v] /\ Len(old) <= QueueSize /\ old # <<>>
    BY <1>1, <1>5 DEF Limits, Send, Disconnect
  <2>2. /\ \E new \in {Tail(old), <<>>} : queue' = [queue EXCEPT ![v] = new]
        /\ UNCHANGED turn
    BY <1>5, <2>1 DEF Send, Disconnect
  <2>3. Len(Tail(old)) = Len(old) - 1 /\ Len(old) \in Nat /\ Len(<<>>) = 0
    BY <2>1, HeadTailProperties
  <2>4. QED
    BY <1>1, <2>1, <2>2, <2>3 DEF Limits
<1>6. ASSUME NEW m \in Messages, Post(m) \/ Answer(m) \/ Fail(m)
      PROVE  Limits'
  BY <1>3, <1>6 DEF Post, Answer, Fail, Publish, bus
<1>7. ASSUME NEW m \in Messages, Thread(m)
      PROVE  Limits'
  BY <1>3, <1>7 DEF Thread, Capture, Schedule, Return, bus
<1>8. ASSUME NEW v \in Viewers, Subscribe(v)
      PROVE  Limits'
  BY <1>2, <1>8 DEF Subscribe
<1>9. CASE UNCHANGED traceVars
  BY <1>2, <1>9 DEF traceVars, bus
<1>10. QED
  BY <1>4, <1>5, <1>6, <1>7, <1>8, <1>9 DEF TraceNext, EventLoop

(* The entry of _SUBS is the set of those that are subscribed, or absent if  *)
(* nobody is, and no queue grows beyond its maxsize (events.py).             *)
THEOREM TraceTypeCorrect == TraceSpec => []TraceTypeOK
<1>1. TraceInit => Limits
  BY TraceAssumption DEF TraceInit, Limits
<1>2. BusInv /\ Limits /\ [TraceNext]_traceVars => Limits'
  BY LimitsStay
<1>3. BusInv /\ Limits => TraceTypeOK
  BY DEF BusInv, BusTypeOK, SetsInv, Limits, TraceTypeOK
<1>4. QED
  BY <1>1, <1>2, <1>3, BusInvariantHolds, PTL DEF TraceSpec
===============================================================================
