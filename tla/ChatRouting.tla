---------------------------- MODULE ChatRouting ----------------------------
(* Which model answers a chat turn. A session's provider                     *)
(* (llm_core/chat_reasoning.py) is built once, when the session starts: in a *)
(* terminal on the local model, in the operator frontend from two slots of   *)
(* the backend (frontend/backend/model_config.py), which requests change     *)
(* field by field in threads of their own. A turn (run_turn) asks the main   *)
(* client, hands what a trigger escalates to the additional client or to the *)
(* file relay, validates the action it gets (orchestrator/action.py) and     *)
(* goes round again until it ends or the tool budget is used up. A terminal  *)
(* session lives through processes: a pause ends one, and chat --resume goes *)
(* on in another, whose loop has no findings.                                *)
EXTENDS Naturals

CONSTANTS
    Changes,        \* requests that change a slot
    Posts,          \* what they ask for, [slot, backend, key]
    EnvKeys,        \* hosted backends with a key in the environment
    Reports,        \* the findings models report, [severity, tagged]
    Asks,           \* the actions models ask for, [name, arg]
    NoFinding,
    MaxToolCalls    \* MAX_TOOL_CALLS_PER_TURN

Slots == {"main", "additional"}
Hosted == {"paid", "openrouter"}
Rank == [informational |-> 0, low |-> 1, medium |-> 2, high |-> 3, critical |-> 4]

ASSUME RoutingAssumption ==
    /\ Posts \subseteq [slot : Slots, key : {"keep", "given", "cleared"},
                         backend : Hosted \cup {"keep", "unknown", "local", "off"}]
    /\ EnvKeys \subseteq Hosted
    /\ MaxToolCalls \in Nat \ {0}
    /\ Reports \subseteq [severity : STRING, tagged : BOOLEAN]
    /\ NoFinding \notin Reports

VARIABLES
    surface,    \* where the session runs: "web" or "terminal"
    slot,       \* slot -> the backend selected, and whether a key was given
    change,     \* request -> what it asks for, and how far it is
    provider,   \* the clients of the session
    turn,       \* the turn in progress, or how the last one ended
    found,      \* severities of the findings kept (loop._findings)
    before,     \* history: those that earlier processes of the session kept
    selected    \* history: slot -> backends that accepted requests selected

vars == <<surface, slot, change, provider, turn, found, before, selected>>
configVars == <<slot, change, selected>>
sessionVars == <<surface, provider, turn, found, before>>

Client(kind, keyed) == [kind |-> kind, keyed |-> keyed]
NoClient == Client("none", FALSE)
Local == Client("local", FALSE)

NoProvider == [main |-> NoClient, additional |-> NoClient, built |-> FALSE]

NoAction == [name |-> "none", arg |-> "none"]

(* main and extra: what the two clients did in this round of the turn.       *)
Idle == [pc |-> "idle", calls |-> 0, main |-> "none", extra |-> "none",
         finding |-> NoFinding, action |-> NoAction, result |-> "none"]

NoChange == [pc |-> "new", slot |-> "main", backend |-> "none", key |-> "keep"]

Init ==
    /\ surface \in {"web", "terminal"}
    /\ slot = [s \in Slots |-> [backend |-> IF s = "main" THEN "local" ELSE "off", key |-> FALSE]]
    /\ change = [r \in Changes |-> NoChange]
    /\ provider = NoProvider
    /\ turn = Idle
    /\ found = {} /\ before = {}
    /\ selected = [s \in Slots |-> {}]

-----------------------------------------------------------------------------
(* The backend's slots: POST /api/model/config and /api/model/additional     *)

Allowed(s) == IF s = "main" THEN {"local", "paid", "openrouter"}
              ELSE {"local", "paid", "openrouter", "off"}

(* A field that is absent is left as it is; an empty key clears it. Endpoint *)
(* and model name are assigned first and play no part here. Bound: no request *)
(* arrives once the session has its clients, it would not change them.       *)
PostChange(r, post) ==
    /\ change[r].pc = "new" /\ surface = "web" /\ ~provider.built
    /\ change' = [change EXCEPT ![r] = [pc |-> "backend", slot |-> post.slot,
                                       backend |-> post.backend, key |-> post.key]]
    /\ UNCHANGED <<slot, selected, sessionVars>>

(* _apply: the backend, unless it is not one of the slot's ...               *)
ApplyBackend(r) ==
    /\ change[r].pc = "backend"
    /\ LET s == change[r].slot
           b == change[r].backend
       IN  IF b = "keep" THEN UNCHANGED <<slot, selected>>
           ELSE /\ b \in Allowed(s)
                /\ slot' = [slot EXCEPT ![s].backend = b]
                /\ selected' = [selected EXCEPT ![s] = @ \cup {b}]
    /\ change' = [change EXCEPT ![r].pc = "key"]
    /\ UNCHANGED sessionVars

(* ... in which case the request ends as a 400 ...                           *)
Refuse(r) ==
    /\ change[r].pc = "backend"
    /\ change[r].backend \notin Allowed(change[r].slot) \cup {"keep"}
    /\ change' = [change EXCEPT ![r] = [NoChange EXCEPT !.pc = "done"]]
    /\ UNCHANGED <<slot, selected, sessionVars>>

(* ... then the key.                                                         *)
ApplyKey(r) ==
    /\ change[r].pc = "key"
    /\ slot' = IF change[r].key = "keep" THEN slot
               ELSE [slot EXCEPT ![change[r].slot].key = (change[r].key = "given")]
    /\ change' = [change EXCEPT ![r] = [NoChange EXCEPT !.pc = "done"]]
    /\ UNCHANGED <<selected, sessionVars>>

HasKey(s) == slot[s].key \/ slot[s].backend \in EnvKeys

(* reasoning_client: hosted if that backend is selected, key or no key.      *)
ReasoningClient ==
    IF slot["main"].backend \in Hosted THEN Client(slot["main"].backend, HasKey("main")) ELSE Local

(* Mistake for HostedIsExplicit: a key in the environment switches it on.    *)
AdditionalFromEnv ==
    IF slot["additional"].backend = "off" /\ EnvKeys # {}
    THEN Client(CHOOSE b \in EnvKeys : TRUE, TRUE) ELSE NoClient

(* additional_client: none when off, or hosted without a key.                *)
AdditionalClient ==
    LET b == slot["additional"].backend
    IN  IF b = "off" \/ (b \in Hosted /\ ~HasKey("additional")) THEN NoClient
        ELSE IF b \in Hosted THEN Client(b, TRUE) ELSE Local

-----------------------------------------------------------------------------
(* The provider                                                              *)

(* _build_loop evaluates the two clients one after the other.                *)
BuildMain ==
    /\ provider.main = NoClient
    /\ provider' = [provider EXCEPT !.main = IF surface = "web" THEN ReasoningClient ELSE Local]
    /\ UNCHANGED <<surface, turn, found, before, configVars>>

BuildAdditional ==
    /\ provider.main # NoClient /\ ~provider.built
    /\ provider' = [provider EXCEPT !.built = TRUE,
                        !.additional = IF surface = "web" THEN AdditionalClient ELSE NoClient]
    /\ UNCHANGED <<surface, turn, found, before, configVars>>

(* signal_from keeps severity and tag of a valid payload: status is open,    *)
(* there is no PoC yet.                                                      *)
SignalFrom(report) ==
    IF report = NoFinding \/ report.severity \notin DOMAIN Rank THEN NoFinding
    ELSE [severity |-> report.severity, tagged |-> report.tagged,
          status |-> "open", poc |-> "none"]

(* Mistake for NoQuietContradiction: a lower severity does not contradict.   *)
RaisesOnly(old, new) == Rank[new] >= Rank[old] + 2

(* Two findings at one place, two ranks or more apart, contradict.           *)
Contradicts(old, new) == Rank[new] >= Rank[old] + 2 \/ Rank[old] >= Rank[new] + 2

(* domain_escalation, the first trigger that fires; all findings here are at *)
(* one place.                                                                *)
DomainEscalation(f, existing) ==
    IF f = NoFinding THEN "none"
    ELSE IF f.severity = "critical" THEN "critical_finding"
    ELSE IF f.severity = "high" /\ f.status = "unverified" THEN "unverified_high"
    ELSE IF f.poc = "mock_review" THEN "mock_test"
    ELSE IF \E e \in existing : Contradicts(e, f.severity) THEN "contradicting_findings"
    ELSE IF ~f.tagged /\ f.severity \notin {"informational", "low"} THEN "unknown_pattern"
    ELSE "none"

(* Only the terminal shares the loop's findings with its provider.           *)
Existing == IF surface = "terminal" THEN found ELSE {}

(* evaluate_triggers: with neither action nor record, and a session whose    *)
(* token budget nothing counts, the domain's triggers are the only ones.     *)
EvaluateTriggers(report) == DomainEscalation(SignalFrom(report), Existing)

End(result) == turn' = [turn EXCEPT !.pc = "idle", !.result = result,
                                    !.finding = NoFinding, !.action = NoAction]

(* chat leaves its prompt after a turn that paused, and after an exception.  *)
EndsProcess(result) ==
    surface = "terminal" /\ result \in {"paused_confirmation", "paused_relay",
                                       "blocked_local_unavailable", "raised"}

StartTurn ==
    /\ provider.built /\ turn.pc = "idle" /\ ~EndsProcess(turn.result)
    /\ turn' = [Idle EXCEPT !.pc = "probe"]
    /\ UNCHANGED <<surface, provider, found, before, configVars>>

(* chat --resume: the session goes on in a new process, with a client, a     *)
(* provider and a loop of its own. The one before ended by itself, or at the *)
(* prompt (Ctrl-D), or was interrupted or killed in the middle of a turn.    *)
Resume ==
    /\ surface = "terminal" /\ provider.built
    /\ provider' = NoProvider /\ turn' = Idle
    /\ found' = {} /\ before' = before \cup found
    /\ UNCHANGED <<surface, configVars>>

(* Mistake for RoutingIsJustified: the relay answers for a model that is     *)
(* down.                                                                     *)
ProbeOrRelay ==
    /\ turn.pc = "probe"
    /\ turn' \in {[turn EXCEPT !.pc = "generate"], [turn EXCEPT !.pc = "relay"]}
    /\ UNCHANGED <<surface, provider, found, before, configVars>>

(* ready(): a probe of the local model; a key for a hosted one. Not ready    *)
(* ends the turn.                                                            *)
Probe ==
    /\ turn.pc = "probe"
    /\ \/ /\ provider.main.kind = "local" \/ provider.main.keyed
          /\ turn' = [turn EXCEPT !.pc = "generate"]
       \/ /\ provider.main.kind \in {"local", "paid"} \/ ~provider.main.keyed
          /\ End("blocked_local_unavailable")
    /\ UNCHANGED <<surface, provider, found, before, configVars>>

(* The main client answers; a trigger or its own report escalates.           *)
Generate(report, ask, selfReport) ==
    /\ turn.pc = "generate"
    /\ IF EvaluateTriggers(report) # "none" \/ selfReport
       THEN turn' = [turn EXCEPT !.main = "escalated",
                         !.pc = IF provider.additional = NoClient THEN "relay" ELSE "consult"]
       ELSE turn' = [turn EXCEPT !.main = "plain", !.pc = "act",
                                 !.finding = SignalFrom(report), !.action = ask]
    /\ UNCHANGED <<surface, provider, found, before, configVars>>

(* The answer does not parse, whichever client gave it.                      *)
Unparsed ==
    /\ turn.pc \in {"generate", "consult"}
    /\ End("unparsed")
    /\ UNCHANGED <<surface, provider, found, before, configVars>>

(* The call fails between the probe and the answer: nothing catches that.    *)
GenerateFails ==
    /\ turn.pc = "generate"
    /\ End("raised")
    /\ UNCHANGED <<surface, provider, found, before, configVars>>

(* The additional client's answer is acted on, not escalated again.          *)
Consult(report, ask) ==
    /\ turn.pc = "consult"
    /\ turn' = [turn EXCEPT !.extra = "answered", !.pc = "act",
                            !.finding = SignalFrom(report), !.action = ask]
    /\ UNCHANGED <<surface, provider, found, before, configVars>>

(* It fails: two of the three clients' exceptions lead on to the relay.      *)
ConsultFails ==
    /\ turn.pc = "consult"
    /\ IF provider.additional.kind \in {"local", "paid"}
       THEN turn' = [turn EXCEPT !.extra = "down", !.pc = "relay"]
       ELSE turn' = [turn EXCEPT !.extra = "down", !.pc = "idle", !.result = "raised"]
    /\ UNCHANGED <<surface, provider, found, before, configVars>>

(* request_analysis: the question is filed and the turn pauses.              *)
Relay ==
    /\ turn.pc = "relay"
    /\ End("paused_relay")
    /\ UNCHANGED <<surface, provider, found, before, configVars>>

-----------------------------------------------------------------------------
(* The action                                                                *)

(* The arguments an action is rejected for: "bad" is outside the root, over  *)
(* the limit or on another network, "none" is missing.                       *)
Rejects ==
    [read_file |-> {"bad"}, search_code |-> {"none", "bad"}, run_slither |-> {"bad"},
     run_mythril |-> {"bad"}, analyze_transactions |-> {"none", "bad"},
     build_graph |-> {}, run_auditor_skill |-> {}, decompile_bytecode |-> {},
     write_poc |-> {"none"}, run_tests |-> {}, deploy_test_contract |-> {"none", "bad"},
     write_memory |-> {}, request_human_confirmation |-> {}]

WriteExecute == {"write_poc", "run_tests", "deploy_test_contract"}

(* validate_action and what run_turn makes of its verdict. A block count     *)
(* that is not a number escapes as an exception.                             *)
Verdict(ask) ==
    IF ask.name \in {"complete", "escalate"} THEN "complete"
    ELSE IF ask.name \notin DOMAIN Rejects THEN "rejected"
    ELSE IF ask.name = "analyze_transactions" /\ ask.arg = "text" THEN "raises"
    ELSE IF ask.arg \in Rejects[ask.name] THEN "rejected"
    ELSE IF ask.name \in WriteExecute THEN "confirm"
    ELSE "dispatch"

(* _persist_finding: a valid one is kept, whatever becomes of the action.    *)
PersistFinding ==
    found' = IF turn.finding = NoFinding THEN found
             ELSE found \cup {turn.finding.severity}

(* Back to the model, with what it asks for as data; every round counts      *)
(* towards the budget.                                                       *)
NextRound(calls) ==
    turn' = IF calls < MaxToolCalls THEN [Idle EXCEPT !.pc = "probe", !.calls = calls]
            ELSE [Idle EXCEPT !.calls = calls, !.result = "budget_exhausted"]

(* Mistake for EveryTurnEnds: a rejected action costs nothing.               *)
RejectForFree ==
    /\ turn.pc = "act" /\ Verdict(turn.action) = "rejected"
    /\ PersistFinding
    /\ NextRound(turn.calls)
    /\ UNCHANGED <<surface, provider, before, configVars>>

Reject ==
    /\ turn.pc = "act" /\ Verdict(turn.action) = "rejected"
    /\ PersistFinding
    /\ NextRound(turn.calls + 1)
    /\ UNCHANGED <<surface, provider, before, configVars>>

Dispatch ==
    /\ turn.pc = "act" /\ Verdict(turn.action) = "dispatch"
    /\ PersistFinding
    /\ NextRound(turn.calls + 1)
    /\ UNCHANGED <<surface, provider, before, configVars>>

(* The turn ends with an answer, waits for a confirmation, or raises.        *)
Conclude ==
    /\ turn.pc = "act"
    /\ \/ Verdict(turn.action) = "complete" /\ End("completed")
       \/ Verdict(turn.action) = "confirm" /\ End("paused_confirmation")
       \/ Verdict(turn.action) = "raises" /\ End("raised")
    /\ PersistFinding
    /\ UNCHANGED <<surface, provider, before, configVars>>

-----------------------------------------------------------------------------
MayReport == Reports \cup {NoFinding}

TurnStep ==
    \/ Probe
    \/ \E report \in MayReport, ask \in Asks, selfReport \in BOOLEAN : Generate(report, ask, selfReport)
    \/ Unparsed
    \/ GenerateFails
    \/ \E report \in MayReport, ask \in Asks : Consult(report, ask)
    \/ ConsultFails
    \/ Relay
    \/ Reject
    \/ Dispatch
    \/ Conclude

Next ==
    \/ \E r \in Changes, post \in Posts : PostChange(r, post)
    \/ \E r \in Changes : ApplyBackend(r) \/ Refuse(r) \/ ApplyKey(r)
    \/ BuildMain
    \/ BuildAdditional
    \/ StartTurn
    \/ Resume
    \/ TurnStep

Spec == Init /\ [][Next]_vars

(* A turn goes on by itself: its calls have timeouts.                        *)
FairSpec == Spec /\ WF_vars(TurnStep)

-----------------------------------------------------------------------------
RoutingTypeOK ==
    /\ \A s \in Slots : slot[s].backend \in Allowed(s)
    /\ turn.calls \in 0..MaxToolCalls
    /\ turn.pc \in {"idle", "probe", "generate", "consult", "relay", "act"}

(* A hosted model is used only where a request that was accepted selected    *)
(* that very backend for that very slot (FR-021), however requests overlap   *)
(* with each other and with the start of a session, whatever keys there are. *)
HostedIsExplicit ==
    /\ provider.main.kind \in Hosted => provider.main.kind \in selected["main"]
    /\ provider.additional.kind \in Hosted => provider.additional.kind \in selected["additional"]

(* In every round of a turn: the additional client is asked only after the   *)
(* main one answered and that answer escalated; the relay, only if there is  *)
(* no additional client or it failed as well; an action that escalated is    *)
(* never acted on; a main client that is not ready is substituted by nobody  *)
(* (FR-010, FR-011).                                                         *)
RoutingIsJustified ==
    /\ (turn.pc = "consult" \/ turn.extra # "none") =>
           turn.main = "escalated" /\ provider.additional # NoClient
    /\ (turn.pc = "relay" \/ turn.result = "paused_relay") =>
           turn.main = "escalated" /\ (provider.additional = NoClient \/ turn.extra = "down")
    /\ turn.pc = "act" => (turn.main = "plain" \/ turn.extra = "answered")
    /\ turn.result = "blocked_local_unavailable" => turn.main = "none" /\ turn.extra = "none"

(* No two findings that one process of a terminal session keeps contradict   *)
(* each other, over all its turns, whichever comes first and whatever action *)
(* they came with: the second is escalated, not kept. The list it is         *)
(* compared with grows while actions go round (loop.py:327, cli.py:635).     *)
NoQuietContradiction ==
    surface = "terminal" => \A f, g \in found : Rank[f] <= Rank[g] + 1

(* What the documents ask for: a trigger for "same location, different       *)
(* verdicts across sessions" (research.md of specs/001), and later turns of  *)
(* a session, resumed or not, that never silently contradict the findings    *)
(* recorded in it (FR-009, FR-012 of specs/003).                             *)
SessionContradictionsEscalate ==
    surface = "terminal" => \A f, g \in found \cup before : Rank[f] <= Rank[g] + 1

(* Every turn ends, whatever the models answer: rejected, unknown and        *)
(* dispatched actions all use up the budget.                                 *)
EveryTurnEnds == turn.pc # "idle" ~> turn.pc = "idle"

(* The code, of an additional agent that fails: "fall back to the relay so   *)
(* the escalation still resolves; never an unhandled raise".                 *)
EscalationsResolve == ~(turn.result = "raised" /\ turn.extra = "down")
============================================================================
