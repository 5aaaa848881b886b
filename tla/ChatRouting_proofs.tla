------------------------- MODULE ChatRouting_proofs -------------------------
(* Theorems about which model answers, for any requests to the slots, keys,  *)
(* answers of models and tool budget.                                        *)
EXTENDS ChatRouting, TLAPS

Backends == Hosted \cup {"keep", "unknown", "local", "off", "none"}
Clients == [kind : Hosted \cup {"local", "none"}, keyed : BOOLEAN]

Severity == DOMAIN Rank
Signals ==
    [severity : Severity, tagged : BOOLEAN, status : {"open"}, poc : {"none"}] \cup {NoFinding}

Results == {"none", "blocked_local_unavailable", "unparsed", "raised", "paused_relay",
            "budget_exhausted", "completed", "paused_confirmation"}

Turns ==
    [pc : {"idle", "probe", "generate", "consult", "relay", "act"}, calls : 0..MaxToolCalls,
     main : {"none", "plain", "escalated"}, extra : {"none", "answered", "down"},
     finding : Signals, action : Asks \cup {NoAction}, result : Results]

SlotsTypeOK ==
    /\ slot \in [Slots -> [backend : Backends, key : BOOLEAN]]
    /\ \A s \in Slots : slot[s].backend \in Allowed(s)
    /\ change \in [Changes -> [pc : {"new", "backend", "key", "done"}, slot : Slots,
                              backend : Backends, key : {"keep", "given", "cleared"}]]
    /\ selected \in [Slots -> SUBSET Backends]

SessionTypeOK ==
    /\ surface \in {"web", "terminal"}
    /\ provider \in [main : Clients, additional : Clients, built : BOOLEAN]
    /\ turn \in Turns
    /\ found \subseteq Severity /\ before \subseteq Severity

(* A slot is on a hosted backend only by a request.                          *)
SlotInv == \A s \in Slots : slot[s].backend \in Hosted => slot[s].backend \in selected[s]

(* A terminal session is built on the local model alone.                     *)
TerminalInv ==
    surface = "terminal" => provider.additional = NoClient

(* How far each client is at each point of a round.                          *)
RoundInv ==
    /\ turn.pc \in {"probe", "generate"} =>
           turn.main = "none" /\ turn.extra = "none"
    /\ turn.pc # "idle" =>
           turn.result = "none" /\ provider.built /\ turn.calls < MaxToolCalls
    /\ turn.pc = "consult" => turn.extra = "none"
    /\ turn.main = "none" => turn.extra = "none"
    /\ ~provider.built => turn = Idle

(* What is about to be kept in a terminal contradicts nothing that was.      *)
FindingInv ==
    surface = "terminal" /\ turn.pc = "act" /\ turn.finding # NoFinding =>
        \A e \in found : ~Contradicts(e, turn.finding.severity)

IInv ==
    /\ SlotsTypeOK /\ SessionTypeOK
    /\ SlotInv /\ TerminalInv /\ RoundInv /\ FindingInv
    /\ HostedIsExplicit /\ RoutingIsJustified /\ NoQuietContradiction

-----------------------------------------------------------------------------
LEMMA RankIsNat == \A s \in Severity : Rank[s] \in 0..4
BY DEF Severity, Rank

LEMMA InitInv == Init => IInv
<1> SUFFICES ASSUME Init PROVE IInv
  OBVIOUS
<1> USE DEF Init
<1>1. SlotsTypeOK
  BY DEF SlotsTypeOK, Slots, Backends, Allowed, NoChange
<1>2. SessionTypeOK
  BY RoutingAssumption DEF SessionTypeOK, Clients, NoProvider, NoClient, Client, Turns, Idle, NoAction, Signals, Results
<1>3. SlotInv /\ TerminalInv /\ HostedIsExplicit
  BY DEF SlotInv, TerminalInv, HostedIsExplicit, Slots, Hosted, NoProvider, NoClient, Client
<1>4. RoundInv /\ FindingInv /\ RoutingIsJustified /\ NoQuietContradiction
  BY DEF RoundInv, FindingInv, RoutingIsJustified, NoQuietContradiction, Idle
<1>5. QED
  BY <1>1, <1>2, <1>3, <1>4 DEF IInv

(* What the steps of a session leave as they are.                            *)
LEMMA SlotsUntouched ==
    ASSUME SlotsTypeOK, SlotInv, UNCHANGED configVars
    PROVE  SlotsTypeOK' /\ SlotInv'
BY DEF SlotsTypeOK, SlotInv, configVars, Allowed

-----------------------------------------------------------------------------
(* The backend's slots.                                                      *)
SlotStep ==
    \/ \E r \in Changes, post \in Posts : PostChange(r, post)
    \/ \E r \in Changes : ApplyBackend(r) \/ Refuse(r) \/ ApplyKey(r)

LEMMA PostChangeKeepsSlots ==
    ASSUME SlotsTypeOK, SlotInv, NEW r \in Changes, NEW post \in Posts, PostChange(r, post)
    PROVE  SlotsTypeOK' /\ SlotInv'
<1>1. post \in [slot : Slots, key : {"keep", "given", "cleared"},
                backend : Hosted \cup {"keep", "unknown", "local", "off"}]
  BY RoutingAssumption
<1>2. change' \in [Changes -> [pc : {"new", "backend", "key", "done"}, slot : Slots,
                              backend : Backends, key : {"keep", "given", "cleared"}]]
  BY <1>1 DEF PostChange, SlotsTypeOK, Backends
<1>3. QED
  BY <1>2 DEF PostChange, SlotsTypeOK, SlotInv, Allowed

LEMMA ApplyBackendKeepsSlots ==
    ASSUME SlotsTypeOK, SlotInv, NEW r \in Changes, ApplyBackend(r)
    PROVE  SlotsTypeOK' /\ SlotInv'
<1> DEFINE s == change[r].slot
           b == change[r].backend
<1>1. s \in Slots /\ b \in Backends
  BY DEF SlotsTypeOK
<1>2. change' \in [Changes -> [pc : {"new", "backend", "key", "done"}, slot : Slots,
                              backend : Backends, key : {"keep", "given", "cleared"}]]
  BY DEF ApplyBackend, SlotsTypeOK
<1>3. CASE b = "keep"
  BY <1>2, <1>3 DEF ApplyBackend, SlotsTypeOK, SlotInv, Allowed
<1>4. CASE b # "keep"
  <2>1. /\ b \in Allowed(s)
        /\ slot' = [slot EXCEPT ![s].backend = b]
        /\ selected' = [selected EXCEPT ![s] = @ \cup {b}]
    BY <1>4 DEF ApplyBackend
  <2>2. /\ slot' \in [Slots -> [backend : Backends, key : BOOLEAN]]
        /\ \A q \in Slots : slot'[q].backend = IF q = s THEN b ELSE slot[q].backend
    BY <1>1, <2>1 DEF SlotsTypeOK
  <2>3. /\ selected' \in [Slots -> SUBSET Backends]
        /\ \A q \in Slots : selected'[q] = IF q = s THEN selected[q] \cup {b} ELSE selected[q]
    BY <1>1, <2>1 DEF SlotsTypeOK
  <2>4. QED
    BY <1>2, <2>1, <2>2, <2>3 DEF SlotsTypeOK, SlotInv, Allowed
<1>5. QED
  BY <1>3, <1>4

LEMMA RefuseKeepsSlots ==
    ASSUME SlotsTypeOK, SlotInv, NEW r \in Changes, Refuse(r)
    PROVE  SlotsTypeOK' /\ SlotInv'
BY DEF Refuse, SlotsTypeOK, SlotInv, Allowed, NoChange, Slots, Backends

LEMMA ApplyKeyKeepsSlots ==
    ASSUME SlotsTypeOK, SlotInv, NEW r \in Changes, ApplyKey(r)
    PROVE  SlotsTypeOK' /\ SlotInv'
<1>1. /\ slot' \in [Slots -> [backend : Backends, key : BOOLEAN]]
      /\ \A q \in Slots : slot'[q].backend = slot[q].backend
  <2> DEFINE given == change[r].key = "given"
  <2>1. given \in BOOLEAN
    OBVIOUS
  <2>2. slot' = slot \/ slot' = [slot EXCEPT ![change[r].slot].key = given]
    BY DEF ApplyKey
  <2> HIDE DEF given
  <2>3. QED
    BY <2>1, <2>2 DEF SlotsTypeOK
<1>2. change' \in [Changes -> [pc : {"new", "backend", "key", "done"}, slot : Slots,
                              backend : Backends, key : {"keep", "given", "cleared"}]]
  BY DEF ApplyKey, SlotsTypeOK, NoChange, Slots, Backends
<1>3. QED
  BY <1>1, <1>2 DEF ApplyKey, SlotsTypeOK, SlotInv, Allowed

(* Selected backends stay selected, and a session does not notice.           *)
LEMMA SlotStepKeepsInv ==
    ASSUME IInv, SlotStep
    PROVE  IInv'
<1> USE DEF IInv
<1>1. SlotsTypeOK' /\ SlotInv'
  BY PostChangeKeepsSlots, ApplyBackendKeepsSlots, RefuseKeepsSlots, ApplyKeyKeepsSlots DEF SlotStep
<1>2. UNCHANGED sessionVars
  BY DEF SlotStep, PostChange, ApplyBackend, Refuse, ApplyKey
<1>3. selected["main"] \subseteq selected'["main"] /\ selected["additional"] \subseteq selected'["additional"]
  <2>1. ASSUME NEW r \in Changes, ApplyBackend(r)
        PROVE  \A s \in Slots : selected[s] \subseteq selected'[s]
    BY <2>1 DEF ApplyBackend, SlotsTypeOK
  <2>2. QED
    BY <2>1 DEF SlotStep, PostChange, Refuse, ApplyKey, Slots
<1>4. SessionTypeOK' /\ TerminalInv' /\ RoundInv' /\ FindingInv'
  BY <1>2 DEF SessionTypeOK, TerminalInv, RoundInv, FindingInv, sessionVars
<1>5. HostedIsExplicit' /\ RoutingIsJustified' /\ NoQuietContradiction'
  BY <1>2, <1>3 DEF HostedIsExplicit, RoutingIsJustified, NoQuietContradiction, sessionVars
<1>6. QED
  BY <1>1, <1>4, <1>5

-----------------------------------------------------------------------------
(* Building the provider: a hosted client has been selected for its slot.    *)
LEMMA ClientsAreSelected ==
    ASSUME SlotsTypeOK, SlotInv
    PROVE  /\ ReasoningClient \in Clients /\ ReasoningClient # NoClient
           /\ ReasoningClient.kind \in Hosted => ReasoningClient.kind \in selected["main"]
           /\ AdditionalClient \in Clients
           /\ AdditionalClient.kind \in Hosted => AdditionalClient.kind \in selected["additional"]
<1>1. slot["main"].backend \in Backends /\ HasKey("main") \in BOOLEAN
  BY DEF SlotsTypeOK, Slots, HasKey
<1>2. /\ ReasoningClient \in Clients /\ ReasoningClient # NoClient
      /\ ReasoningClient.kind \in Hosted => ReasoningClient.kind \in selected["main"]
  BY <1>1 DEF SlotInv, Slots, ReasoningClient, Clients, Client, Local, NoClient, Hosted
<1>3. AdditionalClient \in {NoClient, Local}
         \/ /\ slot["additional"].backend \in Hosted
            /\ AdditionalClient = Client(slot["additional"].backend, TRUE)
  BY DEF AdditionalClient
<1>4. /\ AdditionalClient \in Clients
      /\ AdditionalClient.kind \in Hosted => AdditionalClient.kind \in selected["additional"]
  <2>1. CASE AdditionalClient \in {NoClient, Local}
    <3>1. /\ NoClient \in Clients /\ NoClient.kind \notin Hosted
          /\ Local \in Clients /\ Local.kind \notin Hosted
      BY DEF Clients, Client, Local, NoClient, Hosted
    <3>2. QED
      BY <2>1, <3>1
  <2>2. CASE /\ slot["additional"].backend \in Hosted
             /\ AdditionalClient = Client(slot["additional"].backend, TRUE)
    <3>1. /\ AdditionalClient.kind = slot["additional"].backend
          /\ AdditionalClient \in Clients
      BY <2>2 DEF Clients, Client
    <3>2. QED
      BY <2>2, <3>1 DEF SlotInv, Slots
  <2>3. QED
    BY <1>3, <2>1, <2>2
<1>5. QED
  BY <1>2, <1>4

LEMMA BuildMainKeepsInv ==
    ASSUME IInv, BuildMain
    PROVE  IInv'
<1> USE DEF IInv
<1> DEFINE c == IF surface = "web" THEN ReasoningClient ELSE Local
<1>1. c \in Clients /\ (c.kind \in Hosted => c.kind \in selected["main"])
  BY ClientsAreSelected DEF Local, Client, Clients, Hosted
<1>2. /\ provider' = [provider EXCEPT !.main = c]
      /\ UNCHANGED <<surface, turn, found, before, configVars>>
  BY DEF BuildMain
<1>3. /\ provider' \in [main : Clients, additional : Clients, built : BOOLEAN]
      /\ provider'.main = c /\ provider'.additional = provider.additional
      /\ provider'.built = provider.built
  BY <1>1, <1>2 DEF SessionTypeOK
<1>4. SlotsTypeOK' /\ SlotInv'
  BY <1>2, SlotsUntouched
<1>5. SessionTypeOK' /\ TerminalInv' /\ RoundInv' /\ FindingInv'
  BY <1>2, <1>3 DEF SessionTypeOK, TerminalInv, RoundInv, FindingInv
<1>6. HostedIsExplicit' /\ RoutingIsJustified' /\ NoQuietContradiction'
  BY <1>1, <1>2, <1>3 DEF HostedIsExplicit, RoutingIsJustified, NoQuietContradiction, configVars
<1>7. QED
  BY <1>4, <1>5, <1>6

LEMMA BuildAdditionalKeepsInv ==
    ASSUME IInv, BuildAdditional
    PROVE  IInv'
<1> USE DEF IInv
<1> DEFINE c == IF surface = "web" THEN AdditionalClient ELSE NoClient
<1>1. c \in Clients /\ (c.kind \in Hosted => c.kind \in selected["additional"])
  BY ClientsAreSelected DEF NoClient, Client, Clients, Hosted
<1>2. /\ provider' = [provider EXCEPT !.built = TRUE, !.additional = c]
      /\ ~provider.built
      /\ UNCHANGED <<surface, turn, found, before, configVars>>
  BY DEF BuildAdditional
<1>3. /\ provider' \in [main : Clients, additional : Clients, built : BOOLEAN]
      /\ provider'.main = provider.main /\ provider'.additional = c /\ provider'.built
  BY <1>1, <1>2 DEF SessionTypeOK
<1>4. turn = Idle
  BY <1>2 DEF RoundInv
<1>5. SlotsTypeOK' /\ SlotInv'
  BY <1>2, SlotsUntouched
<1>6. SessionTypeOK' /\ TerminalInv' /\ RoundInv' /\ FindingInv'
  BY <1>2, <1>3 DEF SessionTypeOK, TerminalInv, RoundInv, FindingInv
<1>7. HostedIsExplicit' /\ RoutingIsJustified' /\ NoQuietContradiction'
  BY <1>1, <1>2, <1>3, <1>4
     DEF HostedIsExplicit, RoutingIsJustified, NoQuietContradiction, configVars, Idle
<1>8. QED
  BY <1>5, <1>6, <1>7


-----------------------------------------------------------------------------
(* A resumed session starts over: no clients, no turn and no findings.       *)
LEMMA ResumeKeepsInv ==
    ASSUME IInv, Resume
    PROVE  IInv'
<1> USE DEF IInv
<1>1. /\ surface = "terminal" /\ provider' = NoProvider /\ turn' = Idle
      /\ found' = {} /\ before' = before \cup found
      /\ UNCHANGED <<surface, configVars>>
  BY DEF Resume
<1>2. SlotsTypeOK' /\ SlotInv'
  BY <1>1, SlotsUntouched
<1>3. NoProvider \in [main : Clients, additional : Clients, built : BOOLEAN] /\ Idle \in Turns
  BY RoutingAssumption DEF NoProvider, Clients, NoClient, Client, Turns, Idle, NoAction, Signals, Results
<1>4. SessionTypeOK'
  BY <1>1, <1>3 DEF SessionTypeOK
<1>5. TerminalInv' /\ HostedIsExplicit'
  BY <1>1 DEF TerminalInv, HostedIsExplicit, NoProvider, NoClient, Client, Hosted
<1>6. RoundInv' /\ FindingInv' /\ RoutingIsJustified' /\ NoQuietContradiction'
  BY <1>1 DEF RoundInv, FindingInv, RoutingIsJustified, NoQuietContradiction, Idle
<1>7. QED
  BY <1>2, <1>4, <1>5, <1>6

-----------------------------------------------------------------------------
(* The turn. None of its steps touches the slots or the provider.            *)
TurnOnly == UNCHANGED <<surface, provider, before, configVars>>

LEMMA TurnLeavesRest ==
    ASSUME IInv, TurnOnly
    PROVE  SlotsTypeOK' /\ SlotInv' /\ TerminalInv' /\ HostedIsExplicit'
<1>1. SlotsTypeOK' /\ SlotInv'
  BY SlotsUntouched DEF IInv, TurnOnly
<1>2. TerminalInv' /\ HostedIsExplicit'
  BY DEF IInv, TurnOnly, TerminalInv, HostedIsExplicit, configVars
<1>3. QED
  BY <1>1, <1>2

(* signal_from keeps only severities the ranks know.                         *)
LEMMA SignalIsTyped ==
    ASSUME NEW report \in MayReport
    PROVE  /\ SignalFrom(report) \in Signals
           /\ SignalFrom(report) # NoFinding => SignalFrom(report).severity \in Severity
<1>1. CASE report = NoFinding \/ report.severity \notin DOMAIN Rank
  BY <1>1 DEF SignalFrom, Signals
<1>2. CASE report # NoFinding /\ report.severity \in DOMAIN Rank
  <2>1. report.tagged \in BOOLEAN
    BY <1>2, RoutingAssumption DEF MayReport
  <2>2. QED
    BY <1>2, <2>1 DEF SignalFrom, Signals, Severity
<1>3. QED
  BY <1>1, <1>2

(* No trigger fires only if the finding contradicts none of the existing.    *)
LEMMA QuietContradictsNothing ==
    ASSUME NEW f, f # NoFinding, NEW existing, DomainEscalation(f, existing) = "none"
    PROVE  \A e \in existing : ~Contradicts(e, f.severity)
BY DEF DomainEscalation

(* A step that ends the turn, with the two clients as they were.             *)
LEMMA EndKeepsInv ==
    ASSUME IInv, TurnOnly, turn.pc # "idle", NEW result \in Results, End(result),
           found' \subseteq Severity, NoQuietContradiction',
           result = "paused_relay" => turn.pc = "relay",
           result = "blocked_local_unavailable" => turn.pc = "probe"
    PROVE  IInv'
<1> USE DEF IInv
<1>1. /\ turn' \in Turns /\ turn'.pc = "idle" /\ turn'.result = result
      /\ turn'.main = turn.main /\ turn'.extra = turn.extra
      /\ UNCHANGED <<surface, provider, before>>
  BY DEF End, SessionTypeOK, Turns, Signals, TurnOnly
<1>2. SessionTypeOK'
  BY <1>1 DEF SessionTypeOK
<1>3. RoundInv' /\ FindingInv'
  BY <1>1 DEF RoundInv, FindingInv
<1>4. RoutingIsJustified'
  BY <1>1 DEF RoutingIsJustified, RoundInv
<1>5. QED
  BY <1>2, <1>3, <1>4, TurnLeavesRest

LEMMA StartTurnKeepsInv ==
    ASSUME IInv, StartTurn
    PROVE  IInv'
<1> USE DEF IInv
<1>1. /\ TurnOnly /\ found' = found /\ provider.built
      /\ turn' = [Idle EXCEPT !.pc = "probe"]
  BY DEF StartTurn, TurnOnly
<1>2. /\ turn' \in Turns /\ turn'.pc = "probe" /\ turn'.result = "none"
      /\ turn'.main = "none" /\ turn'.extra = "none" /\ turn'.calls < MaxToolCalls
  BY <1>1, RoutingAssumption DEF Turns, Idle, Signals, Results
<1>3. SessionTypeOK' /\ RoundInv' /\ FindingInv'
  BY <1>1, <1>2 DEF SessionTypeOK, RoundInv, FindingInv, TurnOnly
<1>4. RoutingIsJustified' /\ NoQuietContradiction'
  BY <1>1, <1>2 DEF RoutingIsJustified, NoQuietContradiction, TurnOnly
<1>5. QED
  BY <1>1, <1>3, <1>4, TurnLeavesRest

LEMMA ProbeKeepsInv ==
    ASSUME IInv, Probe
    PROVE  IInv'
<1> USE DEF IInv
<1>1. turn.pc = "probe" /\ TurnOnly /\ found' = found /\ NoQuietContradiction'
  BY DEF Probe, TurnOnly, NoQuietContradiction
<1>2. CASE End("blocked_local_unavailable")
  BY <1>1, <1>2, EndKeepsInv DEF SessionTypeOK, Results
<1>3. CASE turn' = [turn EXCEPT !.pc = "generate"]
  <2>1. /\ turn' \in Turns /\ turn'.pc = "generate" /\ turn'.result = "none"
        /\ turn'.main = "none" /\ turn'.extra = "none" /\ provider.built
        /\ turn'.calls < MaxToolCalls
    BY <1>1, <1>3 DEF SessionTypeOK, Turns, RoundInv
  <2>2. SessionTypeOK' /\ RoundInv' /\ FindingInv' /\ RoutingIsJustified'
    BY <1>1, <2>1 DEF SessionTypeOK, RoundInv, FindingInv, RoutingIsJustified, TurnOnly
  <2>3. QED
    BY <1>1, <2>2, TurnLeavesRest
<1>4. QED
  BY <1>2, <1>3 DEF Probe

LEMMA GenerateKeepsInv ==
    ASSUME IInv, NEW report \in MayReport, NEW ask \in Asks, NEW selfReport \in BOOLEAN,
           Generate(report, ask, selfReport)
    PROVE  IInv'
<1> USE DEF IInv
<1>1. /\ turn.pc = "generate" /\ TurnOnly /\ found' = found /\ NoQuietContradiction'
      /\ turn.extra = "none" /\ turn.result = "none" /\ provider.built
  BY DEF Generate, TurnOnly, NoQuietContradiction, RoundInv
<1>2. CASE EvaluateTriggers(report) # "none" \/ selfReport
  <2> DEFINE pc == IF provider.additional = NoClient THEN "relay" ELSE "consult"
  <2>1. turn' = [turn EXCEPT !.main = "escalated", !.pc = pc]
    BY <1>2 DEF Generate
  <2>2. /\ turn' \in Turns /\ turn'.pc = pc /\ turn'.main = "escalated"
        /\ turn'.extra = "none" /\ turn'.result = "none" /\ turn'.calls < MaxToolCalls
    BY <1>1, <2>1 DEF SessionTypeOK, RoundInv, Turns
  <2>3. SessionTypeOK' /\ RoundInv' /\ FindingInv' /\ RoutingIsJustified'
    BY <1>1, <2>2 DEF SessionTypeOK, RoundInv, FindingInv, RoutingIsJustified, TurnOnly
  <2>4. QED
    BY <1>1, <2>3, TurnLeavesRest
<1>3. CASE EvaluateTriggers(report) = "none" /\ ~selfReport
  <2> DEFINE f == SignalFrom(report)
  <2>1. turn' = [turn EXCEPT !.main = "plain", !.pc = "act", !.finding = f, !.action = ask]
    BY <1>3 DEF Generate
  <2>2. f \in Signals
    BY SignalIsTyped
  <2>3. /\ turn' \in Turns /\ turn'.pc = "act" /\ turn'.main = "plain"
        /\ turn'.extra = "none" /\ turn'.result = "none" /\ turn'.finding = f
        /\ turn'.calls < MaxToolCalls
    BY <1>1, <2>1, <2>2 DEF SessionTypeOK, RoundInv, Turns
  <2>4. surface = "terminal" /\ f # NoFinding => \A e \in found : ~Contradicts(e, f.severity)
    BY <1>3, QuietContradictsNothing DEF EvaluateTriggers, Existing
  <2>5. FindingInv'
    BY <1>1, <2>3, <2>4 DEF FindingInv, Contradicts, TurnOnly
  <2>6. SessionTypeOK' /\ RoundInv' /\ RoutingIsJustified'
    BY <1>1, <2>3 DEF SessionTypeOK, RoundInv, RoutingIsJustified, TurnOnly
  <2>7. QED
    BY <1>1, <2>5, <2>6, TurnLeavesRest
<1>4. QED
  BY <1>2, <1>3

(* Only sessions of the frontend have an additional client to ask.           *)
LEMMA ConsultKeepsInv ==
    ASSUME IInv, NEW report \in MayReport, NEW ask \in Asks, Consult(report, ask)
    PROVE  IInv'
<1> USE DEF IInv
<1>1. /\ turn.pc = "consult" /\ TurnOnly /\ found' = found /\ NoQuietContradiction'
      /\ turn.main = "escalated" /\ turn.result = "none" /\ provider.built
      /\ provider.additional # NoClient /\ surface # "terminal"
  BY DEF Consult, TurnOnly, NoQuietContradiction, RoundInv, RoutingIsJustified, TerminalInv
<1>2. turn' = [turn EXCEPT !.extra = "answered", !.pc = "act",
                           !.finding = SignalFrom(report), !.action = ask]
  BY DEF Consult
<1>3. /\ turn' \in Turns /\ turn'.pc = "act" /\ turn'.main = "escalated"
      /\ turn'.extra = "answered" /\ turn'.result = "none" /\ turn'.calls < MaxToolCalls
  BY <1>1, <1>2, SignalIsTyped DEF SessionTypeOK, RoundInv, Turns
<1>4. SessionTypeOK' /\ RoundInv' /\ FindingInv' /\ RoutingIsJustified'
  BY <1>1, <1>3 DEF SessionTypeOK, RoundInv, FindingInv, RoutingIsJustified, TurnOnly
<1>5. QED
  BY <1>1, <1>4, TurnLeavesRest

LEMMA ConsultFailsKeepsInv ==
    ASSUME IInv, ConsultFails
    PROVE  IInv'
<1> USE DEF IInv
<1>1. /\ turn.pc = "consult" /\ TurnOnly /\ found' = found /\ NoQuietContradiction'
      /\ turn.main = "escalated" /\ turn.result = "none" /\ provider.built
      /\ provider.additional # NoClient
  BY DEF ConsultFails, TurnOnly, NoQuietContradiction, RoundInv, RoutingIsJustified
<1>2. /\ turn' \in Turns /\ turn'.main = "escalated" /\ turn'.extra = "down"
      /\ \/ turn'.pc = "relay" /\ turn'.result = "none" /\ turn'.calls < MaxToolCalls
         \/ turn'.pc = "idle" /\ turn'.result = "raised"
  BY <1>1 DEF ConsultFails, SessionTypeOK, RoundInv, Turns, Results
<1>3. SessionTypeOK' /\ RoundInv' /\ FindingInv' /\ RoutingIsJustified'
  BY <1>1, <1>2 DEF SessionTypeOK, RoundInv, FindingInv, RoutingIsJustified, TurnOnly
<1>4. QED
  BY <1>1, <1>3, TurnLeavesRest

LEMMA QuietEndKeepsInv ==
    ASSUME IInv, Unparsed \/ GenerateFails \/ Relay
    PROVE  IInv'
<1> USE DEF IInv
<1>1. turn.pc # "idle" /\ TurnOnly /\ found' = found /\ NoQuietContradiction'
  BY DEF Unparsed, GenerateFails, Relay, TurnOnly, NoQuietContradiction
<1>2. PICK result \in {"unparsed", "raised", "paused_relay"} :
         End(result) /\ (result = "paused_relay" => turn.pc = "relay")
  BY DEF Unparsed, GenerateFails, Relay
<1>3. QED
  BY <1>1, <1>2, EndKeepsInv DEF SessionTypeOK, Results

(* The finding of a round is kept, and contradicts nothing kept before.      *)
LEMMA PersistKeepsFound ==
    ASSUME IInv, turn.pc = "act", PersistFinding, surface' = surface
    PROVE  found' \subseteq Severity /\ NoQuietContradiction'
<1> USE DEF IInv
<1>1. CASE turn.finding = NoFinding
  BY <1>1 DEF PersistFinding, SessionTypeOK, NoQuietContradiction
<1>2. CASE turn.finding # NoFinding
  <2> DEFINE s == turn.finding.severity
  <2>1. s \in Severity
    BY <1>2 DEF SessionTypeOK, Turns, Signals
  <2>2. found' = found \cup {s}
    BY <1>2 DEF PersistFinding
  <2>3. ASSUME surface = "terminal", NEW e \in found
        PROVE  Rank[e] <= Rank[s] + 1 /\ Rank[s] <= Rank[e] + 1
    <3>1. ~Contradicts(e, s)
      BY <1>2, <2>3 DEF FindingInv
    <3>2. Rank[e] \in 0..4 /\ Rank[s] \in 0..4
      BY <2>1, RankIsNat DEF SessionTypeOK
    <3>3. QED
      BY <3>1, <3>2 DEF Contradicts
  <2>4. Rank[s] <= Rank[s] + 1
    BY <2>1, RankIsNat
  <2>5. QED
    BY <2>1, <2>2, <2>3, <2>4 DEF SessionTypeOK, NoQuietContradiction
<1>3. QED
  BY <1>1, <1>2

(* Every round uses up one call of the budget.                               *)
LEMMA RoundKeepsInv ==
    ASSUME IInv, Reject \/ Dispatch
    PROVE  IInv'
<1> USE DEF IInv
<1> DEFINE calls == turn.calls + 1
<1>1. /\ turn.pc = "act" /\ TurnOnly /\ provider.built
      /\ PersistFinding /\ NextRound(calls)
  BY DEF Reject, Dispatch, TurnOnly, RoundInv
<1>2. found' \subseteq Severity /\ NoQuietContradiction'
  BY <1>1, PersistKeepsFound DEF TurnOnly
<1>3. calls \in 0..MaxToolCalls
  BY <1>1, RoutingAssumption DEF SessionTypeOK, Turns, RoundInv
<1> HIDE DEF calls
<1>4. /\ turn' \in Turns /\ turn'.main = "none" /\ turn'.extra = "none"
      /\ \/ turn'.pc = "probe" /\ turn'.result = "none" /\ turn'.calls < MaxToolCalls
         \/ turn'.pc = "idle" /\ turn'.result = "budget_exhausted"
  <2>1. CASE calls < MaxToolCalls
    BY <1>1, <1>3, <2>1 DEF NextRound, Idle, Turns, Signals, Results
  <2>2. CASE ~(calls < MaxToolCalls)
    BY <1>1, <1>3, <2>2 DEF NextRound, Idle, Turns, Signals, Results
  <2>3. QED
    BY <2>1, <2>2
<1>5. SessionTypeOK' /\ RoundInv' /\ FindingInv' /\ RoutingIsJustified'
  BY <1>1, <1>2, <1>4 DEF SessionTypeOK, RoundInv, FindingInv, RoutingIsJustified, TurnOnly
<1>6. QED
  BY <1>1, <1>2, <1>5, TurnLeavesRest

LEMMA ConcludeKeepsInv ==
    ASSUME IInv, Conclude
    PROVE  IInv'
<1>1. turn.pc = "act" /\ TurnOnly /\ PersistFinding
  BY DEF Conclude, TurnOnly
<1>2. found' \subseteq Severity /\ NoQuietContradiction'
  BY <1>1, PersistKeepsFound DEF TurnOnly
<1>3. PICK result \in {"completed", "paused_confirmation", "raised"} : End(result)
  BY DEF Conclude
<1>4. QED
  BY <1>1, <1>2, <1>3, EndKeepsInv DEF Results

-----------------------------------------------------------------------------
LEMMA TurnStepKeepsInv ==
    ASSUME IInv, TurnStep
    PROVE  IInv'
<1>1. CASE Probe
  BY <1>1, ProbeKeepsInv
<1>2. CASE \E report \in MayReport, ask \in Asks, selfReport \in BOOLEAN :
              Generate(report, ask, selfReport)
  BY <1>2, GenerateKeepsInv
<1>3. CASE Unparsed \/ GenerateFails \/ Relay
  BY <1>3, QuietEndKeepsInv
<1>4. CASE \E report \in MayReport, ask \in Asks : Consult(report, ask)
  BY <1>4, ConsultKeepsInv
<1>5. CASE ConsultFails
  BY <1>5, ConsultFailsKeepsInv
<1>6. CASE Reject \/ Dispatch
  BY <1>6, RoundKeepsInv
<1>7. CASE Conclude
  BY <1>7, ConcludeKeepsInv
<1>8. QED
  BY <1>1, <1>2, <1>3, <1>4, <1>5, <1>6, <1>7 DEF TurnStep

LEMMA NextKeepsInv == IInv /\ [Next]_vars => IInv'
<1> SUFFICES ASSUME IInv, [Next]_vars PROVE IInv'
  OBVIOUS
<1>1. CASE SlotStep
  BY <1>1, SlotStepKeepsInv
<1>2. CASE BuildMain
  BY <1>2, BuildMainKeepsInv
<1>3. CASE BuildAdditional
  BY <1>3, BuildAdditionalKeepsInv
<1>4. CASE StartTurn
  BY <1>4, StartTurnKeepsInv
<1>5. CASE TurnStep
  BY <1>5, TurnStepKeepsInv
<1>6. CASE Resume
  BY <1>6, ResumeKeepsInv
<1>7. CASE UNCHANGED vars
  BY <1>7 DEF vars, IInv, SlotsTypeOK, SessionTypeOK, SlotInv, TerminalInv, RoundInv, FindingInv,
              HostedIsExplicit, RoutingIsJustified, NoQuietContradiction, Allowed
<1>8. QED
  BY <1>1, <1>2, <1>3, <1>4, <1>5, <1>6, <1>7 DEF Next, SlotStep

(* The inductive invariant, for any requests, keys, answers and budget.      *)
THEOREM InvariantHolds == Spec => []IInv
<1>1. QED
  BY InitInv, NextKeepsInv, PTL DEF Spec

(* Each slot holds a backend it may hold, and no turn exceeds its budget.    *)
THEOREM TypeCorrect == Spec => []RoutingTypeOK
<1>1. IInv => RoutingTypeOK
  BY DEF IInv, SlotsTypeOK, SessionTypeOK, RoutingTypeOK, Turns
<1>2. QED
  BY <1>1, InvariantHolds, PTL

(* A hosted model is used only where an accepted request selected it for     *)
(* that slot, however requests and the start of the session overlap.         *)
THEOREM HostedExplicit == Spec => []HostedIsExplicit
<1>1. QED
  BY InvariantHolds, PTL DEF IInv

(* The additional client is asked only after an escalation; the relay, only  *)
(* if that client is absent or failed; nobody stands in for a main client    *)
(* that is not ready.                                                        *)
THEOREM RoutingJustified == Spec => []RoutingIsJustified
<1>1. QED
  BY InvariantHolds, PTL DEF IInv

(* No two findings that one process of a terminal session keeps contradict   *)
(* each other, whichever turns they came in.                                 *)
THEOREM ContradictionsEscalate == Spec => []NoQuietContradiction
<1>1. QED
  BY InvariantHolds, PTL DEF IInv
=============================================================================
