--------------------------- MODULE AuditSynthesis ---------------------------
(* Stage 3 of an audit (packs/audit/planner/stage3.py, sig.py and            *)
(* guardrails/severity.py): severities are corrected one finding at a time,  *)
(* findings of a file whose functions share state are linked, and two or     *)
(* more severe ones among them become a critical chain.  What a function     *)
(* reads, writes and calls is data; the graph made from it is the code's.    *)
EXTENDS Naturals, Sequences, FiniteSets, SequencesExt

CONSTANTS
    Code,      \* file of the audit -> its functions, in the order of the text
    Declared,  \* file -> the state variables declared in the file itself
    Graphs     \* file -> the functions of SmartGraphical's graph, <<>> if none

Files == DOMAIN Code

(* Of a function: its name and what it touches.                              *)
SourceFunctions ==
    [name : STRING, reads : SUBSET STRING, writes : SUBSET STRING, calls : SUBSET STRING]

ASSUME SynthesisAssumption ==
    /\ Code \in [Files -> Seq(SourceFunctions)] /\ Graphs \in [Files -> Seq(SourceFunctions)]
    /\ DOMAIN Declared = Files

Severities == [informational |-> 0, low |-> 1, medium |-> 2, high |-> 3, critical |-> 4]

-----------------------------------------------------------------------------
(* The State Interference Graph                                              *)

NamesOf(functions) == {functions[i].name : i \in DOMAIN functions}
NodesNamed(functions, n) == {f \in Range(functions) : f.name = n}

(* The last function of a name, an overload, replaces the ones before it.    *)
LastNamed(functions, n) ==
    LET at == {i \in DOMAIN functions : functions[i].name = n}
    IN  functions[CHOOSE i \in at : \A j \in at : j <= i]

(* From the text: only variables the file itself declares are recognised,    *)
(* and a written one is not also a read one.                                 *)
BuildSig(file) ==
    [n \in NamesOf(Code[file]) |->
        LET f == LastNamed(Code[file], n)
        IN  [reads |-> (f.reads \ f.writes) \cap Declared[file],
             writes |-> f.writes \cap Declared[file]]]

(* SmartGraphical's nodes are keyed by short name: functions of one name in  *)
(* several contracts are one node with the edges of all.                     *)
Merged(functions) ==
    [n \in NamesOf(functions) |->
        [reads |-> UNION {f.reads : f \in NodesNamed(functions, n)},
         writes |-> UNION {f.writes : f \in NodesNamed(functions, n)}]]

Calls(functions, n) == UNION {f.calls : f \in NodesNamed(functions, n)}

(* Mistake for ReportIsJustified: only direct callees.                       *)
DirectCallees(functions, n) == Calls(functions, n)

Reachable(functions, n) ==
    LET more(called) == called \cup UNION {Calls(functions, c) : c \in called}
        within[k \in Nat] == IF k = 0 THEN Calls(functions, n) ELSE more(within[k - 1])
    IN  within[Cardinality(NamesOf(functions))]

(* A caller inherits what its callees touch; node after node, in place, so   *)
(* that later nodes find what earlier ones inherited.                        *)
Inherit(functions, sig, n) ==
    LET callees == (Reachable(functions, n) \cap DOMAIN sig) \ {n}
    IN  [sig EXCEPT ![n].reads = @ \cup UNION {sig[c].reads : c \in callees},
                    ![n].writes = @ \cup UNION {sig[c].writes : c \in callees}]

BuildSigFromSmartgraphical(functions) ==
    LET firsts == {i \in DOMAIN functions : \A j \in 1..(i - 1) : functions[j].name # functions[i].name}
        step(sig, i) == IF i \in firsts THEN Inherit(functions, sig, functions[i].name) ELSE sig
    IN  FoldLeft(step, Merged(functions), [i \in DOMAIN functions |-> i])

Sigs == [file \in Files |-> IF Graphs[file] # <<>> THEN BuildSigFromSmartgraphical(Graphs[file])
                            ELSE BuildSig(file)]

Interferes(sig, a, b) ==
    /\ {a, b} \subseteq DOMAIN sig
    /\ \/ sig[a].writes \cap (sig[b].reads \cup sig[b].writes) # {}
       \/ sig[b].writes \cap (sig[a].reads \cup sig[a].writes) # {}

-----------------------------------------------------------------------------
(* The two passes over findings: a function from whatever tells two of them  *)
(* apart to [id, file, at, severity, mitigated, preconditions].              *)

CheckSeverity(f) ==
    CASE f.mitigated /\ f.severity > Severities.medium -> Severities.medium
      [] ~f.mitigated /\ Cardinality(f.preconditions) >= 4 /\ f.severity < Severities.high
            -> Severities.high
      [] OTHER -> f.severity

(* What follows the last colon of a location is taken for a function; in a   *)
(* file there is no graph of, any two findings interact.                     *)
Interacts(findings, a, b) ==
    /\ a # b
    /\ findings[a].file = findings[b].file
    /\ findings[a].file \in Files
         => Interferes(Sigs[findings[a].file], findings[a].at, findings[b].at)

Severe(findings) ==
    {k \in DOMAIN findings : CheckSeverity(findings[k]) >= Severities.high /\ ~findings[k].mitigated}

(* Mistake for ReportsOnlyGrow: a chain takes all severe findings or none.   *)
AllOrNone(findings, file) ==
    LET severe == {k \in Severe(findings) : findings[k].file = file}
    IN  IF \A a, b \in severe : a = b \/ Interacts(findings, a, b) THEN severe ELSE {}

Elevate(findings, file) ==
    {a \in Severe(findings) :
        findings[a].file = file /\ \E b \in Severe(findings) : Interacts(findings, a, b)}

RunStage3(findings) ==
    [k \in DOMAIN findings |->
        LET chain == Elevate(findings, findings[k].file)
        IN  [severity |-> IF k \in chain /\ Cardinality(chain) >= 2 THEN Severities.critical
                          ELSE CheckSeverity(findings[k]),
             combined |-> {findings[j].id : j \in {j \in DOMAIN findings : Interacts(findings, k, j)}}]]
=============================================================================
