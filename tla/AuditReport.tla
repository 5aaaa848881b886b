---------------------------- MODULE AuditReport ----------------------------
(* The findings of a project, from the static analysers and from stage 2,    *)
(* go through episodic memory into the audit report (packs/audit/            *)
(* pipeline.py): EpisodicMemory composed with AuditSynthesis.  Audits of one *)
(* project share its memory: every report is made from all that is there.    *)
EXTENDS EpisodicMemory, AuditSynthesis

CONSTANT Payloads   \* the findings the records may carry

(* A payload: its id, the file and the function it is about, how the engine  *)
(* writes the place down, and its severity and mitigations.  A finding may   *)
(* have no preconditions; those of the analysers never do.                   *)
ASSUME ReportAssumption ==
    /\ \A payload \in Payloads, r \in RecordIds :
           /\ payload[r].severity \in 0..4 /\ payload[r].mitigated \in BOOLEAN
           /\ payload[r].engine \in {"static", "model"}
    /\ {} \in Contents

VARIABLES
    payload,   \* record -> the finding in it
    report     \* record -> what the report says of its finding

reportVars == <<vars, payload, report>>

ReportInit ==
    /\ Init
    /\ payload \in Payloads
    /\ report = <<>>

(* slither_to_findings, sg_to_findings: file and line, no preconditions; the *)
(* models are asked for file and function, and give preconditions.           *)
StaticRecord(r) ==
    [source |-> "not_human", status |-> "none", supersedes |-> NoRecord, content |-> {}]
ModelRecord(content) ==
    [source |-> "not_human", status |-> "none", supersedes |-> NoRecord, content |-> content]

Store(r, t, rec) ==
    /\ Write(r, t, rec) \/ TearWrite(r, t, rec)
    /\ UNCHANGED <<payload, report>>

(* An analyser that fails ends the pass: what it found so far stays.         *)
RunStaticAnalysis(r, t) == payload[r].engine = "static" /\ Store(r, t, StaticRecord(r))

WriteFinding(r, t, content) == payload[r].engine = "model" /\ Store(r, t, ModelRecord(content))

(* A human's record: a correction, or one that stands beside the others.     *)
Correct(r, t, rec) ==
    /\ rec.source = "human_input" /\ rec.supersedes \in Written
    /\ Store(r, t, rec)

Finding(r) ==
    [id |-> payload[r].id, file |-> payload[r].file, at |-> payload[r].at,
     severity |-> payload[r].severity, mitigated |-> payload[r].mitigated,
     preconditions |-> record[r].content]

(* _finish: a memory file that cannot be decoded ends the process instead.   *)
Finish ==
    /\ \A t \in Targets : ~LoadRaises(t)
    /\ report' = RunStage3([r \in Loaded |-> Finding(r)])
    /\ UNCHANGED <<vars, payload>>

ReportNext ==
    \/ \E r \in RecordIds, t \in Targets :
          \/ RunStaticAnalysis(r, t)
          \/ \E content \in Contents : WriteFinding(r, t, content)
          \/ \E rec \in Records : Correct(r, t, rec)
    \/ Finish

ReportSpec == ReportInit /\ [][ReportNext]_reportVars

-----------------------------------------------------------------------------
(* Two findings share state: the graph, or else the text, shows it, directly *)
(* or through any chain of calls.                                            *)
FunctionsOf(file) == IF Graphs[file] # <<>> THEN Graphs[file] ELSE Code[file]
Callees(file, n) ==
    IF Graphs[file] # <<>> THEN Calls(Graphs[file], n) \cap NamesOf(Graphs[file]) ELSE {}
Closed(file) ==
    {names \in SUBSET NamesOf(FunctionsOf(file)) : \A n \in names : Callees(file, n) \subseteq names}

(* A function and all it calls, directly or not: what no set of functions    *)
(* that holds it and is closed under calls can leave out.                    *)
CallTree ==
    [file \in Files |->
        [n \in NamesOf(FunctionsOf(file)) |->
            {m \in NamesOf(FunctionsOf(file)) : \A names \in Closed(file) : n \in names => m \in names}]]
Touching(file, n) ==
    {f \in Range(FunctionsOf(file)) : n \in NamesOf(FunctionsOf(file)) /\ f.name \in CallTree[file][n]}
ShareState(file, m, n) ==
    \E f \in Touching(file, m), g \in Touching(file, n) :
        f.writes \cap (g.reads \cup g.writes) # {} \/ g.writes \cap (f.reads \cup f.writes) # {}
Shared ==
    [file \in Files |-> {mn \in NamesOf(FunctionsOf(file)) \X NamesOf(FunctionsOf(file)) :
                            ShareState(file, mn[1], mn[2])}]
Related(r, s) ==
    /\ r # s /\ payload[r].file = payload[s].file
    /\ payload[r].file \in Files => <<payload[r].at, payload[s].at>> \in Shared[payload[r].file]

(* Nothing in a report is without its reason: no mitigated finding is above  *)
(* medium; a finding raised to critical shares state with another severe,    *)
(* unmitigated one; links are between findings that share state, and where   *)
(* there is a structural graph none that its calls imply is missing          *)
(* (stage3.py, sig.py: "transitive, cycle-safe").                            *)
ReportIsJustified ==
    \A r \in DOMAIN report :
        /\ payload[r].mitigated => report[r].severity <= Severities.medium
        /\ report[r].severity = Severities.critical /\ CheckSeverity(Finding(r)) # Severities.critical
             => \E s \in DOMAIN report :
                   /\ Related(r, s) /\ ~payload[s].mitigated
                   /\ CheckSeverity(Finding(s)) >= Severities.high
        /\ report[r].combined \subseteq {payload[s].id : s \in {s \in DOMAIN report : Related(r, s)}}
        /\ payload[r].file \in Files /\ Graphs[payload[r].file] # <<>>
             => \A s \in DOMAIN report : Related(r, s) => payload[s].id \in report[r].combined

(* From one report to the next a finding only disappears when a record       *)
(* supersedes it or its own write never returned, and its severity only      *)
(* falls when a finding of its file has gone.                                *)
ReportsOnlyGrow ==
    [][\A r \in DOMAIN report :
          \/ /\ r \notin DOMAIN report'
             /\ r \notin acked \/ \E t \in Targets : r \in Superseded(t)
          \/ /\ r \in DOMAIN report'
             /\ \/ report'[r].severity >= report[r].severity
                \/ \E s \in DOMAIN report \ DOMAIN report' : payload[s].file = payload[r].file]_reportVars

(* static_analysis.py: "The location uses the audit-root-relative file we    *)
(* analyzed plus Slither's line, so it lines up with Stage 1 targets and the *)
(* SIG": two findings in functions that share state are linked.              *)
StaticFindingsAreLinked ==
    \A r, s \in DOMAIN report :
        r # s /\ payload[r].file = payload[s].file /\ payload[r].file \in Files
        /\ <<payload[r].function, payload[s].function>> \in Shared[payload[r].file]
            => payload[s].id \in report[r].combined

(* stage3.py: "2+ unmitigated high/critical findings that interact with each  *)
(* other": a finding is not a chain with its own copy, which a second audit,  *)
(* or a run that died before it saved its state, writes beside it.            *)
ChainsAreOfTwoFindings ==
    \A r \in DOMAIN report :
        report[r].severity = Severities.critical /\ CheckSeverity(Finding(r)) # Severities.critical
            => \E s \in DOMAIN report :
                  /\ Related(r, s) /\ ~payload[s].mitigated
                  /\ <<payload[r].id, payload[r].at>> # <<payload[s].id, payload[s].at>>
============================================================================
