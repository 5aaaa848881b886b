--------------------------- MODULE AuditPipeline ---------------------------
(***************************************************************************)
(* One audit: packs/audit/pipeline.py with stage 2 of planner/stage2.py.   *)
(*                                                                         *)
(* `sr-agent audit` plans the targets, saves the run state and runs stage  *)
(* 2.  With a local model it analyses the targets on the spot.  Otherwise  *)
(* it files one relay request per target and pauses; a human answers, and  *)
(* every `sr-agent resume` ingests what is there, until nothing is pending *)
(* and the report is written.  Which requests exist and which are ingested *)
(* is remembered in a manifest, a file that is rewritten as a whole, twice *)
(* in every run.  Processes may die anywhere and may overlap.              *)
(*                                                                         *)
(* Stage 1 and the static analysers run before anything here and only add  *)
(* records of their own; the run state is written once.                    *)
(***************************************************************************)
EXTENDS Naturals, Sequences, FiniteSets

CONSTANTS
    Procs,       \* processes: `sr-agent audit`, then `sr-agent resume`
    Targets,     \* stage 1's priority targets
    Requests,    \* relay request ids (uuid4); bounds the requests ever filed
    FindingIds,  \* the ids a model gives its findings: F-1, HIGH-001, ...
    Nothing,     \* no target, or no analysis at hand
    MaxDeaths,   \* bound: processes that die
    MaxRecords   \* bound: records in memory

ASSUME PipelineAssumption ==
    /\ Nothing \notin Targets \cup Requests
    /\ Targets \cap Requests = {}
    /\ MaxDeaths \in Nat
    /\ MaxRecords \in Nat

VARIABLES
    started,     \* the run state was saved
    about,       \* request -> the target its packet asks about
    response,    \* request -> its response file
    manifest,    \* the manifest file, request -> entry
    records,     \* findings in episodic memory, in the order of the file
    report,      \* the report file
    proc,        \* process -> its control point and variables
    analyzed,    \* history: targets whose answer was ingested in full
    skipped,     \* history: targets whose local model call failed
    deaths,      \* history: processes that died
    overlapped   \* history: whether two processes ever ran at once

vars == <<started, about, response, manifest, records, report, proc,
          analyzed, skipped, deaths, overlapped>>

(* A manifest entry; a missing or unreadable file has none (_load_manifest). *)
Manifests == [Requests -> {"none", "open", "ingested"}]
NoEntries == [r \in Requests |-> "none"]
Entries(m) == {r \in Requests : m[r] # "none"}

NoResponse  == [state |-> "none", ids |-> {}]
Unparseable == [state |-> "unparseable", ids |-> {}]
Answers == [state : {"parsed"}, ids : SUBSET FindingIds]

(* What an analysis came through: a relay request, or the local model's    *)
(* call on a target.  A record is a finding with its own notes.            *)
Sources == Requests \cup Targets
Records == [source : Sources, id : FindingIds]
TargetOf(source) == IF source \in Targets THEN source ELSE about[source]

Reports == [written : BOOLEAN,
            findings : SUBSET [finding : Records, notes : Records],
            covered : SUBSET Targets]

ProcStates ==
    [pc : {"off", "local", "load", "request", "save requests", "write requests",
           "ingest", "save ingested", "write ingested", "report"},
     manifest : Manifests,
     targets : SUBSET Targets,     \* left to analyse or to ask about
     requests : SUBSET Requests,   \* left to look at
     current : Sources \cup {Nothing},   \* the analysis being written
     ids : SUBSET FindingIds,      \* its findings left to write
     pending : BOOLEAN]            \* whether some request has no answer

Off == [pc |-> "off", manifest |-> NoEntries, targets |-> {}, requests |-> {},
        current |-> Nothing, ids |-> {}, pending |-> FALSE]

TypeOK ==
    /\ started \in BOOLEAN
    /\ about \in [Requests -> Targets \cup {Nothing}]
    /\ response \in [Requests -> {NoResponse, Unparseable} \cup Answers]
    /\ manifest \in Manifests
    /\ records \in Seq(Records)
    /\ report \in Reports
    /\ proc \in [Procs -> ProcStates]
    /\ analyzed \subseteq Targets
    /\ skipped \subseteq Targets
    /\ deaths \in 0..MaxDeaths
    /\ overlapped \in BOOLEAN

Init ==
    /\ started = FALSE
    /\ about = [r \in Requests |-> Nothing]
    /\ response = [r \in Requests |-> NoResponse]
    /\ manifest = NoEntries
    /\ records = <<>>
    /\ report = [written |-> FALSE, findings |-> {}, covered |-> {}]
    /\ proc = [p \in Procs |-> Off]
    /\ analyzed = {}
    /\ skipped = {}
    /\ deaths = 0
    /\ overlapped = FALSE
---------------------------------------------------------------------------
(* Starting, resuming.                                                     *)

Running(p) == proc[p].pc # "off"

(* Process p begins at control point `pc' with the targets it has to do.   *)
Begin(p, pc, targets) ==
    /\ ~Running(p)
    /\ proc' = [proc EXCEPT ![p] = [Off EXCEPT !.pc = pc, !.targets = targets]]
    /\ overlapped' = (overlapped \/ \E q \in Procs \ {p} : Running(q))
    /\ UNCHANGED <<about, response, manifest, records, report, analyzed,
                   skipped, deaths>>

(* The run state is saved before stage 2; a local model is used if there   *)
(* is one, and the relay otherwise.                                        *)
StartAudit(p) ==
    /\ ~started
    /\ started' = TRUE
    /\ \/ Begin(p, "local", Targets)
       \/ Begin(p, "load", {})

Resume(p) ==
    /\ started
    /\ Begin(p, "load", {})
    /\ UNCHANGED started
---------------------------------------------------------------------------
(* Stage 2 with a local model.                                             *)

(* The model answers for target t; an answer without a usable finding,     *)
(* unparsable text included, counts as an analysis that found none.        *)
CallModel(p, t) ==
    /\ proc[p].pc = "local"
    /\ proc[p].current = Nothing
    /\ t \in proc[p].targets
    /\ \E ids \in SUBSET FindingIds :
          proc' = [proc EXCEPT ![p].current = t, ![p].ids = ids]
    /\ UNCHANGED <<started, about, response, manifest, records, report,
                   analyzed, skipped, deaths, overlapped>>

(* ModelUnavailableError: "skipped, not fatal".                            *)
SkipTarget(p, t) ==
    /\ proc[p].pc = "local"
    /\ proc[p].current = Nothing
    /\ t \in proc[p].targets
    /\ proc' = [proc EXCEPT ![p].targets = @ \ {t}]
    /\ skipped' = skipped \cup {t}
    /\ UNCHANGED <<started, about, response, manifest, records, report,
                   analyzed, deaths, overlapped>>

(* memory.write of one finding of the answer at hand, local or relayed.    *)
WriteFinding(p, id) ==
    /\ proc[p].current # Nothing
    /\ id \in proc[p].ids
    /\ Len(records) < MaxRecords
    /\ records' = Append(records, [source |-> proc[p].current, id |-> id])
    /\ proc' = [proc EXCEPT ![p].ids = @ \ {id}]
    /\ UNCHANGED <<started, about, response, manifest, report, analyzed,
                   skipped, deaths, overlapped>>

(* Mistake for TypeOK: the target is cleared before it is noted.           *)
FinishClearedTarget(p) ==
    /\ proc[p].pc = "local"
    /\ proc[p].current # Nothing
    /\ proc[p].ids = {}
    /\ proc' = [proc EXCEPT ![p].targets = @ \ {proc[p].current},
                            ![p].current = Nothing]
    /\ analyzed' = analyzed \cup {proc'[p].current}
    /\ UNCHANGED <<started, about, response, manifest, records, report,
                   skipped, deaths, overlapped>>

FinishTarget(p) ==
    /\ proc[p].pc = "local"
    /\ proc[p].current # Nothing
    /\ proc[p].ids = {}
    /\ analyzed' = analyzed \cup {proc[p].current}
    /\ proc' = [proc EXCEPT ![p].targets = @ \ {proc[p].current},
                            ![p].current = Nothing]
    /\ UNCHANGED <<started, about, response, manifest, records, report,
                   skipped, deaths, overlapped>>

FinishLocal(p) ==
    /\ proc[p].pc = "local"
    /\ proc[p].current = Nothing
    /\ proc[p].targets = {}
    /\ proc' = [proc EXCEPT ![p].pc = "report"]
    /\ UNCHANGED <<started, about, response, manifest, records, report,
                   analyzed, skipped, deaths, overlapped>>
---------------------------------------------------------------------------
(* Stage 2 over the relay.                                                 *)

(* Mistake for RequestsExplained: every run asks about every target.       *)
LoadManifestOnly(p) ==
    /\ proc[p].pc = "load"
    /\ proc' = [proc EXCEPT ![p].pc = "request", ![p].manifest = manifest,
                            ![p].targets = Targets]
    /\ UNCHANGED <<started, about, response, manifest, records, report,
                   analyzed, skipped, deaths, overlapped>>

LoadManifest(p) ==
    /\ proc[p].pc = "load"
    /\ LET alreadyRequested == {about[r] : r \in Entries(manifest)}
       IN  proc' = [proc EXCEPT ![p].pc = "request",
                                ![p].manifest = manifest,
                                ![p].targets = Targets \ alreadyRequested]
    /\ UNCHANGED <<started, about, response, manifest, records, report,
                   analyzed, skipped, deaths, overlapped>>

(* Mistake for NoRequestIsOrphaned: the manifest does not list the request. *)
RequestUnlisted(p, t, r) ==
    /\ proc[p].pc = "request"
    /\ t \in proc[p].targets
    /\ about[r] = Nothing
    /\ about' = [about EXCEPT ![r] = t]
    /\ proc' = [proc EXCEPT ![p].targets = @ \ {t}]
    /\ UNCHANGED <<started, response, manifest, records, report, analyzed,
                   skipped, deaths, overlapped>>

(* request_analysis writes the packet under a fresh id.                    *)
RequestAnalysis(p, t, r) ==
    /\ proc[p].pc = "request"
    /\ t \in proc[p].targets
    /\ about[r] = Nothing
    /\ about' = [about EXCEPT ![r] = t]
    /\ proc' = [proc EXCEPT ![p].manifest[r] = "open",
                            ![p].targets = @ \ {t}]
    /\ UNCHANGED <<started, response, manifest, records, report, analyzed,
                   skipped, deaths, overlapped>>

FinishRequests(p) ==
    /\ proc[p].pc = "request"
    /\ proc[p].targets = {}
    /\ proc' = [proc EXCEPT ![p].pc = "save requests"]
    /\ UNCHANGED <<started, about, response, manifest, records, report,
                   analyzed, skipped, deaths, overlapped>>

(* write_text, first half: opening the file empties it.                    *)
TruncateManifest(p) ==
    /\ proc[p].pc \in {"save requests", "save ingested"}
    /\ manifest' = NoEntries
    /\ proc' = [proc EXCEPT ![p].pc = IF @ = "save requests"
                                      THEN "write requests"
                                      ELSE "write ingested"]
    /\ UNCHANGED <<started, about, response, records, report, analyzed,
                   skipped, deaths, overlapped>>

(* write_text, second half.  Over a file that another process filled in    *)
(* between, the end of a longer text stays behind and nothing can be read. *)
PutManifest(p) ==
    \/ manifest' = proc[p].manifest
    \/ manifest # NoEntries /\ manifest' = NoEntries

(* The first save: the requests filed, ingestion begins.                   *)
SaveRequests(p) ==
    /\ proc[p].pc = "write requests"
    /\ PutManifest(p)
    /\ proc' = [proc EXCEPT
                  ![p].pc = "ingest",
                  ![p].requests = {r \in Requests : proc[p].manifest[r] = "open"}]
    /\ UNCHANGED <<started, about, response, records, report, analyzed,
                   skipped, deaths, overlapped>>

(* Mistake for ImplementsContract: pending tells of the last response only. *)
ReadLastResponse(p, r) ==
    /\ proc[p].pc = "ingest"
    /\ proc[p].current = Nothing
    /\ r \in proc[p].requests
    /\ \/ /\ response[r].state # "parsed"
          /\ proc' = [proc EXCEPT ![p].requests = @ \ {r}, ![p].pending = TRUE]
       \/ /\ response[r].state = "parsed"
          /\ proc' = [proc EXCEPT ![p].current = r, ![p].ids = response[r].ids,
                                  ![p].pending = FALSE]
    /\ UNCHANGED <<started, about, response, manifest, records, report,
                   analyzed, skipped, deaths, overlapped>>

(* ingest_response: no file or no findings block in it means needs_resend. *)
ReadResponse(p, r) ==
    /\ proc[p].pc = "ingest"
    /\ proc[p].current = Nothing
    /\ r \in proc[p].requests
    /\ \/ /\ response[r].state # "parsed"
          /\ proc' = [proc EXCEPT ![p].requests = @ \ {r}, ![p].pending = TRUE]
       \/ /\ response[r].state = "parsed"
          /\ proc' = [proc EXCEPT ![p].current = r, ![p].ids = response[r].ids]
    /\ UNCHANGED <<started, about, response, manifest, records, report,
                   analyzed, skipped, deaths, overlapped>>

(* Mistake for CopiesExplained: the entry is not marked ingested.          *)
FinishUnmarked(p) ==
    /\ proc[p].pc = "ingest"
    /\ proc[p].current # Nothing
    /\ proc[p].ids = {}
    /\ analyzed' = analyzed \cup {about[proc[p].current]}
    /\ proc' = [proc EXCEPT ![p].requests = @ \ {proc[p].current},
                            ![p].current = Nothing]
    /\ UNCHANGED <<started, about, response, manifest, records, report,
                   skipped, deaths, overlapped>>

FinishRequest(p) ==
    /\ proc[p].pc = "ingest"
    /\ proc[p].current # Nothing
    /\ proc[p].ids = {}
    /\ analyzed' = analyzed \cup {about[proc[p].current]}
    /\ proc' = [proc EXCEPT ![p].manifest[proc[p].current] = "ingested",
                            ![p].requests = @ \ {proc[p].current},
                            ![p].current = Nothing]
    /\ UNCHANGED <<started, about, response, manifest, records, report,
                   skipped, deaths, overlapped>>

FinishIngest(p) ==
    /\ proc[p].pc = "ingest"
    /\ proc[p].current = Nothing
    /\ proc[p].requests = {}
    /\ proc' = [proc EXCEPT ![p].pc = "save ingested"]
    /\ UNCHANGED <<started, about, response, manifest, records, report,
                   analyzed, skipped, deaths, overlapped>>

(* Mistake for AnsweredAuditsAreReported: every relayed run pauses.          *)
SaveAndPause(p) ==
    /\ proc[p].pc = "write ingested"
    /\ PutManifest(p)
    /\ proc' = [proc EXCEPT ![p] = Off]
    /\ UNCHANGED <<started, about, response, records, report, analyzed,
                   skipped, deaths, overlapped>>

(* The second save; the audit is paused or goes on to its report.          *)
SaveIngested(p) ==
    /\ proc[p].pc = "write ingested"
    /\ PutManifest(p)
    /\ proc' = [proc EXCEPT ![p] = IF proc[p].pending
                                   THEN Off
                                   ELSE [Off EXCEPT !.pc = "report"]]
    /\ UNCHANGED <<started, about, response, records, report, analyzed,
                   skipped, deaths, overlapped>>
---------------------------------------------------------------------------
(* The report.                                                             *)

(* _finish keys the notes it sets aside by finding_id, so each finding is  *)
(* given those of the last record with its id.                             *)
FindingsWithNotes ==
    LET IsLast(j) == \A k \in DOMAIN records :
                        records[k].id = records[j].id => k <= j
        pairs == {ij \in (DOMAIN records) \X (DOMAIN records) :
                     /\ records[ij[1]].id = records[ij[2]].id
                     /\ IsLast(ij[2])}
    IN  {[finding |-> records[ij[1]], notes |-> records[ij[2]]] : ij \in pairs}

(* generate_report lists every planned target under "Analyzed".            *)
WriteReport(p) ==
    /\ proc[p].pc = "report"
    /\ report' = [written |-> TRUE, findings |-> FindingsWithNotes,
                  covered |-> Targets]
    /\ proc' = [proc EXCEPT ![p] = Off]
    /\ UNCHANGED <<started, about, response, manifest, records, analyzed,
                   skipped, deaths, overlapped>>
---------------------------------------------------------------------------
(* The environment.                                                        *)

(* A process is killed, or an exception (an unreadable source file, a full *)
(* disk) ends it: nothing is cleaned up.                                   *)
Die(p) ==
    /\ Running(p)
    /\ deaths < MaxDeaths
    /\ deaths' = deaths + 1
    /\ proc' = [proc EXCEPT ![p] = Off]
    /\ UNCHANGED <<started, about, response, manifest, records, report,
                   analyzed, skipped, overlapped>>

(* `sr-agent relay --respond` saves whatever the human brought, usable or  *)
(* not, over an earlier answer too.                                        *)
Respond(r, answer) ==
    /\ about[r] # Nothing
    /\ response' = [response EXCEPT ![r] = answer]
    /\ UNCHANGED <<started, about, manifest, records, report, proc, analyzed,
                   skipped, deaths, overlapped>>
---------------------------------------------------------------------------
Step(p) ==
    \/ \E t \in Targets : CallModel(p, t) \/ SkipTarget(p, t)
    \/ \E id \in FindingIds : WriteFinding(p, id)
    \/ FinishTarget(p)
    \/ FinishLocal(p)
    \/ LoadManifest(p)
    \/ \E t \in Targets, r \in Requests : RequestAnalysis(p, t, r)
    \/ FinishRequests(p)
    \/ TruncateManifest(p)
    \/ SaveRequests(p)
    \/ \E r \in Requests : ReadResponse(p, r)
    \/ FinishRequest(p)
    \/ FinishIngest(p)
    \/ SaveIngested(p)
    \/ WriteReport(p)

Next ==
    \/ \E p \in Procs : StartAudit(p) \/ Resume(p) \/ Step(p) \/ Die(p)
    \/ \E r \in Requests, answer \in {Unparseable} \cup Answers : Respond(r, answer)

Spec == Init /\ [][Next]_vars

(* A process that runs goes on, and the operator keeps resuming.           *)
FairSpec ==
    /\ Spec
    /\ \A p \in Procs : WF_vars(Step(p))
    /\ WF_vars(\E p \in Procs : Resume(p))
---------------------------------------------------------------------------
(* "Safe to call repeatedly (resume)" (stage2.py): as long as processes do *)
(* not overlap, a finding of an answer is written once, and once more for  *)
(* each process that died; resuming alone never writes it again.           *)
CopiesExplained ==
    ~overlapped =>
        \A rec \in Records :
            Cardinality({i \in DOMAIN records : records[i] = rec}) <= 1 + deaths

(* Likewise a target is asked about once, and once more for each death.    *)
RequestsExplained ==
    ~overlapped =>
        \A t \in Targets : Cardinality({r \in Requests : about[r] = t}) <= 1 + deaths

(* Without deaths and overlaps, an audit at rest knows every request it    *)
(* ever filed, so no answer the human brings is lost.                      *)
NoRequestIsOrphaned ==
    ~overlapped /\ deaths = 0 /\ (\A p \in Procs : ~Running(p)) =>
        \A r \in Requests : about[r] # Nothing => r \in Entries(manifest)

(* The report waits for every target, overlapping and dying processes      *)
(* included: it implements AuditContract.                                  *)
Contract == INSTANCE AuditContract
              WITH handled <- analyzed \cup skipped, reported <- report.written
ImplementsContract == Contract!Spec

(* If resumes never overlap and from some time on every request on file    *)
(* has a usable answer, the report is written.                             *)
EveryRequestIsAnswered ==
    \A r \in Requests : about[r] # Nothing => response[r].state = "parsed"
AnsweredAuditsAreReported ==
    []~overlapped /\ <>[](started /\ EveryRequestIsAnswered) => <>report.written

(* "so the report can show why the finding matters" (stage2.py): the notes *)
(* printed with a finding belong to an analysis of its own target.         *)
ReportedNotesAreOwn ==
    \A f \in report.findings : TargetOf(f.notes.source) = TargetOf(f.finding.source)

(* The targets the report lists as "Analyzed" were analysed.               *)
CoverageIsHonest == report.covered \subseteq analyzed
============================================================================
