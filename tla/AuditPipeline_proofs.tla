------------------------ MODULE AuditPipeline_proofs ------------------------
(***************************************************************************)
(* Proofs about AuditPipeline for any number of processes, targets,        *)
(* requests and deaths: whatever overlaps and whatever dies, the report    *)
(* waits for every target; and as long as nothing overlaps, findings are   *)
(* written, and targets asked about, at most once more per death.          *)
(***************************************************************************)
EXTENDS AuditPipeline, FiniteSetTheorems, TLAPS

(* A manifest, on disk or in a process, lists requests that were filed,    *)
(* and calls ingested only what was.  It may well have lost entries.       *)
ManifestOK(m) ==
    \A r \in Requests :
        /\ m[r] # "none" => about[r] \in Targets
        /\ m[r] = "ingested" => about[r] \in analyzed

AsksAbout(m, t) == \E r \in Requests : m[r] # "none" /\ about[r] = t

RelayPoints == {"save requests", "write requests", "ingest", "save ingested",
                "write ingested"}

(* The analysis at hand is one the process has to do.                      *)
CurrentOK(p) ==
    proc[p].current # Nothing =>
        \/ proc[p].pc = "local" /\ proc[p].current \in Targets
        \/ proc[p].pc = "ingest" /\ proc[p].current \in proc[p].requests

(* No target is forgotten on the way to the report.                        *)
LocalOK(p) ==
    proc[p].pc = "local" =>
        \A t \in Targets : t \in proc[p].targets \cup analyzed \cup skipped

AskedOK(p) ==
    /\ proc[p].pc = "request" =>
          \A t \in Targets : t \in proc[p].targets \/ AsksAbout(proc[p].manifest, t)
    /\ proc[p].pc \in RelayPoints =>
          \A t \in Targets : AsksAbout(proc[p].manifest, t)

IngestOK(p) ==
    /\ proc[p].pc = "ingest" =>
          \A r \in Requests :
              /\ r \in proc[p].requests => proc[p].manifest[r] = "open"
              /\ proc[p].manifest[r] = "open" => proc[p].pending \/ r \in proc[p].requests
    /\ proc[p].pc \in {"save ingested", "write ingested"} =>
          \A r \in Requests : proc[p].manifest[r] = "open" => proc[p].pending

ReportOK(p) ==
    proc[p].pc = "report" => Targets \subseteq analyzed \cup skipped

ProcInv(p) ==
    /\ ManifestOK(proc[p].manifest)
    /\ CurrentOK(p)
    /\ LocalOK(p)
    /\ AskedOK(p)
    /\ IngestOK(p)
    /\ ReportOK(p)

IInv ==
    /\ TypeOK
    /\ ManifestOK(manifest)
    /\ \A p \in Procs : ProcInv(p)

-----------------------------------------------------------------------------
LEMMA OffInv ==
    ASSUME NEW p \in Procs, proc[p] = Off
    PROVE  ProcInv(p)
BY DEF ProcInv, ManifestOK, CurrentOK, LocalOK, AskedOK, IngestOK, ReportOK, Off,
       NoEntries, RelayPoints

LEMMA InitInv == Init => IInv
<1> SUFFICES ASSUME Init PROVE IInv
  OBVIOUS
<1>1. NoEntries \in Manifests /\ Off \in ProcStates
  BY DEF NoEntries, Manifests, Off, ProcStates
<1>2. TypeOK
  <2>1. report \in Reports
    BY DEF Init, Reports
  <2>2. records \in Seq(Records)
    BY DEF Init
  <2>3. deaths \in 0..MaxDeaths
    BY PipelineAssumption DEF Init
  <2>4. QED
    BY <1>1, <2>1, <2>2, <2>3 DEF Init, TypeOK
<1>3. ManifestOK(manifest)
  BY DEF Init, ManifestOK, NoEntries
<1>4. ASSUME NEW p \in Procs PROVE ProcInv(p)
  BY OffInv DEF Init
<1>5. QED
  BY <1>2, <1>3, <1>4 DEF IInv

-----------------------------------------------------------------------------
(* History only grows: packets are not refiled, and what was analysed or   *)
(* skipped stays so.                                                       *)
Grows ==
    /\ \A r \in Requests : about[r] \in Targets => about'[r] = about[r]
    /\ analyzed \subseteq analyzed'
    /\ skipped \subseteq skipped'

LEMMA NextGrows ==
    ASSUME TypeOK, [Next]_vars
    PROVE  Grows
<1>1. CASE UNCHANGED vars
  BY <1>1 DEF vars, Grows
<1>2. ASSUME NEW p \in Procs, StartAudit(p) \/ Resume(p) \/ Die(p)
      PROVE  Grows
  BY <1>2 DEF StartAudit, Resume, Begin, Die, Grows
<1>3. ASSUME NEW r \in Requests, NEW answer, Respond(r, answer)
      PROVE  Grows
  BY <1>3 DEF Respond, Grows
<1>4. ASSUME NEW p \in Procs, NEW t \in Targets, NEW r \in Requests, RequestAnalysis(p, t, r)
      PROVE  Grows
  BY <1>4, PipelineAssumption DEF RequestAnalysis, Grows, TypeOK
<1>5. ASSUME NEW p \in Procs, Step(p),
             ~ \E t \in Targets, r \in Requests : RequestAnalysis(p, t, r)
      PROVE  Grows
  BY <1>5 DEF Step, CallModel, SkipTarget, WriteFinding, FinishTarget, FinishLocal,
              LoadManifest, FinishRequests, TruncateManifest, SaveRequests, ReadResponse,
              FinishRequest, FinishIngest, SaveIngested, WriteReport, Grows
<1>6. QED
  BY <1>1, <1>2, <1>3, <1>4, <1>5 DEF Next

(* So a manifest that was right stays right, and a process that does not   *)
(* move keeps its invariant.                                               *)
LEMMA ManifestStaysOK ==
    ASSUME NEW m \in Manifests, ManifestOK(m), Grows
    PROVE  ManifestOK(m)'
BY DEF ManifestOK, Grows

LEMMA OwnManifestStaysOK ==
    ASSUME TypeOK, NEW p \in Procs, ManifestOK(proc[p].manifest), Grows,
           proc'[p].manifest = proc[p].manifest
    PROVE  ManifestOK(proc[p].manifest)'
<1>1. proc[p].manifest \in Manifests
  BY DEF TypeOK, ProcStates
<1>2. QED
  BY <1>1, ManifestStaysOK DEF ManifestOK

LEMMA AsksStillAbout ==
    ASSUME NEW m \in Manifests, NEW t \in Targets, AsksAbout(m, t), Grows
    PROVE  AsksAbout(m, t)'
BY DEF AsksAbout, Grows

LEMMA FrameInv ==
    ASSUME TypeOK, NEW q \in Procs, ProcInv(q), proc'[q] = proc[q], Grows
    PROVE  ProcInv(q)'
<1>1. proc[q].manifest \in Manifests
  BY DEF TypeOK, ProcStates
<1>2. ManifestOK(proc[q].manifest)'
  BY <1>1, ManifestStaysOK DEF ProcInv, ManifestOK
<1>3. CurrentOK(q)' /\ IngestOK(q)'
  BY DEF ProcInv, CurrentOK, IngestOK
<1>4. LocalOK(q)' /\ ReportOK(q)'
  BY DEF ProcInv, LocalOK, ReportOK, Grows
<1>5. AskedOK(q)'
  BY <1>1, AsksStillAbout DEF ProcInv, AskedOK, AsksAbout
<1>6. QED
  BY <1>2, <1>3, <1>4, <1>5 DEF ProcInv

-----------------------------------------------------------------------------
(* Types.                                                                  *)
LEMMA FindingsType ==
    ASSUME TypeOK
    PROVE  FindingsWithNotes \subseteq [finding : Records, notes : Records]
<1>1. \A i \in DOMAIN records : records[i] \in Records
  BY DEF TypeOK
<1>2. QED
  BY <1>1 DEF FindingsWithNotes

LEMMA StepKeepsType ==
    ASSUME IInv, NEW p \in Procs, Step(p)
    PROVE  TypeOK'
<1> TypeOK
  BY DEF IInv
<1> DEFINE P == proc[p]
<1> USE DEF TypeOK
<1>0. /\ proc \in [Procs -> ProcStates]
      /\ P \in ProcStates
      /\ Off \in ProcStates
  BY DEF Off, ProcStates, NoEntries, Manifests
<1>1. ASSUME NEW t \in Targets, CallModel(p, t)
      PROVE  TypeOK'
  <2>1. PICK ids \in SUBSET FindingIds :
           proc' = [proc EXCEPT ![p].current = t, ![p].ids = ids]
    BY <1>1 DEF CallModel
  <2>2. proc' \in [Procs -> ProcStates]
    BY <1>0, <2>1 DEF ProcStates, Sources
  <2>3. QED
    BY <1>1, <2>2 DEF CallModel
<1>2. ASSUME NEW t \in Targets, SkipTarget(p, t)
      PROVE  TypeOK'
  <2>1. proc' \in [Procs -> ProcStates]
    BY <1>0, <1>2 DEF SkipTarget, ProcStates
  <2>2. QED
    BY <1>2, <2>1 DEF SkipTarget
<1>3. ASSUME NEW id \in FindingIds, WriteFinding(p, id)
      PROVE  TypeOK'
  <2>1. proc' \in [Procs -> ProcStates]
    BY <1>0, <1>3 DEF WriteFinding, ProcStates
  <2>2. [source |-> P.current, id |-> id] \in Records
    BY <1>0, <1>3 DEF WriteFinding, ProcStates, Records
  <2>3. records' \in Seq(Records)
    BY <1>3, <2>2 DEF WriteFinding
  <2>4. QED
    BY <1>3, <2>1, <2>3 DEF WriteFinding
<1>4. CASE FinishTarget(p)
  <2>1. P.current \in Targets
    BY <1>4 DEF FinishTarget, IInv, ProcInv, CurrentOK
  <2>2. proc' \in [Procs -> ProcStates]
    BY <1>0, <1>4 DEF FinishTarget, ProcStates
  <2>3. QED
    BY <1>4, <2>1, <2>2 DEF FinishTarget
<1>5. CASE FinishLocal(p)
  <2>1. proc' \in [Procs -> ProcStates]
    BY <1>0, <1>5 DEF FinishLocal, ProcStates
  <2>2. QED
    BY <1>5, <2>1 DEF FinishLocal
<1>6. CASE LoadManifest(p)
  <2>1. proc' \in [Procs -> ProcStates]
    BY <1>0, <1>6 DEF LoadManifest, ProcStates
  <2>2. QED
    BY <1>6, <2>1 DEF LoadManifest
<1>7. ASSUME NEW t \in Targets, NEW r \in Requests, RequestAnalysis(p, t, r)
      PROVE  TypeOK'
  <2>1. [P.manifest EXCEPT ![r] = "open"] \in Manifests
    BY <1>0 DEF ProcStates, Manifests
  <2>2. proc' \in [Procs -> ProcStates]
    BY <1>0, <1>7, <2>1 DEF RequestAnalysis, ProcStates
  <2>3. QED
    BY <1>7, <2>2 DEF RequestAnalysis
<1>8. CASE FinishRequests(p)
  <2>1. proc' \in [Procs -> ProcStates]
    BY <1>0, <1>8 DEF FinishRequests, ProcStates
  <2>2. QED
    BY <1>8, <2>1 DEF FinishRequests
<1>9. CASE TruncateManifest(p)
  <2>1. proc' \in [Procs -> ProcStates]
    BY <1>0, <1>9 DEF TruncateManifest, ProcStates
  <2>2. QED
    BY <1>9, <2>1 DEF TruncateManifest, NoEntries, Manifests
<1>10. PutManifest(p) => manifest' \in Manifests
  BY <1>0 DEF PutManifest, ProcStates, NoEntries, Manifests
<1>11. CASE SaveRequests(p)
  <2>1. proc' \in [Procs -> ProcStates]
    BY <1>0, <1>11 DEF SaveRequests, ProcStates
  <2>2. QED
    BY <1>10, <1>11, <2>1 DEF SaveRequests
<1>12. ASSUME NEW r \in Requests, ReadResponse(p, r)
       PROVE  TypeOK'
  <2>1. response[r].state = "parsed" => response[r].ids \in SUBSET FindingIds
    BY DEF NoResponse, Unparseable, Answers
  <2> DEFINE asked == [P EXCEPT !.requests = @ \ {r}, !.pending = TRUE]
             read  == [P EXCEPT !.current = r, !.ids = response[r].ids]
  <2>4. asked \in ProcStates
    BY <1>0 DEF ProcStates
  <2>5. response[r].state = "parsed" => read \in ProcStates
    BY <1>0, <2>1 DEF ProcStates, Sources
  <2>6. \/ proc' = [proc EXCEPT ![p] = asked]
        \/ response[r].state = "parsed" /\ proc' = [proc EXCEPT ![p] = read]
    BY <1>0, <1>12 DEF ReadResponse
  <2>2. proc' \in [Procs -> ProcStates]
    <3> HIDE DEF asked, read
    <3> QED
      BY <1>0, <2>4, <2>5, <2>6
  <2>3. QED
    BY <1>12, <2>2 DEF ReadResponse
<1>13. CASE FinishRequest(p)
  <2>1. P.current \in P.requests /\ P.current \in Requests
    BY <1>0, <1>13 DEF FinishRequest, IInv, ProcInv, CurrentOK, ProcStates
  <2>2. about[P.current] \in Targets
    BY <1>13, <2>1 DEF FinishRequest, IInv, ProcInv, IngestOK, ManifestOK
  <2>3. [P.manifest EXCEPT ![P.current] = "ingested"] \in Manifests
    BY <1>0 DEF ProcStates, Manifests
  <2>4. proc' \in [Procs -> ProcStates]
    BY <1>0, <1>13, <2>3 DEF FinishRequest, ProcStates
  <2>5. QED
    BY <1>13, <2>2, <2>4 DEF FinishRequest
<1>14. CASE FinishIngest(p)
  <2>1. proc' \in [Procs -> ProcStates]
    BY <1>0, <1>14 DEF FinishIngest, ProcStates
  <2>2. QED
    BY <1>14, <2>1 DEF FinishIngest
<1>15. CASE SaveIngested(p)
  <2>1. [Off EXCEPT !.pc = "report"] \in ProcStates
    BY <1>0 DEF ProcStates
  <2>2. proc' \in [Procs -> ProcStates]
    BY <1>0, <1>15, <2>1 DEF SaveIngested
  <2>3. QED
    BY <1>10, <1>15, <2>2 DEF SaveIngested
<1>16. CASE WriteReport(p)
  <2>1. report' \in Reports
    BY <1>16, FindingsType DEF WriteReport, Reports
  <2>2. QED
    BY <1>0, <1>16, <2>1 DEF WriteReport
<1>17. QED
  BY <1>1, <1>2, <1>3, <1>4, <1>5, <1>6, <1>7, <1>8, <1>9, <1>11, <1>12,
     <1>13, <1>14, <1>15, <1>16 DEF Step

-----------------------------------------------------------------------------
(* A process that moves keeps its invariant.                               *)
LEMMA LocalStepKeepsInv ==
    ASSUME IInv, Grows, TypeOK', NEW p \in Procs,
           \/ \E t \in Targets : CallModel(p, t) \/ SkipTarget(p, t)
           \/ FinishTarget(p)
           \/ FinishLocal(p)
           \/ WriteReport(p)
    PROVE  ProcInv(p)'
<1>0. /\ proc \in [Procs -> ProcStates] /\ proc[p] \in ProcStates
      /\ ManifestOK(proc[p].manifest) /\ proc[p].manifest \in Manifests
      /\ CurrentOK(p) /\ LocalOK(p)
  BY DEF IInv, TypeOK, ProcInv, ProcStates
<1>1. proc'[p].manifest = proc[p].manifest => ManifestOK(proc[p].manifest)'
  BY <1>0, OwnManifestStaysOK DEF IInv
<1>3. ASSUME NEW t \in Targets, CallModel(p, t)
      PROVE  ProcInv(p)'
  <2>1. PICK ids \in SUBSET FindingIds :
           proc' = [proc EXCEPT ![p].current = t, ![p].ids = ids]
    BY <1>3 DEF CallModel
  <2>2. /\ proc'[p].pc = "local" /\ proc'[p].current = t
        /\ proc'[p].targets = proc[p].targets
        /\ proc'[p].manifest = proc[p].manifest
    BY <1>0, <1>3, <2>1 DEF CallModel, ProcStates
  <2>3. LocalOK(p)'
    BY <1>0, <1>3, <2>2 DEF CallModel, LocalOK, Grows
  <2>4. QED
    BY <1>1, <1>3, <2>2, <2>3
       DEF CallModel, ProcInv, CurrentOK, AskedOK, IngestOK, ReportOK, RelayPoints
<1>4. ASSUME NEW t \in Targets, SkipTarget(p, t)
      PROVE  ProcInv(p)'
  <2>1. /\ proc'[p].pc = "local" /\ proc'[p].current = Nothing
        /\ proc'[p].targets = proc[p].targets \ {t}
        /\ t \in skipped' /\ proc'[p].manifest = proc[p].manifest
    BY <1>0, <1>4 DEF SkipTarget, ProcStates
  <2>2. LocalOK(p)'
    BY <1>0, <1>4, <2>1 DEF SkipTarget, LocalOK, Grows
  <2>3. QED
    BY <1>1, <1>4, <2>1, <2>2
       DEF SkipTarget, ProcInv, CurrentOK, AskedOK, IngestOK, ReportOK, RelayPoints
<1>5. CASE FinishTarget(p)
  <2>1. /\ proc'[p].pc = "local" /\ proc'[p].current = Nothing
        /\ proc'[p].targets = proc[p].targets \ {proc[p].current}
        /\ proc[p].current \in analyzed' /\ proc'[p].manifest = proc[p].manifest
    BY <1>0, <1>5 DEF FinishTarget, ProcStates
  <2>2. LocalOK(p)'
    BY <1>0, <1>5, <2>1 DEF FinishTarget, LocalOK, Grows
  <2>3. QED
    BY <1>1, <1>5, <2>1, <2>2
       DEF FinishTarget, ProcInv, CurrentOK, AskedOK, IngestOK, ReportOK, RelayPoints
<1>6. CASE FinishLocal(p)
  <2>1. /\ proc'[p].pc = "report" /\ proc'[p].current = Nothing
        /\ proc'[p].manifest = proc[p].manifest
    BY <1>0, <1>6 DEF FinishLocal, ProcStates
  <2>2. ReportOK(p)'
    BY <1>0, <1>6 DEF FinishLocal, LocalOK, ReportOK, Grows
  <2>3. QED
    BY <1>1, <1>6, <2>1, <2>2
       DEF FinishLocal, ProcInv, CurrentOK, LocalOK, AskedOK, IngestOK, RelayPoints
<1>7. CASE WriteReport(p)
  <2>1. proc'[p] = Off
    BY <1>0, <1>7 DEF WriteReport
  <2>2. QED
    BY <2>1 DEF ProcInv, ManifestOK, CurrentOK, LocalOK, AskedOK, IngestOK, ReportOK, Off,
                NoEntries, RelayPoints
<1>8. QED
  BY <1>3, <1>4, <1>5, <1>6, <1>7

(* Asking: the requests listed and those still to file cover the targets.  *)
LEMMA AskStepKeepsInv ==
    ASSUME IInv, Grows, TypeOK', NEW p \in Procs,
           \/ LoadManifest(p)
           \/ \E t \in Targets, r \in Requests : RequestAnalysis(p, t, r)
           \/ FinishRequests(p)
    PROVE  ProcInv(p)'
<1>0. /\ proc \in [Procs -> ProcStates] /\ proc[p] \in ProcStates
      /\ manifest \in Manifests /\ proc[p].manifest \in Manifests
      /\ ManifestOK(manifest) /\ ManifestOK(proc[p].manifest)
      /\ CurrentOK(p) /\ AskedOK(p)
      /\ about \in [Requests -> Targets \cup {Nothing}]
  BY DEF IInv, TypeOK, ProcInv, ProcStates
<1>1. CASE LoadManifest(p)
  <2>1. /\ proc'[p].pc = "request" /\ proc'[p].current = Nothing
        /\ proc'[p].manifest = manifest
        /\ proc'[p].targets = Targets \ {about[r] : r \in Entries(manifest)}
    BY <1>0, <1>1 DEF LoadManifest, ProcStates, CurrentOK
  <2>2. ManifestOK(proc[p].manifest)'
    BY <1>0, <2>1, ManifestStaysOK DEF ManifestOK
  <2>3. about' = about
    BY <1>1 DEF LoadManifest
  <2>4. AskedOK(p)'
    BY <2>1, <2>3 DEF AskedOK, AsksAbout, Entries, RelayPoints
  <2>5. QED
    BY <2>1, <2>2, <2>4 DEF ProcInv, CurrentOK, LocalOK, IngestOK, ReportOK
<1>2. ASSUME NEW t \in Targets, NEW r \in Requests, RequestAnalysis(p, t, r)
      PROVE  ProcInv(p)'
  <2>1. /\ proc'[p].pc = "request" /\ proc'[p].current = Nothing
        /\ proc'[p].manifest = [proc[p].manifest EXCEPT ![r] = "open"]
        /\ proc'[p].targets = proc[p].targets \ {t}
    BY <1>0, <1>2 DEF RequestAnalysis, ProcStates, CurrentOK
  <2>2. about' = [about EXCEPT ![r] = t] /\ analyzed' = analyzed
    BY <1>2 DEF RequestAnalysis
  <2>3. ManifestOK(proc[p].manifest)'
    BY <1>0, <2>1, <2>2 DEF ManifestOK, Manifests
  <2>4. proc[p].manifest[r] = "none"
    BY <1>0, <1>2, PipelineAssumption DEF RequestAnalysis, ManifestOK
  <2>5. ASSUME NEW u \in Targets
        PROVE  u \in proc'[p].targets \/ AsksAbout(proc[p].manifest, u)'
    <3>1. CASE u = t
      BY <1>0, <2>1, <2>2, <3>1 DEF AsksAbout, Manifests
    <3>2. CASE u \in proc[p].targets /\ u # t
      BY <2>1, <3>2
    <3>3. CASE AsksAbout(proc[p].manifest, u)
      BY <1>0, <2>1, <2>2, <2>4, <3>3 DEF AsksAbout, Manifests
    <3>4. QED
      BY <1>0, <1>2, <3>1, <3>2, <3>3 DEF AskedOK, RequestAnalysis
  <2>6. AskedOK(p)'
    BY <2>1, <2>5 DEF AskedOK, RelayPoints
  <2>7. QED
    BY <2>1, <2>3, <2>6 DEF ProcInv, CurrentOK, LocalOK, IngestOK, ReportOK
<1>3. CASE FinishRequests(p)
  <2>1. /\ proc'[p].pc = "save requests" /\ proc'[p].current = Nothing
        /\ proc'[p].manifest = proc[p].manifest
    BY <1>0, <1>3 DEF FinishRequests, ProcStates, CurrentOK
  <2>2. ManifestOK(proc[p].manifest)'
    BY <1>0, <2>1, ManifestStaysOK DEF ManifestOK
  <2>3. about' = about
    BY <1>3 DEF FinishRequests
  <2>4. AskedOK(p)'
    <3>1. ASSUME NEW t \in Targets PROVE AsksAbout(proc[p].manifest, t)
      BY <1>0, <1>3 DEF FinishRequests, AskedOK
    <3>2. QED
      BY <2>1, <2>3, <3>1 DEF AskedOK, AsksAbout
  <2>5. QED
    BY <2>1, <2>2, <2>4 DEF ProcInv, CurrentOK, LocalOK, IngestOK, ReportOK
<1>4. QED
  BY <1>1, <1>2, <1>3

(* The relay's saves and its ingestion: what is open stays to be looked at *)
(* until it is ingested or found pending.                                  *)
LEMMA RelayStepKeepsInv ==
    ASSUME IInv, Grows, TypeOK', NEW p \in Procs,
           \/ TruncateManifest(p)
           \/ SaveRequests(p)
           \/ \E r \in Requests : ReadResponse(p, r)
           \/ FinishRequest(p)
           \/ FinishIngest(p)
    PROVE  ProcInv(p)'
<1>0. /\ proc \in [Procs -> ProcStates] /\ proc[p] \in ProcStates
      /\ proc[p].manifest \in Manifests /\ ManifestOK(proc[p].manifest)
      /\ CurrentOK(p) /\ AskedOK(p) /\ IngestOK(p)
      /\ about' = about
  BY DEF IInv, TypeOK, ProcInv, ProcStates, TruncateManifest, SaveRequests, ReadResponse,
         FinishRequest, FinishIngest
<1>1. proc'[p].manifest = proc[p].manifest => ManifestOK(proc[p].manifest)'
  BY <1>0, OwnManifestStaysOK DEF IInv
<1>2. proc[p].pc \in RelayPoints /\ proc'[p].pc \in RelayPoints
        /\ proc'[p].manifest = proc[p].manifest => AskedOK(p)'
  BY <1>0 DEF AskedOK, AsksAbout, RelayPoints
<1>3. CASE TruncateManifest(p)
  <2>1. /\ \/ proc[p].pc = "save requests" /\ proc'[p].pc = "write requests"
           \/ proc[p].pc = "save ingested" /\ proc'[p].pc = "write ingested"
        /\ proc'[p].current = Nothing /\ proc'[p].manifest = proc[p].manifest
        /\ proc'[p].pending = proc[p].pending
    BY <1>0, <1>3 DEF TruncateManifest, ProcStates, CurrentOK
  <2>2. AskedOK(p)'
    BY <1>2, <1>3, <2>1 DEF TruncateManifest, RelayPoints
  <2>3. IngestOK(p)'
    BY <1>0, <1>3, <2>1 DEF TruncateManifest, IngestOK
  <2>4. QED
    BY <1>0, <1>1, <1>3, <2>1, <2>2, <2>3
       DEF TruncateManifest, ProcInv, CurrentOK, LocalOK, ReportOK
<1>4. CASE SaveRequests(p)
  <2>1. /\ proc'[p].pc = "ingest"
        /\ proc'[p].current = Nothing /\ proc'[p].manifest = proc[p].manifest
        /\ proc'[p].requests = {r \in Requests : proc[p].manifest[r] = "open"}
    BY <1>0, <1>4 DEF SaveRequests, ProcStates, CurrentOK
  <2>2. AskedOK(p)'
    BY <1>2, <1>4, <2>1 DEF SaveRequests, RelayPoints
  <2>3. QED
    BY <1>0, <1>1, <2>1, <2>2 DEF ProcInv, CurrentOK, LocalOK, IngestOK, ReportOK
<1>5. ASSUME NEW r \in Requests, ReadResponse(p, r)
      PROVE  ProcInv(p)'
  <2> DEFINE asked == [proc[p] EXCEPT !.requests = @ \ {r}, !.pending = TRUE]
             read  == [proc[p] EXCEPT !.current = r, !.ids = response[r].ids]
  <2>0. /\ proc[p].pc = "ingest" /\ proc[p].current = Nothing /\ r \in proc[p].requests
        /\ proc'[p] = asked \/ proc'[p] = read
    BY <1>0, <1>5 DEF ReadResponse
  <2>1. /\ proc[p].pc = "ingest" /\ proc'[p].pc = "ingest"
        /\ proc'[p].manifest = proc[p].manifest
    BY <1>0, <2>0 DEF ProcStates
  <2>2. CurrentOK(p)' /\ IngestOK(p)'
    <3>1. \/ /\ proc'[p].requests = proc[p].requests \ {r}
             /\ proc'[p].pending = TRUE /\ proc'[p].current = Nothing
          \/ /\ proc'[p].requests = proc[p].requests
             /\ proc'[p].pending = proc[p].pending /\ proc'[p].current = r
      BY <1>0, <2>0 DEF ProcStates
    <3>2. QED
      BY <1>0, <2>0, <2>1, <3>1 DEF CurrentOK, IngestOK
  <2>3. AskedOK(p)'
    BY <1>2, <2>1 DEF RelayPoints
  <2>4. QED
    BY <1>0, <1>1, <2>1, <2>2, <2>3 DEF ProcInv, LocalOK, ReportOK
<1>6. CASE FinishRequest(p)
  <2> DEFINE r == proc[p].current
  <2>1. /\ proc[p].pc = "ingest" /\ r \in proc[p].requests /\ r \in Requests
        /\ proc[p].manifest[r] = "open"
    BY <1>0, <1>6 DEF FinishRequest, CurrentOK, IngestOK, ProcStates
  <2>2. /\ proc'[p].pc = "ingest" /\ proc'[p].current = Nothing
        /\ proc'[p].manifest = [proc[p].manifest EXCEPT ![r] = "ingested"]
        /\ proc'[p].requests = proc[p].requests \ {r}
        /\ proc'[p].pending = proc[p].pending
    BY <1>0, <1>6, <2>1 DEF FinishRequest, ProcStates
  <2>3. analyzed' = analyzed \cup {about[r]}
    BY <1>6 DEF FinishRequest
  <2>4. ManifestOK(proc[p].manifest)'
    BY <1>0, <2>1, <2>2, <2>3 DEF ManifestOK, Manifests
  <2>5. IngestOK(p)'
    BY <1>0, <2>1, <2>2 DEF IngestOK, Manifests
  <2>6. AskedOK(p)'
    BY <1>0, <2>1, <2>2 DEF AskedOK, AsksAbout, RelayPoints, Manifests
  <2>7. QED
    BY <2>2, <2>4, <2>5, <2>6 DEF ProcInv, CurrentOK, LocalOK, ReportOK
<1>7. CASE FinishIngest(p)
  <2>1. /\ proc'[p].pc = "save ingested"
        /\ proc'[p].current = Nothing /\ proc'[p].manifest = proc[p].manifest
        /\ proc'[p].pending = proc[p].pending
    BY <1>0, <1>7 DEF FinishIngest, ProcStates
  <2>2. AskedOK(p)'
    BY <1>2, <1>7, <2>1 DEF FinishIngest, RelayPoints
  <2>3. IngestOK(p)'
    BY <1>0, <1>7, <2>1 DEF FinishIngest, IngestOK
  <2>4. QED
    BY <1>0, <1>1, <2>1, <2>2, <2>3 DEF ProcInv, CurrentOK, LocalOK, ReportOK
<1>8. QED
  BY <1>3, <1>4, <1>5, <1>6, <1>7

(* The second save: either some request is pending and the process stops,  *)
(* or every target was asked about and every request ingested.             *)
LEMMA SaveIngestedKeepsInv ==
    ASSUME IInv, Grows, NEW p \in Procs, SaveIngested(p)
    PROVE  ProcInv(p)'
<1>0. /\ proc \in [Procs -> ProcStates] /\ proc[p].manifest \in Manifests
      /\ ManifestOK(proc[p].manifest) /\ AskedOK(p) /\ IngestOK(p)
      /\ proc[p].pc = "write ingested" /\ analyzed' = analyzed
  BY DEF IInv, TypeOK, ProcInv, ProcStates, SaveIngested
<1>1. CASE proc[p].pending
  <2>1. proc'[p] = Off
    BY <1>0, <1>1 DEF SaveIngested
  <2>2. QED
    BY <2>1 DEF ProcInv, ManifestOK, CurrentOK, LocalOK, AskedOK, IngestOK, ReportOK, Off,
                NoEntries, RelayPoints
<1>2. CASE ~proc[p].pending
  <2>1. proc'[p] = [Off EXCEPT !.pc = "report"]
    BY <1>0, <1>2 DEF SaveIngested
  <2>2. Targets \subseteq analyzed
    <3>1. ASSUME NEW t \in Targets PROVE t \in analyzed
      <4>1. PICK r \in Requests : proc[p].manifest[r] # "none" /\ about[r] = t
        BY <1>0 DEF AskedOK, AsksAbout, RelayPoints
      <4>2. proc[p].manifest[r] = "ingested"
        BY <1>0, <1>2, <4>1 DEF IngestOK, Manifests
      <4>3. QED
        BY <1>0, <4>1, <4>2 DEF ManifestOK
    <3>2. QED
      BY <3>1
  <2>3. ReportOK(p)'
    BY <1>0, <2>2 DEF ReportOK, SaveIngested
  <2>4. QED
    BY <2>1, <2>3 DEF ProcInv, ManifestOK, CurrentOK, LocalOK, AskedOK, IngestOK, Off,
                      NoEntries, RelayPoints
<1>3. QED
  BY <1>1, <1>2

(* memory.write moves nothing but the findings left to write.              *)
LEMMA WriteFindingKeepsInv ==
    ASSUME IInv, Grows, NEW p \in Procs, NEW id \in FindingIds, WriteFinding(p, id)
    PROVE  ProcInv(p)'
<1>0. /\ proc \in [Procs -> ProcStates] /\ ProcInv(p)
      /\ about' = about /\ analyzed' = analyzed /\ skipped' = skipped
  BY DEF IInv, TypeOK, WriteFinding
<1>1. /\ proc'[p].pc = proc[p].pc /\ proc'[p].current = proc[p].current
      /\ proc'[p].manifest = proc[p].manifest /\ proc'[p].targets = proc[p].targets
      /\ proc'[p].requests = proc[p].requests /\ proc'[p].pending = proc[p].pending
  BY <1>0 DEF WriteFinding, ProcStates
<1>2. ManifestOK(proc[p].manifest)'
  BY <1>0, <1>1, OwnManifestStaysOK DEF IInv, ProcInv
<1>3. CurrentOK(p)' /\ LocalOK(p)'
  BY <1>0, <1>1 DEF ProcInv, CurrentOK, LocalOK
<1>4. AskedOK(p)'
  BY <1>0, <1>1 DEF ProcInv, AskedOK, AsksAbout
<1>5. IngestOK(p)' /\ ReportOK(p)'
  BY <1>0, <1>1 DEF ProcInv, IngestOK, ReportOK
<1>6. QED
  BY <1>2, <1>3, <1>4, <1>5 DEF ProcInv

-----------------------------------------------------------------------------
(* The manifest file only ever holds what some process believed.           *)
LEMMA FileStaysOK ==
    ASSUME IInv, Grows, [Next]_vars
    PROVE  ManifestOK(manifest)'
<1>0. /\ manifest \in Manifests /\ ManifestOK(manifest)
      /\ \A p \in Procs : /\ proc[p].manifest \in Manifests
                          /\ ManifestOK(proc[p].manifest)
      /\ NoEntries \in Manifests /\ ManifestOK(NoEntries)
  BY DEF IInv, TypeOK, ProcInv, ProcStates, NoEntries, Manifests, ManifestOK
<1>1. \/ manifest' = manifest
      \/ manifest' = NoEntries
      \/ \E p \in Procs : manifest' = proc[p].manifest
  <2>1. CASE UNCHANGED vars
    BY <2>1 DEF vars
  <2>2. ASSUME NEW p \in Procs, StartAudit(p) \/ Resume(p) \/ Die(p)
        PROVE  manifest' = manifest
    BY <2>2 DEF StartAudit, Resume, Begin, Die
  <2>3. ASSUME NEW r \in Requests, NEW answer, Respond(r, answer)
        PROVE  manifest' = manifest
    BY <2>3 DEF Respond
  <2>4. ASSUME NEW p \in Procs, Step(p)
        PROVE  manifest' \in {manifest, NoEntries, proc[p].manifest}
    BY <2>4 DEF Step, CallModel, SkipTarget, WriteFinding, FinishTarget, FinishLocal,
                LoadManifest, RequestAnalysis, FinishRequests, TruncateManifest, SaveRequests,
                PutManifest, ReadResponse, FinishRequest, FinishIngest, SaveIngested,
                WriteReport
  <2>5. QED
    BY <2>1, <2>2, <2>3, <2>4 DEF Next
<1>2. PICK m \in Manifests : manifest' = m /\ ManifestOK(m)
  BY <1>0, <1>1
<1>3. QED
  BY <1>2, ManifestStaysOK DEF ManifestOK

LEMMA NextKeepsInv ==
    ASSUME IInv, [Next]_vars
    PROVE  IInv'
<1>1. Grows
  BY NextGrows DEF IInv
<1>2. ManifestOK(manifest)'
  BY <1>1, FileStaysOK
<1>3. /\ proc \in [Procs -> ProcStates]
      /\ \A p \in Procs : ProcInv(p)
  BY DEF IInv, TypeOK
<1>4. CASE UNCHANGED vars
  <2>1. TypeOK'
    BY <1>4 DEF IInv, TypeOK, vars
  <2>2. ASSUME NEW q \in Procs PROVE ProcInv(q)'
    BY <1>1, <1>3, <1>4, FrameInv DEF IInv, vars
  <2>3. QED
    BY <1>2, <2>1, <2>2 DEF IInv
<1>5. ASSUME NEW p \in Procs, Step(p)
      PROVE  IInv'
  <2>1. TypeOK'
    BY <1>5, StepKeepsType
  <2>2. ProcInv(p)'
    BY <1>1, <1>5, <2>1, LocalStepKeepsInv, AskStepKeepsInv, RelayStepKeepsInv,
       SaveIngestedKeepsInv, WriteFindingKeepsInv DEF Step
  <2>3. ASSUME NEW q \in Procs, q # p PROVE proc'[q] = proc[q]
    BY <1>3, <1>5, <2>3
       DEF Step, CallModel, SkipTarget, WriteFinding, FinishTarget, FinishLocal,
           LoadManifest, RequestAnalysis, FinishRequests, TruncateManifest, SaveRequests,
           ReadResponse, FinishRequest, FinishIngest, SaveIngested, WriteReport
  <2>4. ASSUME NEW q \in Procs, q # p PROVE ProcInv(q)'
    BY <1>1, <1>3, <2>3, <2>4, FrameInv DEF IInv
  <2>5. QED
    BY <1>2, <2>1, <2>2, <2>4 DEF IInv
<1>6. ASSUME NEW p \in Procs, NEW pc \in {"local", "load"}, NEW targets \in SUBSET Targets,
             Begin(p, pc, targets), pc = "local" => targets = Targets,
             started' \in BOOLEAN
      PROVE  IInv'
  <2>1. proc' = [proc EXCEPT ![p] = [Off EXCEPT !.pc = pc, !.targets = targets]]
    BY <1>6 DEF Begin
  <2>2. [Off EXCEPT !.pc = pc, !.targets = targets] \in ProcStates
    BY <1>6 DEF Off, ProcStates, NoEntries, Manifests
  <2>3. TypeOK'
    BY <1>3, <1>6, <2>1, <2>2 DEF Begin, IInv, TypeOK
  <2>4. ProcInv(p)'
    BY <1>3, <1>6, <2>1 DEF ProcInv, ManifestOK, CurrentOK, LocalOK, AskedOK, IngestOK,
                            ReportOK, Off, NoEntries, RelayPoints
  <2>5. ASSUME NEW q \in Procs, q # p PROVE ProcInv(q)'
    BY <1>1, <1>3, <2>1, <2>5, FrameInv DEF IInv
  <2>6. QED
    BY <1>2, <2>3, <2>4, <2>5 DEF IInv
<1>7. ASSUME NEW p \in Procs, StartAudit(p) \/ Resume(p)
      PROVE  IInv'
  <2>1. started' \in BOOLEAN
    BY <1>7 DEF StartAudit, Resume, IInv, TypeOK
  <2>2. \/ Begin(p, "local", Targets)
        \/ Begin(p, "load", {})
    BY <1>7 DEF StartAudit, Resume
  <2>3. QED
    BY <1>6, <2>1, <2>2
<1>8. ASSUME NEW p \in Procs, Die(p)
      PROVE  IInv'
  <2>1. proc' = [proc EXCEPT ![p] = Off] /\ Off \in ProcStates
    BY <1>8 DEF Die, Off, ProcStates, NoEntries, Manifests
  <2>2. deaths' \in 0..MaxDeaths
    BY <1>8, PipelineAssumption DEF Die, IInv, TypeOK
  <2>3. TypeOK'
    BY <1>3, <1>8, <2>1, <2>2 DEF Die, IInv, TypeOK
  <2>4. ProcInv(p)'
    BY <1>3, <2>1 DEF ProcInv, ManifestOK, CurrentOK, LocalOK, AskedOK, IngestOK,
                      ReportOK, Off, NoEntries, RelayPoints
  <2>5. ASSUME NEW q \in Procs, q # p PROVE ProcInv(q)'
    BY <1>1, <1>3, <2>1, <2>5, FrameInv DEF IInv
  <2>6. QED
    BY <1>2, <2>3, <2>4, <2>5 DEF IInv
<1>9. ASSUME NEW r \in Requests, NEW answer \in {Unparseable} \cup Answers, Respond(r, answer)
      PROVE  IInv'
  <2>1. TypeOK'
    BY <1>9 DEF Respond, IInv, TypeOK
  <2>2. ASSUME NEW q \in Procs PROVE ProcInv(q)'
    BY <1>1, <1>3, <1>9, FrameInv DEF IInv, Respond
  <2>3. QED
    BY <1>2, <2>1, <2>2 DEF IInv
<1>10. QED
  BY <1>4, <1>5, <1>7, <1>8, <1>9 DEF Next

THEOREM InvariantHolds == Spec => []IInv
BY InitInv, NextKeepsInv, PTL DEF Spec

(* The variables keep their types.                                         *)
THEOREM TypeCorrect == Spec => []TypeOK
<1>1. IInv => TypeOK
  BY DEF IInv
<1>2. QED
  BY <1>1, InvariantHolds, PTL

-----------------------------------------------------------------------------
(* Every step is one of the contract's, or none.                           *)
LEMMA ContractStep ==
    ASSUME IInv, [Next]_vars
    PROVE  [Contract!Next]_(Contract!contractVars)
<1> USE DEF Contract!contractVars, Contract!Next
<1>1. CASE UNCHANGED vars
  BY <1>1 DEF vars
<1>2. ASSUME NEW p \in Procs, StartAudit(p) \/ Resume(p) \/ Die(p)
      PROVE  UNCHANGED Contract!contractVars
  BY <1>2 DEF StartAudit, Resume, Begin, Die
<1>3. ASSUME NEW r \in Requests, NEW answer, Respond(r, answer)
      PROVE  UNCHANGED Contract!contractVars
  BY <1>3 DEF Respond
<1>4. ASSUME NEW p \in Procs, Step(p)
      PROVE  [Contract!Next]_(Contract!contractVars)
  <2>1. ASSUME NEW t \in Targets, SkipTarget(p, t)
        PROVE  Contract!Handle(t)
    BY <2>1 DEF SkipTarget, Contract!Handle
  <2>2. ASSUME FinishTarget(p)
        PROVE  Contract!Handle(proc[p].current) /\ proc[p].current \in Targets
    BY <1>4, <2>2 DEF FinishTarget, Contract!Handle, IInv, ProcInv, CurrentOK
  <2>3. ASSUME FinishRequest(p)
        PROVE  /\ Contract!Handle(about[proc[p].current])
               /\ about[proc[p].current] \in Targets
    <3>1. proc[p].current \in proc[p].requests /\ proc[p].current \in Requests
      BY <2>3 DEF FinishRequest, IInv, TypeOK, ProcInv, CurrentOK, ProcStates
    <3>2. about[proc[p].current] \in Targets
      BY <2>3, <3>1 DEF FinishRequest, IInv, ProcInv, IngestOK, ManifestOK
    <3>3. QED
      BY <2>3, <3>2 DEF FinishRequest, Contract!Handle
  <2>4. ASSUME WriteReport(p)
        PROVE  Contract!Report
    BY <2>4 DEF WriteReport, Contract!Report, IInv, TypeOK, ProcInv, ReportOK
  <2>5. CASE \/ \E t \in Targets : CallModel(p, t)
             \/ \E id \in FindingIds : WriteFinding(p, id)
             \/ FinishLocal(p) \/ LoadManifest(p)
             \/ \E t \in Targets, r \in Requests : RequestAnalysis(p, t, r)
             \/ FinishRequests(p) \/ TruncateManifest(p) \/ SaveRequests(p)
             \/ \E r \in Requests : ReadResponse(p, r)
             \/ FinishIngest(p) \/ SaveIngested(p)
    BY <2>5 DEF CallModel, WriteFinding, FinishLocal, LoadManifest, RequestAnalysis,
                FinishRequests, TruncateManifest, SaveRequests, ReadResponse, FinishIngest,
                SaveIngested
  <2>6. QED
    BY <1>4, <2>1, <2>2, <2>3, <2>4, <2>5 DEF Step
<1>5. QED
  BY <1>1, <1>2, <1>3, <1>4 DEF Next

(* The report waits for every target, whatever dies or overlaps.           *)
THEOREM PipelineImplementsContract == Spec => ImplementsContract
<1>1. Init => Contract!Init
  BY DEF Init, Contract!Init
<1>2. QED
  BY <1>1, InvariantHolds, ContractStep, PTL DEF Spec, ImplementsContract, Contract!Spec

-----------------------------------------------------------------------------
(* How often things are written and asked, as long as processes do not       *)
(* overlap. What counts is the manifest somebody may still act on: the one   *)
(* of the process at work on one, or else the file.                          *)
Asking(t) == {r \in Requests : about[r] = t}
Copies(rec) == {i \in DOMAIN records : records[i] = rec}
Found(source, id) == [source |-> source, id |-> id]

InMemory(p) == proc[p].pc \in RelayPoints \cup {"request"}

(* Whom it does not list may be asked about again, and what it calls open    *)
(* may be written again: only a death can have made them so.                 *)
Held(m) ==
    /\ \A t \in Targets : ~AsksAbout(m, t) => Cardinality(Asking(t)) <= deaths
    /\ deaths = 0 => \A r \in Requests : about[r] # Nothing => m[r] # "none"
    /\ \A r \in Requests, id \in FindingIds :
          m[r] = "open" /\ (\A p \in Procs : proc[p].current # r) =>
              Cardinality(Copies(Found(r, id))) <= deaths

MemoryInv ==
    /\ \A p \in Procs : InMemory(p) => Held(proc[p].manifest)
    /\ (\A p \in Procs : ~InMemory(p)) => Held(manifest)

RunInv ==
    /\ \A p, q \in Procs : Running(p) /\ Running(q) => p = q
    /\ \A p \in Procs : proc[p].pc \in {"write requests", "write ingested"} => manifest = NoEntries
    /\ ~started => \A p \in Procs : ~Running(p)
    /\ \A p \in Procs : proc[p].pc = "request" =>
          \A t \in proc[p].targets : ~AsksAbout(proc[p].manifest, t)

(* The findings left to write of the analysis at hand; what was not yet      *)
(* analysed has no records.                                                  *)
CurrentInv ==
    \A p \in Procs : \A id \in proc[p].ids :
        proc[p].current # Nothing => Cardinality(Copies(Found(proc[p].current, id))) <= deaths

FreshInv ==
    /\ \A r \in Requests, id \in FindingIds : about[r] = Nothing => Copies(Found(r, id)) = {}
    /\ ~started => records = <<>>
    /\ \A p \in Procs, t \in Targets, id \in FindingIds :
          proc[p].pc = "local" /\ t \in proc[p].targets /\ proc[p].current # t =>
              Copies(Found(t, id)) = {}

BoundInv ==
    /\ \A t \in Targets : IsFiniteSet(Asking(t)) /\ Cardinality(Asking(t)) <= 1 + deaths
    /\ \A rec \in Records : Cardinality(Copies(rec)) <= 1 + deaths

CountInv == ~overlapped => MemoryInv /\ RunInv /\ CurrentInv /\ FreshInv /\ BoundInv

LEMMA CopiesAreFinite ==
    ASSUME TypeOK, NEW rec
    PROVE  IsFiniteSet(Copies(rec)) /\ Cardinality(Copies(rec)) \in Nat
<1>1. Len(records) \in Nat /\ DOMAIN records = 1..Len(records)
  BY DEF TypeOK
<1>2. IsFiniteSet(1..Len(records))
  BY <1>1, FS_Interval
<1>3. Copies(rec) \in SUBSET (1..Len(records))
  BY <1>1 DEF Copies
<1>4. QED
  BY <1>2, <1>3, FS_Subset, FS_CardinalityType

(* One more record is one more copy of that record, and of no other.         *)
LEMMA OthersNotCopied ==
    ASSUME TypeOK, NEW new \in Records, records' = Append(records, new), NEW rec, rec # new
    PROVE  Copies(rec)' = Copies(rec)
<1> DEFINE n == Len(records)
<1>1. /\ n \in Nat /\ DOMAIN records = 1..n /\ DOMAIN records' = 1..(n + 1)
      /\ \A i \in 1..n : records'[i] = records[i]
      /\ records'[n + 1] = new
  BY DEF TypeOK
<1>2. 1..(n + 1) = 1..n \cup {n + 1}
  BY <1>1
<1> HIDE DEF n
<1>3. QED
  BY <1>1, <1>2 DEF Copies

LEMMA AppendCounts ==
    ASSUME TypeOK, NEW new \in Records, records' = Append(records, new), NEW rec
    PROVE  Cardinality(Copies(rec)') =
               IF rec = new THEN Cardinality(Copies(rec)) + 1 ELSE Cardinality(Copies(rec))
<1> DEFINE n == Len(records)
<1>1. /\ n \in Nat /\ DOMAIN records = 1..n /\ DOMAIN records' = 1..(n + 1)
      /\ \A i \in 1..n : records'[i] = records[i]
      /\ records'[n + 1] = new
  BY DEF TypeOK
<1>2. 1..(n + 1) = 1..n \cup {n + 1} /\ n + 1 \notin 1..n
  BY <1>1
<1> HIDE DEF n
<1>3. CASE rec = new
  <2>1. Copies(rec)' = Copies(rec) \cup {n + 1} /\ n + 1 \notin Copies(rec)
    BY <1>1, <1>2, <1>3 DEF Copies
  <2>2. QED
    BY <1>3, <2>1, CopiesAreFinite, FS_AddElement
<1>4. CASE rec # new
  <2>1. Copies(rec)' = Copies(rec)
    BY <1>4, OthersNotCopied
  <2>2. QED
    BY <1>4, <2>1
<1>5. QED
  BY <1>3, <1>4

LEMMA InitCounts == Init => CountInv
<1> SUFFICES ASSUME Init PROVE CountInv
  OBVIOUS
<1> USE DEF Init
<1>1. /\ \A rec : Copies(rec) = {}
      /\ \A t \in Targets : Asking(t) = {}
  BY PipelineAssumption DEF Copies, Asking
<1>2. IsFiniteSet({}) /\ Cardinality({}) = 0
  BY FS_EmptySet
<1>9. /\ \A rec : Cardinality(Copies(rec)) <= 1 + deaths
      /\ \A t \in Targets : /\ IsFiniteSet(Asking(t))
                           /\ Cardinality(Asking(t)) <= deaths
                           /\ Cardinality(Asking(t)) <= 1 + deaths
  <2>1. \A rec : Cardinality(Copies(rec)) = 0
    BY <1>1, <1>2, Zenon
  <2>2. \A t \in Targets : IsFiniteSet(Asking(t)) /\ Cardinality(Asking(t)) = 0
    BY <1>1, <1>2, Zenon
  <2>3. QED
    BY <2>1, <2>2
<1>3. Held(manifest)
  <2>1. /\ \A r \in Requests : about[r] = Nothing /\ manifest[r] = "none"
    BY DEF NoEntries
  <2>2. QED
    BY <1>9, <2>1 DEF Held
<1>4. \A p \in Procs : proc[p].pc = "off" /\ proc[p].current = Nothing
  BY DEF Off
<1>5. MemoryInv
  BY <1>3, <1>4 DEF MemoryInv, InMemory, RelayPoints
<1>6. RunInv /\ CurrentInv /\ FreshInv
  BY <1>1, <1>4 DEF RunInv, Running, CurrentInv, FreshInv
<1>7. BoundInv
  BY <1>9 DEF BoundInv
<1>8. QED
  BY <1>5, <1>6, <1>7 DEF CountInv

-----------------------------------------------------------------------------
(* What is to be shown of a step of process p, the only one that runs.       *)
LEMMA StepCounts ==
    ASSUME IInv, NEW p \in Procs,
           \A q \in Procs : q # p => ~Running(q) /\ proc'[q] = proc[q],
           NEW st \in ProcStates, proc'[p] = st, started',
           NEW m, m = IF st.pc \in RelayPoints \cup {"request"} THEN st.manifest ELSE manifest',
           Held(m)',
           st.pc \in {"write requests", "write ingested"} => manifest' = NoEntries,
           st.pc = "request" => \A t \in st.targets : ~AsksAbout(st.manifest, t)',
           st.current # Nothing =>
               \A id \in st.ids : Cardinality(Copies(Found(st.current, id))') <= deaths',
           \A r \in Requests, id \in FindingIds : about'[r] = Nothing => Copies(Found(r, id))' = {},
           st.pc = "local" =>
               \A t \in st.targets, id \in FindingIds : st.current # t => Copies(Found(t, id))' = {},
           BoundInv'
    PROVE  CountInv'
<1>1. \A q \in Procs : q # p => proc[q].pc = "off" /\ proc'[q].pc = "off" /\ proc'[q].current = Nothing
  BY DEF IInv, ProcInv, CurrentOK, Running
<1>2. MemoryInv'
  <2>1. \A q \in Procs : q # p => ~InMemory(q)'
    BY <1>1 DEF InMemory, RelayPoints
  <2>2. InMemory(p)' <=> st.pc \in RelayPoints \cup {"request"}
    BY DEF InMemory
  <2>3. CASE st.pc \in RelayPoints \cup {"request"}
    <3>1. m = proc'[p].manifest
      BY <2>3
    <3>2. QED
      BY <2>1, <2>2, <2>3, <3>1 DEF MemoryInv, Held, AsksAbout
  <2>4. CASE st.pc \notin RelayPoints \cup {"request"}
    <3>1. m = manifest'
      BY <2>4
    <3>2. QED
      BY <2>1, <2>2, <2>4, <3>1 DEF MemoryInv, Held, AsksAbout
  <2>5. QED
    BY <2>3, <2>4
<1>3. RunInv'
  BY <1>1 DEF RunInv, Running, AsksAbout
<1>4. CurrentInv'
  <2>1. ASSUME NEW q \in Procs, NEW id \in proc'[q].ids, proc'[q].current # Nothing
        PROVE  Cardinality({i \in DOMAIN records' :
                               records'[i] = Found(proc'[q].current, id)}) <= deaths'
    <3>1. q = p
      BY <1>1, <2>1
    <3>2. proc'[q].current = st.current /\ id \in st.ids /\ st.current # Nothing
      BY <2>1, <3>1
    <3>3. Cardinality(Copies(Found(st.current, id))') <= deaths'
      BY <3>2
    <3>4. Found(proc'[q].current, id) = Found(st.current, id)
      BY <3>2
    <3>5. QED
      BY <3>3, <3>4 DEF Copies
  <2>2. QED
    BY <2>1 DEF CurrentInv, Copies, Found
<1>5. FreshInv'
  BY <1>1 DEF FreshInv, ProcStates
<1>6. QED
  BY <1>2, <1>3, <1>4, <1>5 DEF CountInv

(* A step that writes no record, files no request and is no death counts     *)
(* nothing; it may only let go of an analysis whose request it closed.       *)
Quiet == UNCHANGED <<started, about, records, deaths, overlapped>>

LEMMA QuietHeld ==
    ASSUME Quiet, NEW m, Held(m),
           \A r \in Requests : m[r] = "open" /\ (\A q \in Procs : proc'[q].current # r) =>
               \A q \in Procs : proc[q].current # r
    PROVE  Held(m)'
BY DEF Quiet, Held, Asking, Copies, AsksAbout

LEMMA QuietStepCounts ==
    ASSUME IInv, CountInv, ~overlapped, Quiet, NEW p \in Procs, Running(p),
           \A q \in Procs : q # p => proc'[q] = proc[q],
           NEW st \in ProcStates, proc'[p] = st,
           NEW m, m = IF st.pc \in RelayPoints \cup {"request"} THEN st.manifest ELSE manifest',
           Held(m)',
           st.pc \in {"write requests", "write ingested"} => manifest' = NoEntries,
           st.pc = "request" => \A t \in st.targets : ~AsksAbout(st.manifest, t),
           st.current # Nothing =>
               \A id \in st.ids : Cardinality(Copies(Found(st.current, id))) <= deaths,
           st.pc = "local" =>
               \A t \in st.targets, id \in FindingIds : st.current # t => Copies(Found(t, id)) = {}
    PROVE  CountInv'
<1> USE DEF CountInv
<1>1. started' /\ \A q \in Procs : q # p => ~Running(q)
  BY DEF RunInv, Quiet
<1>2. \A rec : Copies(rec)' = Copies(rec)
  BY DEF Quiet, Copies
<1>3. \A t : AsksAbout(st.manifest, t)' = AsksAbout(st.manifest, t)
  BY DEF Quiet, AsksAbout
<1>4. BoundInv'
  BY DEF BoundInv, Quiet, Copies, Asking
<1>5. \A r \in Requests, id \in FindingIds : about'[r] = Nothing => Copies(Found(r, id))' = {}
  BY <1>2 DEF FreshInv, Quiet
<1>6. st.current # Nothing =>
          \A id \in st.ids : Cardinality(Copies(Found(st.current, id))') <= deaths'
  BY <1>2 DEF Quiet
<1>7. st.pc = "local" =>
          \A t \in st.targets, id \in FindingIds : st.current # t => Copies(Found(t, id))' = {}
  BY <1>2
<1>8. st.pc = "request" => \A t \in st.targets : ~AsksAbout(st.manifest, t)'
  BY <1>3
<1> HIDE DEF CountInv
<1>9. QED
  BY <1>1, <1>4, <1>5, <1>6, <1>7, <1>8, StepCounts

-----------------------------------------------------------------------------
(* The process that runs is the only one, and one manifest is held.          *)
LEMMA OnlyRunner ==
    ASSUME IInv, CountInv, ~overlapped, NEW p \in Procs, Running(p)
    PROVE  /\ \A q \in Procs : q # p =>
                  proc[q].pc = "off" /\ proc[q].current = Nothing /\ ~InMemory(q)
           /\ InMemory(p) => Held(proc[p].manifest)
           /\ ~InMemory(p) => Held(manifest)
<1>1. \A q \in Procs : q # p => proc[q].pc = "off"
  BY DEF CountInv, RunInv, Running
<1>2. \A q \in Procs : q # p => proc[q].current = Nothing /\ ~InMemory(q)
  BY <1>1 DEF IInv, ProcInv, CurrentOK, InMemory, RelayPoints
<1>3. QED
  BY <1>1, <1>2 DEF CountInv, MemoryInv

(* Nothing has been written of an analysis that has yet to be made.          *)
LEMMA EmptyIsFew ==
    ASSUME TypeOK, NEW rec, Copies(rec) = {}
    PROVE  Cardinality(Copies(rec)) <= deaths
<1>1. Cardinality(Copies(rec)) = 0
  BY FS_EmptySet
<1>2. deaths \in Nat
  BY PipelineAssumption DEF TypeOK
<1>3. QED
  BY <1>1, <1>2

(* What the steps of a run with a local model do to the process.             *)
LEMMA LocalEffect ==
    ASSUME TypeOK, NEW p \in Procs,
           \/ \E t \in Targets : CallModel(p, t) \/ SkipTarget(p, t)
           \/ FinishTarget(p)
           \/ FinishLocal(p)
    PROVE  /\ Quiet /\ manifest' = manifest /\ proc[p].pc = "local"
           /\ \A q \in Procs : q # p => proc'[q] = proc[q]
           /\ \/ /\ proc'[p].pc = "local" /\ proc[p].current = Nothing
                 /\ proc'[p].current \in proc[p].targets \cap Targets
                 /\ proc'[p].targets = proc[p].targets
                 /\ proc'[p].ids \subseteq FindingIds
              \/ /\ proc'[p].pc = "local" /\ proc[p].current = Nothing
                 /\ proc'[p].current = Nothing
                 /\ proc'[p].targets \subseteq proc[p].targets
              \/ /\ proc'[p].pc = "local" /\ proc[p].current # Nothing
                 /\ proc'[p].current = Nothing
                 /\ proc'[p].targets = proc[p].targets \ {proc[p].current}
              \/ /\ proc'[p].pc = "report" /\ proc'[p].current = Nothing
<1>1. proc[p] \in ProcStates /\ proc \in [Procs -> ProcStates]
  BY DEF TypeOK
<1>2. ASSUME NEW t \in Targets, CallModel(p, t)
      PROVE  /\ Quiet /\ manifest' = manifest /\ proc[p].pc = "local"
             /\ \A q \in Procs : q # p => proc'[q] = proc[q]
             /\ proc'[p].pc = "local" /\ proc[p].current = Nothing
             /\ proc'[p].current \in proc[p].targets \cap Targets
             /\ proc'[p].targets = proc[p].targets
             /\ proc'[p].ids \subseteq FindingIds
  <2>1. PICK ids \in SUBSET FindingIds :
            proc' = [proc EXCEPT ![p].current = t, ![p].ids = ids]
    BY <1>2 DEF CallModel
  <2>2. proc'[p] = [proc[p] EXCEPT !.current = t, !.ids = ids]
    BY <1>1, <2>1
  <2>3. /\ proc'[p].pc = proc[p].pc /\ proc'[p].current = t /\ proc'[p].ids = ids
        /\ proc'[p].targets = proc[p].targets
    BY <1>1, <2>2 DEF ProcStates
  <2>4. \A q \in Procs : q # p => proc'[q] = proc[q]
    BY <1>1, <2>1
  <2>5. QED
    BY <1>2, <2>3, <2>4 DEF CallModel, Quiet
<1>3. ASSUME NEW t \in Targets, SkipTarget(p, t)
      PROVE  /\ Quiet /\ manifest' = manifest /\ proc[p].pc = "local"
             /\ \A q \in Procs : q # p => proc'[q] = proc[q]
             /\ proc'[p].pc = "local" /\ proc[p].current = Nothing
             /\ proc'[p].current = Nothing
             /\ proc'[p].targets \subseteq proc[p].targets
  BY <1>1, <1>3 DEF SkipTarget, ProcStates, Quiet
<1>4. ASSUME FinishTarget(p)
      PROVE  /\ Quiet /\ manifest' = manifest /\ proc[p].pc = "local"
             /\ \A q \in Procs : q # p => proc'[q] = proc[q]
             /\ proc'[p].pc = "local" /\ proc[p].current # Nothing
             /\ proc'[p].current = Nothing
             /\ proc'[p].targets = proc[p].targets \ {proc[p].current}
  BY <1>1, <1>4 DEF FinishTarget, ProcStates, Quiet
<1>5. ASSUME FinishLocal(p)
      PROVE  /\ Quiet /\ manifest' = manifest /\ proc[p].pc = "local"
             /\ \A q \in Procs : q # p => proc'[q] = proc[q]
             /\ proc'[p].pc = "report" /\ proc'[p].current = Nothing
  BY <1>1, <1>5 DEF FinishLocal, ProcStates, Quiet
<1>6. QED
  BY <1>2, <1>3, <1>4, <1>5

LEMMA LocalCounts ==
    ASSUME IInv, IInv', CountInv, ~overlapped, NEW p \in Procs,
           \/ \E t \in Targets : CallModel(p, t) \/ SkipTarget(p, t)
           \/ FinishTarget(p)
           \/ FinishLocal(p)
    PROVE  CountInv'
<1>0. TypeOK /\ Nothing \notin proc[p].targets /\ proc'[p] \in ProcStates
  BY PipelineAssumption DEF IInv, TypeOK, ProcStates
<1>1. PICK st \in ProcStates : proc'[p] = st
  BY <1>0
<1>2. /\ Quiet /\ manifest' = manifest /\ proc[p].pc = "local" /\ Running(p)
      /\ \A q \in Procs : q # p => proc'[q] = proc[q]
      /\ st.pc \in {"local", "report"}
  BY <1>0, <1>1, LocalEffect DEF Running
<1>3. /\ \A q \in Procs : q # p => proc[q].current = Nothing
      /\ Held(manifest)
  BY <1>2, OnlyRunner DEF InMemory, RelayPoints
<1>4. \A q \in Procs, r \in Requests : proc[q].current # r
  BY <1>2, <1>3, PipelineAssumption DEF IInv, ProcInv, CurrentOK
<1>5. PICK m : m = manifest
  OBVIOUS
<1>6. Held(m)'
  BY <1>2, <1>3, <1>4, <1>5, QuietHeld
<1>7. \A t \in proc[p].targets, id \in FindingIds :
          proc[p].current # t => Copies(Found(t, id)) = {}
  <2>1. proc[p].targets \subseteq Targets
    BY <1>0 DEF TypeOK, ProcStates
  <2>2. QED
    BY <1>2, <2>1 DEF CountInv, FreshInv
<1>8. st.current # Nothing =>
          \A id \in st.ids : Cardinality(Copies(Found(st.current, id))) <= deaths
  <2>1. SUFFICES ASSUME st.current # Nothing, NEW id \in st.ids
                 PROVE  Cardinality(Copies(Found(st.current, id))) <= deaths
    OBVIOUS
  <2>2. st.current \in proc[p].targets /\ id \in FindingIds /\ proc[p].current = Nothing
    BY <1>0, <1>1, <2>1, LocalEffect
  <2>3. Copies(Found(st.current, id)) = {}
    BY <1>0, <1>7, <2>2
  <2>4. QED
    BY <1>0, <2>3, EmptyIsFew
<1>9. st.pc = "local" =>
          \A t \in st.targets, id \in FindingIds : st.current # t => Copies(Found(t, id)) = {}
  <2>1. SUFFICES ASSUME st.pc = "local", NEW t \in st.targets, NEW id \in FindingIds,
                        st.current # t
                 PROVE  Copies(Found(t, id)) = {}
    OBVIOUS
  <2>2. t \in proc[p].targets /\ proc[p].current # t
    BY <1>0, <1>1, <2>1, LocalEffect
  <2>3. QED
    BY <1>7, <2>2
<1>10. QED
  <2>1. st.pc \notin RelayPoints \cup {"request"}
    BY <1>2 DEF RelayPoints
  <2>2. m = IF st.pc \in RelayPoints \cup {"request"} THEN st.manifest ELSE manifest'
    BY <1>2, <1>5, <2>1
  <2>3. st.pc \notin {"write requests", "write ingested", "request"}
    BY <1>2
  <2>4. QED
    BY <1>1, <1>2, <1>6, <1>8, <1>9, <2>2, <2>3, QuietStepCounts

-----------------------------------------------------------------------------
(* A quiet step of the relay: the process holds manifest m before and after. *)
LEMMA RelayQuiet ==
    ASSUME IInv, IInv', CountInv, ~overlapped, Quiet, NEW p \in Procs, Running(p),
           \A q \in Procs : q # p => proc'[q] = proc[q],
           NEW m, Held(m),
           m = IF proc'[p].pc \in RelayPoints \cup {"request"} THEN proc'[p].manifest ELSE manifest',
           \A r \in Requests : m[r] = "open" => proc'[p].current = r \/ proc[p].current # r,
           proc'[p].pc \in {"write requests", "write ingested"} => manifest' = NoEntries,
           proc'[p].pc = "request" => \A t \in proc'[p].targets : ~AsksAbout(m, t),
           proc'[p].current # Nothing =>
               \A id \in proc'[p].ids : Cardinality(Copies(Found(proc'[p].current, id))) <= deaths,
           proc'[p].pc # "local"
    PROVE  CountInv'
<1>1. PICK st \in ProcStates : proc'[p] = st
  BY DEF IInv, TypeOK
<1>2. \A q \in Procs : q # p => proc[q].current = Nothing
  BY OnlyRunner
<1>3. \A r \in Requests : m[r] = "open" /\ (\A q \in Procs : proc'[q].current # r) =>
          \A q \in Procs : proc[q].current # r
  BY <1>2, PipelineAssumption
<1>4. Held(m)'
  BY <1>3, QuietHeld
<1>5. m = IF st.pc \in RelayPoints \cup {"request"} THEN st.manifest ELSE manifest'
  BY <1>1
<1>6. st.pc = "request" => m = st.manifest
  BY <1>5
<1>7. /\ st.pc \in {"write requests", "write ingested"} => manifest' = NoEntries
      /\ st.pc = "request" => \A t \in st.targets : ~AsksAbout(st.manifest, t)
      /\ st.current # Nothing =>
             \A id \in st.ids : Cardinality(Copies(Found(st.current, id))) <= deaths
      /\ st.pc # "local"
  BY <1>1, <1>6
<1>8. QED
  BY <1>1, <1>4, <1>5, <1>7, QuietStepCounts

LEMMA LoadCounts ==
    ASSUME IInv, IInv', CountInv, ~overlapped, NEW p \in Procs, LoadManifest(p)
    PROVE  CountInv'
<1>1. proc[p] \in ProcStates /\ proc \in [Procs -> ProcStates]
  BY DEF IInv, TypeOK
<1>2. /\ Quiet /\ manifest' = manifest /\ proc[p].pc = "load"
      /\ \A q \in Procs : q # p => proc'[q] = proc[q]
      /\ proc'[p].pc = "request" /\ proc'[p].manifest = manifest
      /\ proc'[p].targets = Targets \ {about[r] : r \in Entries(manifest)}
      /\ proc'[p].current = proc[p].current
  BY <1>1 DEF LoadManifest, ProcStates, Quiet
<1>3. proc'[p].current = Nothing
  BY <1>2 DEF IInv, ProcInv, CurrentOK
<1>4. Running(p) /\ Held(manifest)
  BY <1>2, OnlyRunner DEF InMemory, RelayPoints, Running
<1>5. \A t \in proc'[p].targets : ~AsksAbout(manifest, t)
  BY <1>2 DEF AsksAbout, Entries
<1>6. PICK m : m = manifest
  OBVIOUS
<1>7. \A r \in Requests : proc[p].current # r
  BY <1>2, <1>3, PipelineAssumption
<1>8. QED
  BY <1>2, <1>3, <1>4, <1>5, <1>6, <1>7, RelayQuiet

(* What the relay's other quiet steps do.                                    *)
LEMMA RelayEffect ==
    ASSUME TypeOK, NEW p \in Procs,
           FinishRequests(p) \/ TruncateManifest(p) \/ FinishIngest(p)
    PROVE  /\ Quiet /\ InMemory(p)
           /\ \A q \in Procs : q # p => proc'[q] = proc[q]
           /\ proc'[p].pc \in RelayPoints
           /\ proc'[p].pc \in {"write requests", "write ingested"} => manifest' = NoEntries
           /\ proc'[p].manifest = proc[p].manifest
           /\ proc'[p].current = proc[p].current
           /\ proc[p].pc = "ingest" => proc[p].current = Nothing
<1>1. proc[p] \in ProcStates /\ proc \in [Procs -> ProcStates]
  BY DEF TypeOK
<1>2. CASE FinishRequests(p)
  BY <1>1, <1>2 DEF FinishRequests, ProcStates, Quiet, InMemory, RelayPoints
<1>3. CASE TruncateManifest(p)
  BY <1>1, <1>3 DEF TruncateManifest, ProcStates, Quiet, InMemory, RelayPoints
<1>4. CASE FinishIngest(p)
  BY <1>1, <1>4 DEF FinishIngest, ProcStates, Quiet, InMemory, RelayPoints
<1>5. QED
  BY <1>2, <1>3, <1>4

LEMMA RelayCounts ==
    ASSUME IInv, IInv', CountInv, ~overlapped, NEW p \in Procs,
           FinishRequests(p) \/ TruncateManifest(p) \/ FinishIngest(p)
    PROVE  CountInv'
<1>1. TypeOK
  BY DEF IInv
<1>2. /\ Quiet /\ InMemory(p)
      /\ \A q \in Procs : q # p => proc'[q] = proc[q]
      /\ proc'[p].pc \in RelayPoints
      /\ proc'[p].pc \in {"write requests", "write ingested"} => manifest' = NoEntries
      /\ proc'[p].manifest = proc[p].manifest
      /\ proc'[p].current = proc[p].current
      /\ proc[p].pc = "ingest" => proc[p].current = Nothing
  BY <1>1, RelayEffect
<1>3. Running(p) /\ proc'[p].current = Nothing /\ proc'[p].pc \notin {"local", "request"}
  BY <1>2 DEF InMemory, RelayPoints, Running, IInv, ProcInv, CurrentOK
<1>4. PICK m : m = proc[p].manifest
  OBVIOUS
<1>5. Held(m)
  BY <1>2, <1>3, <1>4, OnlyRunner
<1>6. \A r \in Requests : proc[p].current # r
  BY <1>2, <1>3, PipelineAssumption
<1>7. QED
  BY <1>2, <1>3, <1>4, <1>5, <1>6, RelayQuiet

LEMMA SaveCounts ==
    ASSUME IInv, IInv', CountInv, ~overlapped, NEW p \in Procs,
           SaveRequests(p) \/ SaveIngested(p)
    PROVE  CountInv'
<1>1. proc[p] \in ProcStates /\ proc \in [Procs -> ProcStates]
  BY DEF IInv, TypeOK
<1>2. proc[p].pc \in {"write requests", "write ingested"} /\ PutManifest(p)
  BY DEF SaveRequests, SaveIngested
<1>3. /\ Running(p) /\ InMemory(p) /\ manifest = NoEntries /\ proc[p].current = Nothing
  BY <1>2 DEF Running, InMemory, RelayPoints, CountInv, RunInv, IInv, ProcInv, CurrentOK
<1>4. manifest' = proc[p].manifest
  BY <1>2, <1>3 DEF PutManifest
<1>5. /\ Quiet
      /\ \A q \in Procs : q # p => proc'[q] = proc[q]
      /\ proc'[p].current = Nothing
      /\ \/ proc'[p].pc = "ingest" /\ proc'[p].manifest = proc[p].manifest
         \/ proc'[p].pc \in {"off", "report"}
  <2>1. CASE SaveRequests(p)
    BY <1>1, <1>3, <2>1 DEF SaveRequests, ProcStates, Quiet
  <2>2. CASE SaveIngested(p)
    BY <1>1, <2>2 DEF SaveIngested, Off, Quiet
  <2>3. QED
    BY <2>1, <2>2
<1>6. PICK m : m = proc[p].manifest
  OBVIOUS
<1>7. Held(m) /\ \A r \in Requests : proc[p].current # r
  BY <1>3, <1>6, OnlyRunner, PipelineAssumption
<1>8. m = IF proc'[p].pc \in RelayPoints \cup {"request"} THEN proc'[p].manifest ELSE manifest'
  BY <1>4, <1>5, <1>6 DEF RelayPoints
<1>9. proc'[p].pc \notin {"write requests", "write ingested", "request", "local"}
  BY <1>5
<1>10. QED
  BY <1>3, <1>5, <1>7, <1>8, <1>9, RelayQuiet

LEMMA ReadCounts ==
    ASSUME IInv, IInv', CountInv, ~overlapped, NEW p \in Procs, NEW r \in Requests,
           ReadResponse(p, r)
    PROVE  CountInv'
<1>1. /\ proc[p] \in ProcStates /\ proc \in [Procs -> ProcStates]
      /\ response[r].state = "parsed" => response[r].ids \subseteq FindingIds
  BY DEF IInv, TypeOK, NoResponse, Unparseable, Answers
<1>2. /\ Quiet /\ Running(p) /\ InMemory(p)
      /\ proc[p].current = Nothing /\ proc[p].manifest[r] = "open"
      /\ \A q \in Procs : q # p => proc'[q] = proc[q]
  <2>1. proc[p].pc = "ingest" /\ r \in proc[p].requests
    BY DEF ReadResponse
  <2>2. QED
    BY <1>1, <2>1 DEF ReadResponse, Quiet, Running, InMemory, RelayPoints, IInv, ProcInv,
                      IngestOK
<1>3. /\ proc'[p].pc = "ingest" /\ proc'[p].manifest = proc[p].manifest
      /\ proc'[p].current # Nothing => proc'[p].current = r /\ proc'[p].ids \subseteq FindingIds
  <2>1. CASE /\ response[r].state # "parsed"
             /\ proc' = [proc EXCEPT ![p].requests = @ \ {r}, ![p].pending = TRUE]
    <3>1. proc'[p] = [proc[p] EXCEPT !.requests = @ \ {r}, !.pending = TRUE]
      BY <1>1, <2>1
    <3>2. QED
      BY <1>1, <1>2, <3>1 DEF ProcStates, ReadResponse
  <2>2. CASE /\ response[r].state = "parsed"
             /\ proc' = [proc EXCEPT ![p].current = r, ![p].ids = response[r].ids]
    <3>1. proc'[p] = [proc[p] EXCEPT !.current = r, !.ids = response[r].ids]
      BY <1>1, <2>2
    <3>2. QED
      BY <1>1, <2>2, <3>1 DEF ProcStates, ReadResponse
  <2>3. QED
    BY <2>1, <2>2 DEF ReadResponse
<1>4. PICK m : m = proc[p].manifest
  OBVIOUS
<1>5. /\ Held(m) /\ \A q \in Procs, s \in Requests : proc[q].current # s
      /\ m = IF proc'[p].pc \in RelayPoints \cup {"request"} THEN proc'[p].manifest ELSE manifest'
  BY <1>2, <1>3, <1>4, OnlyRunner, PipelineAssumption DEF RelayPoints
<1>6. proc'[p].current # Nothing =>
          \A id \in proc'[p].ids : Cardinality(Copies(Found(proc'[p].current, id))) <= deaths
  BY <1>2, <1>3, <1>4, <1>5 DEF Held
<1>7. QED
  BY <1>2, <1>3, <1>5, <1>6, RelayQuiet

(* An answer written in full is marked, so what its process holds still      *)
(* tells what was asked.                                                     *)
LEMMA FinishCounts ==
    ASSUME IInv, IInv', CountInv, ~overlapped, NEW p \in Procs, FinishRequest(p)
    PROVE  CountInv'
<1> DEFINE c == proc[p].current
           m == [proc[p].manifest EXCEPT ![c] = "ingested"]
<1>1. proc[p] \in ProcStates /\ proc \in [Procs -> ProcStates]
  BY DEF IInv, TypeOK
<1>2. proc[p].pc = "ingest" /\ c # Nothing
  BY DEF FinishRequest
<1>3. c \in Requests /\ proc[p].manifest[c] = "open"
  BY <1>1, <1>2 DEF IInv, ProcInv, CurrentOK, IngestOK, ProcStates
<1>4. /\ Quiet /\ \A q \in Procs : q # p => proc'[q] = proc[q]
      /\ proc'[p].pc = "ingest" /\ proc'[p].manifest = m /\ proc'[p].current = Nothing
  <2>1. proc'[p] = [proc[p] EXCEPT !.manifest[c] = "ingested", !.requests = @ \ {c},
                                   !.current = Nothing]
    BY <1>1 DEF FinishRequest
  <2>2. QED
    BY <1>1, <1>2, <2>1 DEF FinishRequest, ProcStates, Quiet
<1>5. /\ Running(p) /\ InMemory(p)
  BY <1>2 DEF Running, InMemory, RelayPoints
<1>6. Held(proc[p].manifest)
  BY <1>5, OnlyRunner
<1>7. proc[p].manifest \in Manifests
  BY <1>1 DEF ProcStates
<1>8. /\ \A r \in Requests : m[r] # "none" <=> proc[p].manifest[r] # "none"
      /\ \A r \in Requests : m[r] = "open" => r # c /\ proc[p].manifest[r] = "open"
  BY <1>3, <1>7 DEF Manifests
<1> HIDE DEF m
<1>9. Held(m)
  BY <1>6, <1>8 DEF Held, AsksAbout
<1>10. m = IF proc'[p].pc \in RelayPoints \cup {"request"} THEN proc'[p].manifest ELSE manifest'
  BY <1>4 DEF RelayPoints
<1>11. \A r \in Requests : m[r] = "open" => proc[p].current # r
  BY <1>8
<1>12. PICK held : held = m
  OBVIOUS
<1> HIDE DEF c
<1>13. QED
  BY <1>4, <1>5, <1>9, <1>10, <1>11, <1>12, RelayQuiet

LEMMA ReportCounts ==
    ASSUME IInv, IInv', CountInv, ~overlapped, NEW p \in Procs, WriteReport(p)
    PROVE  CountInv'
<1>1. proc \in [Procs -> ProcStates]
  BY DEF IInv, TypeOK
<1>2. /\ Quiet /\ manifest' = manifest /\ proc[p].pc = "report"
      /\ \A q \in Procs : q # p => proc'[q] = proc[q]
      /\ proc'[p].pc = "off" /\ proc'[p].current = Nothing
  BY <1>1 DEF WriteReport, Off, Quiet
<1>3. Running(p) /\ Held(manifest) /\ \A r \in Requests : proc[p].current # r
  BY <1>2, OnlyRunner, PipelineAssumption
     DEF InMemory, RelayPoints, Running, IInv, ProcInv, CurrentOK
<1>4. PICK m : m = manifest
  OBVIOUS
<1>5. m = IF proc'[p].pc \in RelayPoints \cup {"request"} THEN proc'[p].manifest ELSE manifest'
  BY <1>2, <1>4 DEF RelayPoints
<1>6. QED
  BY <1>2, <1>3, <1>4, <1>5, RelayQuiet

-----------------------------------------------------------------------------
(* One finding of the analysis at hand becomes a record: it had at most      *)
(* `deaths' copies, and no other record gains one.                           *)
LEMMA WriteCounts ==
    ASSUME IInv, IInv', CountInv, ~overlapped, NEW p \in Procs, NEW id \in FindingIds,
           WriteFinding(p, id)
    PROVE  CountInv'
<1>1. proc[p] \in ProcStates /\ proc \in [Procs -> ProcStates] /\ TypeOK
  BY DEF IInv, TypeOK
<1>2. PICK new : new = Found(proc[p].current, id)
  OBVIOUS
<1>3. /\ proc[p].current # Nothing /\ id \in proc[p].ids /\ records' = Append(records, new)
      /\ UNCHANGED <<started, about, manifest, deaths, overlapped>>
      /\ proc' = [proc EXCEPT ![p].ids = @ \ {id}]
  BY <1>2 DEF WriteFinding, Found
<1>4. new \in Records
  BY <1>1, <1>2, <1>3 DEF Found, Records, ProcStates
<1>5. /\ proc'[p].pc = proc[p].pc /\ proc'[p].manifest = proc[p].manifest
      /\ proc'[p].targets = proc[p].targets /\ proc'[p].current = proc[p].current
      /\ proc'[p].ids = proc[p].ids \ {id}
      /\ \A q \in Procs : q # p => proc'[q] = proc[q]
  <2>1. proc'[p] = [proc[p] EXCEPT !.ids = @ \ {id}]
    BY <1>1, <1>3
  <2>2. QED
    BY <1>1, <1>3, <2>1 DEF ProcStates
<1>6. \/ proc[p].pc = "local" /\ proc[p].current \in Targets
      \/ proc[p].pc = "ingest" /\ proc[p].current \in Requests /\ about[proc[p].current] # Nothing
  <2>1. CASE proc[p].pc = "local" /\ proc[p].current \in Targets
    BY <2>1
  <2>2. CASE proc[p].pc = "ingest" /\ proc[p].current \in proc[p].requests
    <3>1. proc[p].current \in Requests /\ proc[p].manifest[proc[p].current] = "open"
      BY <1>1, <2>2 DEF IInv, ProcInv, IngestOK, ProcStates
    <3>2. about[proc[p].current] \in Targets
      BY <3>1 DEF IInv, ProcInv, ManifestOK
    <3>3. QED
      BY <2>2, <3>1, <3>2, PipelineAssumption
  <2>3. QED
    BY <1>3, <2>1, <2>2 DEF IInv, ProcInv, CurrentOK
<1>7. Running(p) /\ (\A q \in Procs : q # p => ~Running(q))
  BY <1>6 DEF Running, CountInv, RunInv
<1>8. started'
  BY <1>3, <1>7 DEF CountInv, RunInv
<1>9. \A rec : rec # new => Copies(rec)' = Copies(rec)
  BY <1>1, <1>3, <1>4, OthersNotCopied
<1>10. PICK st \in ProcStates : proc'[p] = st
  BY DEF IInv, TypeOK
<1>11. PICK m : m = IF InMemory(p) THEN proc[p].manifest ELSE manifest
  OBVIOUS
<1>12. m = IF st.pc \in RelayPoints \cup {"request"} THEN st.manifest ELSE manifest'
  BY <1>3, <1>5, <1>10, <1>11 DEF InMemory
<1>13. Held(m)'
  <2>1. Held(m)
    BY <1>7, <1>11, OnlyRunner
  <2>2. ASSUME NEW t \in Targets, ~AsksAbout(m, t)'
        PROVE  Cardinality(Asking(t)') <= deaths'
    BY <1>3, <2>1, <2>2 DEF Held, AsksAbout, Asking
  <2>3. ASSUME deaths' = 0, NEW r \in Requests, about'[r] # Nothing
        PROVE  m[r] # "none"
    BY <1>3, <2>1, <2>3 DEF Held
  <2>4. ASSUME NEW r \in Requests, NEW other \in FindingIds, m[r] = "open",
               \A q \in Procs : proc'[q].current # r
        PROVE  Cardinality(Copies(Found(r, other))') <= deaths'
    <3>1. \A q \in Procs : proc[q].current # r
      BY <1>5, <2>4
    <3>2. Found(r, other) # new
      BY <1>2, <3>1 DEF Found
    <3>3. Cardinality(Copies(Found(r, other))) <= deaths
      BY <2>1, <2>4, <3>1 DEF Held
    <3>4. QED
      BY <1>3, <1>9, <3>2, <3>3
  <2>5. QED
    BY <2>2, <2>3, <2>4 DEF Held
<1>14. st.pc \notin {"write requests", "write ingested", "request"}
  BY <1>5, <1>6, <1>10
<1>15. \A other \in st.ids : Cardinality(Copies(Found(st.current, other))') <= deaths'
  <2>1. SUFFICES ASSUME NEW other \in st.ids
                 PROVE  Cardinality(Copies(Found(st.current, other))') <= deaths'
    OBVIOUS
  <2>2. other \in proc[p].ids /\ other # id /\ st.current = proc[p].current
    BY <1>5, <1>10
  <2>3. Found(st.current, other) # new
    BY <1>2, <2>2 DEF Found
  <2>4. Cardinality(Copies(Found(st.current, other))) <= deaths
    BY <1>3, <2>2 DEF CountInv, CurrentInv
  <2>5. QED
    BY <1>3, <1>9, <2>3, <2>4
<1>16. \A r \in Requests, other \in FindingIds :
           about'[r] = Nothing => Copies(Found(r, other))' = {}
  <2>1. SUFFICES ASSUME NEW r \in Requests, NEW other \in FindingIds, about'[r] = Nothing
                 PROVE  Copies(Found(r, other))' = {}
    OBVIOUS
  <2>2. Found(r, other) # new
    BY <1>2, <1>3, <1>6, <2>1, PipelineAssumption DEF Found
  <2>3. Copies(Found(r, other)) = {}
    BY <1>3, <2>1 DEF CountInv, FreshInv
  <2>4. QED
    BY <1>9, <2>2, <2>3
<1>17. st.pc = "local" =>
           \A t \in st.targets, other \in FindingIds :
               st.current # t => Copies(Found(t, other))' = {}
  <2>1. SUFFICES ASSUME st.pc = "local", NEW t \in st.targets, NEW other \in FindingIds,
                        st.current # t
                 PROVE  Copies(Found(t, other))' = {}
    OBVIOUS
  <2>2. Found(t, other) # new
    BY <1>2, <1>5, <1>10, <2>1 DEF Found
  <2>3. t \in Targets /\ t \in proc[p].targets /\ proc[p].pc = "local" /\ proc[p].current # t
    BY <1>1, <1>5, <1>10, <2>1 DEF ProcStates
  <2>4. Copies(Found(t, other)) = {}
    BY <2>3 DEF CountInv, FreshInv
  <2>5. QED
    BY <1>9, <2>2, <2>4
<1>18. BoundInv'
  <2>1. ASSUME NEW rec \in Records
        PROVE  Cardinality(Copies(rec)') <= 1 + deaths'
    <3>1. CASE rec = new
      <4>1. Cardinality(Copies(new)) <= deaths
        BY <1>2, <1>3 DEF CountInv, CurrentInv
      <4>2. Cardinality(Copies(new)') = Cardinality(Copies(new)) + 1
        BY <1>1, <1>3, <1>4, AppendCounts
      <4>3. Cardinality(Copies(new)) \in Nat /\ deaths \in Nat
        BY <1>1, CopiesAreFinite, PipelineAssumption DEF TypeOK
      <4>4. QED
        BY <1>3, <3>1, <4>1, <4>2, <4>3
    <3>2. CASE rec # new
      BY <1>3, <1>9, <3>2 DEF CountInv, BoundInv
    <3>3. QED
      BY <3>1, <3>2
  <2>2. \A t \in Targets : IsFiniteSet(Asking(t)') /\ Cardinality(Asking(t)') <= 1 + deaths'
    BY <1>3 DEF CountInv, BoundInv, Asking
  <2>3. QED
    BY <2>1, <2>2 DEF BoundInv
<1>19. \A q \in Procs : q # p => ~Running(q) /\ proc'[q] = proc[q]
  BY <1>5, <1>7
<1>20. QED
  BY <1>8, <1>10, <1>12, <1>13, <1>14, <1>15, <1>16, <1>17, <1>18, <1>19, StepCounts

(* One more request about a target nobody holding the manifest asks about.   *)
LEMMA RequestCounts ==
    ASSUME IInv, IInv', CountInv, ~overlapped, NEW p \in Procs, NEW t \in Targets,
           NEW r \in Requests, RequestAnalysis(p, t, r)
    PROVE  CountInv'
<1>1. /\ proc[p] \in ProcStates /\ proc \in [Procs -> ProcStates] /\ TypeOK
      /\ proc[p].manifest \in Manifests /\ deaths \in Nat
  <2>1. proc[p] \in ProcStates /\ proc \in [Procs -> ProcStates] /\ TypeOK /\ deaths \in Nat
    BY PipelineAssumption DEF IInv, TypeOK
  <2>2. proc[p].manifest \in Manifests
    BY <2>1 DEF ProcStates
  <2>3. QED
    BY <2>1, <2>2
<1>2. /\ proc[p].pc = "request" /\ t \in proc[p].targets /\ about[r] = Nothing
      /\ about' = [about EXCEPT ![r] = t]
      /\ UNCHANGED <<started, records, deaths, overlapped>>
  BY DEF RequestAnalysis
<1>3. PICK old \in Manifests : old = proc[p].manifest
  BY <1>1
<1>4. PICK m : m = [old EXCEPT ![r] = "open"]
  OBVIOUS
<1>5. /\ m[r] = "open" /\ \A s \in Requests : s # r => m[s] = old[s]
      /\ about'[r] = t /\ \A s \in Requests : s # r => about'[s] = about[s]
  BY <1>1, <1>2, <1>3, <1>4 DEF Manifests, TypeOK
<1>6. /\ proc'[p].pc = "request" /\ proc'[p].manifest = m /\ proc'[p].current = Nothing
      /\ proc'[p].targets = proc[p].targets \ {t}
      /\ \A q \in Procs : q # p => proc'[q] = proc[q]
  <2>1. proc'[p] = [proc[p] EXCEPT !.manifest[r] = "open", !.targets = @ \ {t}]
    BY <1>1 DEF RequestAnalysis
  <2>2. proc[p].current = Nothing
    BY <1>2 DEF IInv, ProcInv, CurrentOK
  <2>3. \A q \in Procs : q # p => proc'[q] = proc[q]
    BY <1>1 DEF RequestAnalysis
  <2>4. QED
    BY <1>1, <1>2, <1>3, <1>4, <2>1, <2>2, <2>3 DEF ProcStates
<1>7. /\ Running(p) /\ Held(old)
      /\ \A q \in Procs : q # p => ~Running(q) /\ proc[q].current = Nothing
  BY <1>2, <1>3, OnlyRunner DEF InMemory, Running
<1>8. started'
  BY <1>2, <1>7 DEF CountInv, RunInv
<1>9. PICK st \in ProcStates : proc'[p] = st
  BY DEF IInv, TypeOK
<1>10. \A u \in Targets : ~AsksAbout(m, u)' => u # t /\ ~AsksAbout(old, u)
  BY <1>2, <1>5, PipelineAssumption DEF AsksAbout
<1>11. \A u \in Targets : u # t => Asking(u)' = Asking(u)
  BY <1>2, <1>5, PipelineAssumption DEF Asking
<1>12. ~AsksAbout(old, t)
  BY <1>2, <1>3 DEF CountInv, RunInv
<1>13. \A rec : Copies(rec)' = Copies(rec)
  BY <1>2 DEF Copies
<1>14. Held(m)'
  <2>1. ASSUME NEW u \in Targets, ~AsksAbout(m, u)'
        PROVE  Cardinality(Asking(u)') <= deaths'
    BY <1>2, <1>7, <1>10, <1>11, <2>1 DEF Held
  <2>2. ASSUME deaths' = 0, NEW s \in Requests, about'[s] # Nothing
        PROVE  m[s] # "none"
    BY <1>2, <1>5, <1>7, <2>2 DEF Held
  <2>3. ASSUME NEW s \in Requests, NEW id \in FindingIds, m[s] = "open",
               \A q \in Procs : proc'[q].current # s
        PROVE  Cardinality(Copies(Found(s, id))') <= deaths'
    <3>1. CASE s = r
      <4>1. Copies(Found(s, id)) = {}
        BY <1>2, <3>1 DEF CountInv, FreshInv
      <4>2. QED
        BY <1>1, <1>2, <1>13, <4>1, EmptyIsFew
    <3>2. CASE s # r
      <4>1. \A q \in Procs : proc[q].current # s
        BY <1>2, <1>7, PipelineAssumption DEF IInv, ProcInv, CurrentOK
      <4>2. Cardinality(Copies(Found(s, id))) <= deaths
        BY <1>5, <1>7, <2>3, <3>2, <4>1 DEF Held
      <4>3. QED
        BY <1>2, <1>13, <4>2
    <3>3. QED
      BY <3>1, <3>2
  <2>4. QED
    BY <2>1, <2>2, <2>3 DEF Held
<1>15. \A u \in st.targets : ~AsksAbout(st.manifest, u)'
  <2>1. SUFFICES ASSUME NEW u \in st.targets PROVE ~AsksAbout(m, u)'
    BY <1>6, <1>9
  <2>2. u \in proc[p].targets /\ u # t /\ u \in Targets
    BY <1>1, <1>6, <1>9 DEF ProcStates
  <2>3. ~AsksAbout(old, u)
    BY <1>2, <1>3, <2>2 DEF CountInv, RunInv
  <2>4. QED
    BY <1>5, <2>2, <2>3 DEF AsksAbout
<1>16. \A s \in Requests, id \in FindingIds : about'[s] = Nothing => Copies(Found(s, id))' = {}
  BY <1>2, <1>5, <1>13, PipelineAssumption DEF CountInv, FreshInv
<1>17. BoundInv'
  <2>1. ASSUME NEW u \in Targets
        PROVE  IsFiniteSet(Asking(u)') /\ Cardinality(Asking(u)') <= 1 + deaths'
    <3>1. CASE u = t
      <4>1. Asking(t)' = Asking(t) \cup {r} /\ r \notin Asking(t)
        BY <1>2, <1>5, PipelineAssumption DEF Asking
      <4>2. IsFiniteSet(Asking(t)) /\ Cardinality(Asking(t)) <= deaths
        BY <1>7, <1>12 DEF Held, CountInv, BoundInv
      <4>3. /\ Cardinality(Asking(t)) \in Nat /\ IsFiniteSet(Asking(t) \cup {r})
            /\ Cardinality(Asking(t) \cup {r}) = Cardinality(Asking(t)) + 1
        BY <4>1, <4>2, FS_AddElement, FS_CardinalityType
      <4>4. QED
        BY <1>1, <1>2, <3>1, <4>1, <4>2, <4>3
    <3>2. CASE u # t
      BY <1>2, <1>11, <3>2 DEF CountInv, BoundInv
    <3>3. QED
      BY <3>1, <3>2
  <2>2. \A rec \in Records : Cardinality(Copies(rec)') <= 1 + deaths'
    BY <1>2, <1>13 DEF CountInv, BoundInv
  <2>3. QED
    BY <2>1, <2>2 DEF BoundInv
<1>18. m = IF st.pc \in RelayPoints \cup {"request"} THEN st.manifest ELSE manifest'
  BY <1>6, <1>9
<1>19. st.pc \notin {"write requests", "write ingested", "local"} /\ st.current = Nothing
  BY <1>6, <1>9
<1>20. \A q \in Procs : q # p => ~Running(q) /\ proc'[q] = proc[q]
  BY <1>6, <1>7
<1>21. QED
  BY <1>8, <1>9, <1>14, <1>15, <1>16, <1>17, <1>18, <1>19, <1>20, StepCounts

(* A death leaves the file as it is, and whatever the process held but had   *)
(* not saved is within the bound it raises.                                  *)
LEMMA DieCounts ==
    ASSUME IInv, IInv', CountInv, ~overlapped, NEW p \in Procs, Die(p)
    PROVE  CountInv'
<1>1. proc \in [Procs -> ProcStates] /\ deaths \in Nat /\ TypeOK
  BY PipelineAssumption DEF IInv, TypeOK
<1>2. /\ Running(p) /\ deaths' = deaths + 1 /\ proc' = [proc EXCEPT ![p] = Off]
      /\ UNCHANGED <<started, about, manifest, records, overlapped>>
  BY DEF Die
<1>3. /\ started' /\ \A q \in Procs : q # p => ~Running(q) /\ proc'[q] = proc[q]
  BY <1>1, <1>2 DEF CountInv, RunInv
<1>4. Off \in ProcStates /\ proc'[p] = Off
  BY <1>1, <1>2 DEF Off, ProcStates, NoEntries, Manifests
<1>5. /\ \A rec : Copies(rec)' = Copies(rec)
      /\ \A t : Asking(t)' = Asking(t)
  BY <1>2 DEF Copies, Asking
<1>6. /\ \A t \in Targets : Cardinality(Asking(t)) <= deaths' /\ IsFiniteSet(Asking(t))
      /\ \A rec \in Records : Cardinality(Copies(rec)) <= deaths'
  BY <1>1, <1>2 DEF CountInv, BoundInv
<1>7. PICK m : m = manifest'
  OBVIOUS
<1>8. Held(m)'
  <2>1. \A r \in Requests, id \in FindingIds : Found(r, id) \in Records
    BY DEF Found, Records, Sources
  <2>2. deaths' # 0
    BY <1>1, <1>2
  <2>3. QED
    BY <1>5, <1>6, <2>1, <2>2 DEF Held
<1>9. \A r \in Requests, id \in FindingIds : about'[r] = Nothing => Copies(Found(r, id))' = {}
  BY <1>2, <1>5 DEF CountInv, FreshInv
<1>10. BoundInv'
  <2>1. \A t \in Targets : IsFiniteSet(Asking(t)') /\ Cardinality(Asking(t)') <= 1 + deaths'
    <3>1. ASSUME NEW t \in Targets PROVE Cardinality(Asking(t)) \in Nat
      BY <1>6, FS_CardinalityType
    <3>2. QED
      BY <1>1, <1>2, <1>5, <1>6, <3>1
  <2>2. \A rec \in Records : Cardinality(Copies(rec)') <= 1 + deaths'
    <3>1. \A rec \in Records : Cardinality(Copies(rec)) \in Nat
      BY <1>1, CopiesAreFinite
    <3>2. QED
      BY <1>1, <1>2, <1>5, <1>6, <3>1
  <2>3. QED
    BY <2>1, <2>2 DEF BoundInv
<1>11. /\ Off.pc = "off" /\ Off.current = Nothing
       /\ m = IF Off.pc \in RelayPoints \cup {"request"} THEN Off.manifest ELSE manifest'
  BY <1>7 DEF Off, RelayPoints
<1>12. QED
  BY <1>3, <1>4, <1>8, <1>9, <1>10, <1>11, StepCounts

(* A process that begins while none runs starts from the file.               *)
LEMMA BeginCounts ==
    ASSUME IInv, IInv', CountInv, ~overlapped', NEW p \in Procs, StartAudit(p) \/ Resume(p)
    PROVE  CountInv'
<1>1. proc \in [Procs -> ProcStates] /\ started' /\ TypeOK /\ Nothing \notin Requests
  BY PipelineAssumption DEF IInv, TypeOK, StartAudit, Resume
<1>2. PICK pc \in {"local", "load"}, targets \in SUBSET Targets :
          /\ Begin(p, pc, targets)
          /\ pc = "local" => ~started
  BY DEF StartAudit, Resume
<1>3. /\ ~overlapped
      /\ \A q \in Procs : ~Running(q)
      /\ \A q \in Procs : q # p => proc'[q] = proc[q]
      /\ UNCHANGED <<about, manifest, records, deaths>>
  BY <1>1, <1>2 DEF Begin, TypeOK
<1>4. PICK st \in ProcStates : proc'[p] = st
  BY DEF IInv, TypeOK
<1>5. st.pc = pc /\ st.targets = targets /\ st.current = Nothing
  <2>1. st = [Off EXCEPT !.pc = pc, !.targets = targets]
    BY <1>1, <1>2, <1>4 DEF Begin
  <2>2. QED
    BY <2>1 DEF Off
<1>6. \A q \in Procs : ~InMemory(q) /\ proc[q].current = Nothing
  BY <1>3 DEF Running, InMemory, RelayPoints, IInv, ProcInv, CurrentOK
<1>7. PICK m : m = manifest
  OBVIOUS
<1>8. \A rec : Copies(rec)' = Copies(rec)
  BY <1>3 DEF Copies
<1>9. Held(m)'
  <2>1. Held(m)
    BY <1>3, <1>6, <1>7 DEF CountInv, MemoryInv
  <2>2. \A r \in Requests, q \in Procs : proc[q].current # r
    BY <1>1, <1>6
  <2>3. QED
    BY <1>3, <1>8, <2>1, <2>2 DEF Held, AsksAbout, Asking
<1>10. BoundInv'
  BY <1>3, <1>8 DEF CountInv, BoundInv, Asking
<1>11. \A r \in Requests, id \in FindingIds : about'[r] = Nothing => Copies(Found(r, id))' = {}
  BY <1>3, <1>8 DEF CountInv, FreshInv
<1>12. st.pc = "local" =>
           \A t \in st.targets, id \in FindingIds : st.current # t => Copies(Found(t, id))' = {}
  <2>1. st.pc = "local" => records = <<>>
    BY <1>2, <1>3, <1>5 DEF CountInv, FreshInv
  <2>2. records = <<>> => \A rec : Copies(rec) = {}
    BY DEF Copies
  <2>3. QED
    BY <1>8, <2>1, <2>2
<1>13. m = IF st.pc \in RelayPoints \cup {"request"} THEN st.manifest ELSE manifest'
  BY <1>3, <1>5, <1>7 DEF RelayPoints
<1>14. st.pc \notin {"write requests", "write ingested", "request"}
  BY <1>5
<1>15. \A q \in Procs : q # p => ~Running(q) /\ proc'[q] = proc[q]
  BY <1>3
<1>16. QED
  BY <1>1, <1>4, <1>5, <1>9, <1>10, <1>11, <1>12, <1>13, <1>14, <1>15, StepCounts

LEMMA SameCounts ==
    ASSUME CountInv, UNCHANGED <<started, about, manifest, records, proc, deaths, overlapped>>
    PROVE  CountInv'
<1>1. \A m : Held(m)' <=> Held(m)
  BY DEF Held, AsksAbout, Asking, Copies
<1>2. MemoryInv' <=> MemoryInv
  BY <1>1 DEF MemoryInv, InMemory
<1>3. RunInv' <=> RunInv
  BY DEF RunInv, Running, AsksAbout
<1>4. CurrentInv' <=> CurrentInv
  BY DEF CurrentInv, Copies
<1>5. FreshInv' <=> FreshInv
  BY DEF FreshInv, Copies
<1>6. BoundInv' <=> BoundInv
  BY DEF BoundInv, Copies, Asking
<1>7. QED
  BY <1>2, <1>3, <1>4, <1>5, <1>6 DEF CountInv

LEMMA NextCounts ==
    ASSUME IInv, IInv', CountInv, [Next]_vars
    PROVE  CountInv'
<1>1. CASE UNCHANGED vars
  BY <1>1, SameCounts DEF vars
<1>2. ASSUME NEW r \in Requests, NEW answer, Respond(r, answer)
      PROVE  CountInv'
  BY <1>2, SameCounts DEF Respond
<1>3. ASSUME NEW p \in Procs, StartAudit(p) \/ Resume(p)
      PROVE  CountInv'
  <2>1. CASE overlapped'
    BY <2>1 DEF CountInv
  <2>2. QED
    BY <1>3, <2>1, BeginCounts
<1>4. ASSUME NEW p \in Procs, Step(p) \/ Die(p)
      PROVE  CountInv'
  <2>1. overlapped' = overlapped
    BY <1>4 DEF Step, Die, CallModel, SkipTarget, WriteFinding, FinishTarget, FinishLocal,
                LoadManifest, RequestAnalysis, FinishRequests, TruncateManifest, SaveRequests,
                ReadResponse, FinishRequest, FinishIngest, SaveIngested, WriteReport
  <2>2. CASE overlapped
    BY <2>1, <2>2 DEF CountInv
  <2>3. CASE ~overlapped
    BY <1>4, <2>3, LocalCounts, LoadCounts, RelayCounts, SaveCounts, ReadCounts, FinishCounts,
       ReportCounts, WriteCounts, RequestCounts, DieCounts DEF Step
  <2>4. QED
    BY <2>2, <2>3
<1>5. QED
  BY <1>1, <1>2, <1>3, <1>4 DEF Next

LEMMA CountsHold == Spec => [](IInv /\ CountInv)
<1>1. IInv /\ CountInv /\ [Next]_vars => IInv' /\ CountInv'
  BY NextKeepsInv, NextCounts
<1>2. QED
  BY <1>1, InitInv, InitCounts, PTL DEF Spec

(* A finding of an answer is written once, and once more per death.          *)
THEOREM CopiesAreExplained == Spec => []CopiesExplained
<1>1. CountInv => CopiesExplained
  BY DEF CountInv, BoundInv, Copies, CopiesExplained
<1>2. QED
  BY <1>1, CountsHold, PTL

(* A target is asked about once, and once more per death.                    *)
THEOREM RequestsAreExplained == Spec => []RequestsExplained
<1>1. CountInv => RequestsExplained
  BY DEF CountInv, BoundInv, Asking, RequestsExplained
<1>2. QED
  BY <1>1, CountsHold, PTL

(* Without deaths and overlaps, the file of an audit at rest lists every     *)
(* request that was ever filed.                                              *)
THEOREM NoRequestOrphaned == Spec => []NoRequestIsOrphaned
<1>1. CountInv => NoRequestIsOrphaned
  BY DEF CountInv, MemoryInv, InMemory, RelayPoints, Running, Held, Entries,
         NoRequestIsOrphaned
<1>2. QED
  BY <1>1, CountsHold, PTL
=============================================================================
