# sr-agent in TLA+

sr-agent audits smart contracts with a language model. A model proposes
actions and findings; a deterministic *kernel* decides what is executed, what
is remembered and what needs a human. This directory holds TLA+ models of
that kernel and of the parts built on it, TLC configurations that check them on
small instances, and TLAPS proofs for every size of the constants.

Paths below are relative to the repository; line numbers are those of the
modelled commit. `PROJECT.json` maps every definition to the lines it stands for.

## 1. The system

### Components, their state and their operations

| Component | State it keeps | Operations | Source |
|---|---|---|---|
| Out-of-band confirmation | one JSON file per request under `confirmations/` | `request_confirmation`, `check_confirmation` (poll with deadline), `resolve_confirmation`, `_record_decision`, `load_request` | `sr_agent/orchestrator/confirmation.py`, `sr-agent confirm` in `cli.py` |
| Agent loop | iteration count, last observation, findings; blocks in the gate | `run`, `run_turn`, `execute_confirmed`, `_persist_finding` | `sr_agent/orchestrator/loop.py` |
| Chat sessions | snapshot, turn and PoC status records in episodic memory; a `ChatSession` object per process | `chat`, `chat --resume`, `handle_turn`, `resume_confirmation`, `save_turn`, `save_session`, `load_session`, `record_poc_status` | `cli.py`, `orchestrator/chat_session.py`, `packs/audit/dispatch.py` |
| Episodic memory | one append-only JSONL file per target, every record signed | `write`, `load`, `load_for_principal`, `verify_integrity` | `memory/episodic.py`, `memory/hmac.py`, `models/memory.py` |
| Lessons | pending candidates (one file each), promoted texts, a signed manifest | `capture`, `add`, `promote`, `dismiss`, `verify`, `retrieve` | `memory/lessons.py` |
| Relay and stage 2 | request and response files, a manifest per session | `run_stage2`, `request_analysis`, `ingest_response`, `save_response` | `packs/audit/planner/stage2.py`, `orchestrator/relay.py`, `packs/audit/relay_ingest.py` |
| Audit pipeline | a run-state file per session | `start_audit`, `resume_audit`, `_finish`, synthesis of findings into chains | `packs/audit/pipeline.py`, `planner/stage1.py`, `planner/stage3.py`, `planner/sig.py` |
| Guardrails | none | escalation triggers, severity correction, action validation | `guardrails/`, `packs/audit/escalation.py`, `packs/audit/guardrails/severity.py`, `orchestrator/action.py` |
| Model clients and routing | a readiness cache | `ChatReasoningProvider.complete`, `LocalClient` and the hosted clients | `llm_core/` |
| Sandbox and write/execute tools | containers, PoC files | `DockerSandbox.run`, `write_poc`, `run_tests` | `tools/sandbox.py`, `packs/audit/tools/write_execute.py` |
| PoC queue runner | the project's PoC folder, shared by all findings, and a per-finding pipeline of drafts, repairs, runs and checks | `_process_finding`, `mutation_verify`, `main` | `scripts/poc_queue_runner.py`, `scripts/solidity_fixers.py`, `scripts/patch_reconstruct.py` |
| Operator frontend | in-memory sessions, approval tokens, event queues, model configuration | `post_message`, `post_confirm`, `load_notice`, `decide`, `publish`, `_apply` | `frontend/backend/` |

### How they interact

* The **loop** asks a model for an action, validates it and dispatches it. A
  `write_execute` action is *filed* as a confirmation request. `run` then blocks
  and polls the file; `run_turn` (chat) returns, the session is saved as paused
  and the process ends.
* An **operator** decides from another process, `sr-agent confirm` or the web
  gate. Both rewrite the request's file in place, without a lock.
* A **resumed chat** reads the decision, rebuilds the action *from the file*,
  executes it, records a PoC status event, and saves the session as active.
* Sessions, turns, findings and status events are all records of **episodic
  memory**. A record that supersedes another hides it from every later load.
* The **pipeline** writes static findings to memory, emits relay requests,
  pauses, and ingests the answers on resume. Its report, and that of `run`, are
  made from what the memory of the project loads.
* The **PoC runner** takes findings of a report, asks a model for tests, captures
  failures as **lesson** candidates and puts promoted lessons into its prompts.

### What is hard here

* Files are shared by processes and rewritten by read, truncate, write.
* A process may die between any two effects, and a later process goes on from
  what is on disk.
* Timeouts race with late decisions.
* Nothing marks an approved request as used: only the session's own snapshot
  keeps an action from running again.
* Signatures are computed from Python objects and verified from parsed JSON.

`PROJECT.json` lists these hazards one by one, at the line where each bites.

### What makes each component correct

* *Confirmation and its users*: nothing is executed that a human did not approve
  under that id; a timeout blocks for good; unreadable means undecided; every
  run ends although nobody may ever answer.
* *Chat*: a snapshot names the request it waits for; executions are recorded and
  repeated only where a death or a concurrent resume explains it; a request that
  was let go stays let go.
* *Memory*: an acknowledged record stays; a correction stays in force; privileged
  statuses come from humans only.
* *Lessons*: what `retrieve` returns was promoted by a human and verifies.
* *Relay and pipeline*: every target is asked and ingested, once if nothing dies;
  the report comes after the last answer.
* *Guardrails*: first matching trigger wins; corrected severities satisfy both rules.
* *Frontend*: an approval follows a read notice; a session's status is that of
  its latest turn.
* *PoC runner*: a verdict rests on the final text of the test it is about and on a
  patch that lands whole; what one finding leaves behind does not undo another's.

## 2. Modules

| Module | Models | Extends |
|---|---|---|
| `ConfirmationGate` | abstract: file, grant, perform | |
| `ConfirmationStore` | request files and their unlocked rewriting, by operators and by a loop's timeout | |
| `AgentLoop` | `run` with its polling gate | `ConfirmationStore` |
| `ChatConfirmation` | chat processes, sessions, pause and resume | `ConfirmationStore` |
| `WebGate` | approval in the browser, beside `sr-agent confirm` | `ConfirmationStore` |
| `ChatRouting` | a turn's rounds, which model answers, the backend's model slots | |
| `TraceBus` | overlapping turns of a web session and the events of its viewers | |
| `EpisodicMemory` | the signed append-only files | |
| `AuditContract` | abstract: every target dealt with, then the report | |
| `AuditPipeline` | audit, stage 2 over relay or local model, resume, report | |
| `AuditSynthesis` | stage 3: severities, interference graphs, chains | |
| `AuditReport` | findings through the memory into reports | `EpisodicMemory`, `AuditSynthesis` |
| `LessonStore` | candidates, promotion, the signed manifest, retrieval | |
| `LookupRoundTrip` | one model call of the PoC runner with lookups, fallback and retries | |
| `SolidityText` | what the runner tells of a text, and the compile fixers | |
| `ReportFix` | the report's fix of a finding, made into a patch and applied | |
| `PocRunner` | the PoC queue: synthesis, drafts, repairs, verdicts, quarantine | the three above |
| `MC...` | instances and symmetry for TLC | the module named |
| `ConfirmationStore_proofs` | invariant of the request files | `ConfirmationStore` |
| `AgentLoop_proofs` | theorems about the loop | `AgentLoop`, store proofs |
| `ChatConfirmation_proofs` | theorems about the chat | `ChatConfirmation`, store proofs |
| `WebFrontend_proofs` | theorems about the browser's gate and its trace | `WebGate`, `TraceBus`, store proofs |
| `ChatRouting_proofs` | theorems about which model answers | `ChatRouting` |
| `AuditPipeline_proofs` | theorems about the audit | `AuditPipeline` |
| `LessonStore_proofs` | theorems about the lessons | `LessonStore` |
| `Findings_proofs` | theorems about findings in the memory, in reports and in the PoC queue; induction, call graphs, patches | `AuditReport`, `PocRunner` |

Each module also holds a few operators introduced by "Mistake for ...". They are
variants of an action or helper with one plausible error (a dropped guard, a
missing reset); no specification uses them. Substituting one for the definition
it precedes makes the property it names fail, which is how we know the property
can fail.

### ConfirmationStore

`file[c]` is what is on disk: absent, torn (empty or unparseable) or a status
with the action and the reason of the decision. `_record_decision` is three
steps, with `writer[w]` holding the process's local state between them:
`ReadForUpdate` (an unreadable body counts as `{}`, confirmation.py:126-129),
`Truncate` (the `open` of `write_text`) and `WriteBack`. A writer whose body is
shorter than one written since its own truncation leaves a tail and the file
does not parse, so `WriteBack` on a file that is not empty may tear it.
`WriterDies` stops between any two of them. `request_confirmation` is one step,
since nobody knows the id before it returns. History variables remember what was
filed, what operators chose to approve, and which ids saw overlapping decisions.

### AgentLoop

One action per way an iteration of `run` can go. A malformed answer, a rejected
action and a read-only dispatch all go round again (`ThinkAgain`); `escalate`,
`complete` and the uncaught `ValueError` for an unknown action end the run
(`Conclude`). A `write_execute` action is filed (`AskForConfirmation`), then
`SeeApproved`, `SeeRejected` or `SeeDeadline` is what a poll returns.
`SeeDeadline` to `FinishTimeout` is the timeout's own `_record_decision`: an
operator may decide between its steps, and the result is a rejection all the
same, without another look at the file. What the model answers is a free choice.

### ChatConfirmation

A process is off, at the prompt, between filing and saving, or at one of the
points of `resume_confirmation`. `snapshot` is the latest `chat_session` record
and the process's own copy of the pending id is in `proc`, so that a stale copy
can overwrite a newer snapshot as in the code. `Execute`, `RecordStatus` and
`SaveResumed` are separate steps with deaths between them. The snapshot is
written and stamped in one step; `load_session` takes the latest.

### WebGate

Fetching a notice (`load_notice`) runs in a worker thread: the request file is
read (`ReadNotice`) and only then a token is issued (`IssueToken`), which
replaces the token of any earlier fetch of that id. A decision (`decide`) runs on
the event loop, one at a time: it checks the token, goes through the three steps
of `_record_decision` as one more writer of the store, and drops the token the id
has *then* (`PopToken`). A write that fails leaves the token alive; a restart
forgets all tokens. `sr-agent confirm` decides beside it and knows no tokens.

### ChatRouting

The backend's two model slots change field by field in the threads of requests
(`PostChange`, `ApplyBackend` or `Refuse`, `ApplyKey`), while a session reads
them twice as it starts (`BuildMain`, `BuildAdditional`) and never again. A
terminal session is built on the local model. A turn probes the main client,
generates, and hands what a trigger or the model's own report escalates to the
additional client or to the file relay; then `Verdict` is what
`validate_action` and `run_turn` make of the action, and rejected, unknown and
dispatched actions go round again until `MaxToolCalls`. `DomainEscalation` is the
list of triggers in order; only the terminal shares the findings kept so far with
its provider (cli.py:635). A terminal session lives through processes: a turn that
pauses or raises ends its process (`EndsProcess`, cli.py:662-667), so do Ctrl-D and
a kill, and `chat --resume` (`Resume`) goes on in a new one, whose client, provider
and loop are new and whose `found` is empty (loop.py:103). `before` is history: what
the earlier processes kept. A session of the web keeps its loop. Abstracted: prompts, parsing (an answer parses or not),
HTTP (a call answers or raises). `additional_client` reads its slot in one step.

### TraceBus

Everything but the turns' worker threads runs on one event loop: `loopq` holds
the callbacks in the order scheduled, each a fan of one event to one set of
subscribers or the resumption of a message's handler. A thread that publishes
first captures the set object (`Capture`) and then schedules the fan
(`Schedule`); the set may have been dropped and replaced in between, which is why
sets are objects here (`sets`, `live`). `Fan` drops what has no room. A viewer
that has gone is noticed when something is sent to it (`Disconnect`).

### EpisodicMemory

`write` checks the status rules, signs and appends; a process that dies inside
the append leaves part of a line, and the next append continues that line. A
record verifies when its payload is printed in the same order before and after
the JSON round trip: integer keys sort as numbers when signed and as text when
verified. `load` drops what does not parse or verify, then what is superseded; a
line that is not valid UTF-8 makes it raise.

### AuditPipeline

One audit session and the processes that work on it: `audit` once, then any
number of `resume`s, which may overlap. `proc[p]` is a process's control point
with its copy of the manifest; `manifest` is the file. `_save_manifest` is two
steps, `TruncateManifest` and `PutManifest`, because an empty or mixed file loads
as no manifest at all (stage2.py:55-60). In `_run_stage2_step` a process loads the
manifest, files a request for each target no entry mentions, saves, ingests each
open entry whose response parses (`ReadResponse`, one `WriteFinding` per finding,
`FinishRequest`), saves again, and pauses or reports. With a local model
`CallModel`, `SkipTarget` and `FinishTarget` do the same without requests.
`Die` is a kill or an exception, anywhere. `Respond` stores anything a human may
bring, also over an earlier answer. `records` is the memory's file in order,
because `_finish` pairs findings with the notes of the last record of the same
id. Abstracted: stage 1 (any set of targets), the text of packets and answers,
invalid findings in a parsed answer (dropped one by one); what becomes of the
findings is `AuditReport`'s. Targets are a set; two overloads of one function
share a target name in the code and are asked about twice.

### AuditSynthesis and AuditReport

`AuditSynthesis` is stage 3 as operators over findings. A file has an
interference graph: from its text (`BuildSig`: the last overload of a name wins,
only variables declared in the file itself are recognised) or from
SmartGraphical's graph (`BuildSigFromSmartgraphical`: nodes are keyed by short
name, and state is propagated along calls in place, node after node). What a
function reads, writes and calls is data (`Code`, `Declared`, `Graphs`); the
regular expressions that find it, and the external-call flag that nothing in
stage 3 reads, are left out. `CheckSeverity` caps mitigated findings and raises
those with four preconditions; `RunStage3` links findings that interact and makes
two or more severe ones among them critical.

`AuditReport` puts `EpisodicMemory` in front of it: analysers and models write
findings as records (`RunStaticAnalysis`, `WriteFinding`), humans correct them
(`Correct`), appends may be torn, and `Finish` makes a report from all that the
memory of the project loads. Records of analysers are placed by line, those of
models by function.

### LessonStore

Three kinds of files and no locks: a pending candidate and a lesson per error
signature, and the manifest's lines. A write is a truncation and a text, with
other processes in between; `Unlink` may remove a candidate a writer holds open.
Harness runs capture (`Capture`, `CheckPromoted`, `OpenPending`, `WritePending`)
and retrieve (`Verify`, then `Read`); operators add, show, dismiss and promote
(`Approve` or `ApproveEdited`, `OpenLesson`, `ReplaceLesson`, `AppendRecord`,
`RemovePending`, `Report`). `Interrupt` is a death or a failing write between any
two steps; one inside an append leaves a line that swallows the next. The ranking
of `KnowledgeBase.search` is any choice of at most `TopK` of the files' texts.
`blamed` says for each signature what has gone wrong on it so far (a death,
crossing or late writers, a candidate queued again, a record glued to a cut
line), so that each property names the reasons it admits.

### The PoC runner

`LookupRoundTrip` is one `draft` or `fix` call: a budget of lookups per round
trip, one fallback from the tool protocol to the marker protocol, transport
retries around both; a tool call whose arguments are no object raises out of
everything. `SolidityText` abstracts a text to its classes of compile error, to
whether it is structurally real, to what its test does and to the base it
inherits; solc reports the first failing phase only, and each fixer removes one
class. `ReportFix` is the fix an audit report suggests: `ExtractFix` picks the
section by shared words, rarer ones counting more, `Reconstruct` makes an
illustrative diff into a real patch or refuses all of it, `GitApply` applies all
files or none, each hunk where its old lines are found nearest to its number.
`PocRunner` is `main`'s queue around `_process_finding`: an action per step, the
folder `audit/poc` shared by all findings (forge compiles all of it), a base
synthesized under a name the model chooses, verdicts, and the quarantine. `Die`
is a kill between any two steps, `CallRaises` an exception nobody handles; the
next run starts with the folder as it was left. Taken as given: an operator's
patch, and the section of the report that is a finding's own, do fix it; `patch`
behind a failed `git apply` places hunks as exactly as git does.

## 3. What TLC checks

| Run | Instance | Shows |
|---|---|---|
| `agent_loop` | 1 loop, 1 operator, 2 requests, 2 actions, 2 iterations; 552k states | no dispatch without a grant for that very action; a timed-out request is never dispatched; only operators approve; `run` terminates; the loop implements `ConfirmationGate` |
| `chat` | 2 processes on 1 session, 1 operator, 2 requests, 1 death per id | executions are granted, recorded, and at most deaths plus processes; snapshots are consistent; a retired request stays retired; the chat implements `ConfirmationGate` |
| `gate` | 2 tabs, web and terminal, 2 requests, 2 fetches, 3 decisions, 1 failure | an approval used the notice of that very request, once; an old notice does not undo a rejection; a body is lost only to decisions that collide |
| `memory` | 3 records, 2 files, 1 torn append; graphs with a cycle, an overload, a missing file; 331k states | deaths cost at most one acknowledged record each; corrections last; every severity and link of a report has its reason; findings leave reports only by correction |
| `audit` | 1 process at a time, 1 target, 3 requests, 2 deaths; 236k states | a finding is written, and a target asked about, at most once more per death; no request is orphaned without one; an answered audit reaches its report |
| `audit_overlap` | 2 processes at once, 2 targets, 2 requests; 1.6M states | the report waits for every target (`AuditContract`), and the audit keeps its types, while resumes revert each other's manifests |
| `lessons` | 2 runs, 2 operators, 1 signature, 2 texts, 1 death, 2 promotions | prompts get texts that were promoted; a promotion reported to verify lasts; leftovers have their reasons; what is approved is what was shown |
| `poc` | 2 findings, with or without one file name, 2 attempts, 1 death, 8 folders to start from; 481k states | verdicts are about the judged text and a fix of that finding; accepted proofs stay; what breaks the folder is accounted for; patches land whole; every run ends |
| `trace` | 2 turns of 3 events, 2 viewers, queues of 2 | events in order, gaps only from a viewer's own full queue; the session ends up with the right turn; every message is answered |
| `routing` | 2 requests to the slots, web or terminal with any number of resumes, 2 tool calls; 560k states | hosted models only where selected; no substitute tier; contradictions within one process escalate; every turn ends |
| `memory_roundtrip`, `routing_escalation` | 1 record; as `routing` | **violated**: see section 5 |

*Type invariants.* `AuditPipeline.TypeOK` is checked by `audit_overlap`; those of
the other modules (`TypeOK` of `AgentLoop`, `ChatConfirmation` and
`EpisodicMemory`, `GateTypeOK`, `TraceTypeOK`, `RoutingTypeOK`, `LessonTypeOK`,
`RunnerTypeOK`) are proved for every instance (section 4) and left out of the
configurations, so that each run asks about hazards. So is `LookupsBounded`.

*Bounds.* Two requests are the fewest for a decision on one to meet the wait
for another; two iterations let a second request follow a timeout. Two writers
of a request, in `gate` a tab and a terminal, and two chat processes are the
fewest for their read-modify-writes to overlap, and a third adds no new kind of
overlap. Two fetches make one notice old, three decisions reject, approve and
reject again. One death per id is enough to
repeat an execution and to meet the concurrent resume. Three records make a
correction of a correction and a bystander, or a chain with a third finding
beside it. For the audit,
two deaths lose the manifest twice, so three requests for one target; two
targets let one answer be pending while the other is ingested, and two processes
revert each other's manifests. Such reverts make one answer be ingested over and
over, so `MaxRecords` bounds the memory. Two captures and two promotions make
every pair of lesson processes overlap once. Two findings are a PoC
and one that comes after it. `LeftFolders` stands for the earlier runs: an empty
folder, a file a dead process left, a PoC whose base is gone. A queue of two is full
while a turn of three events runs. Two tool calls are a round before the last.
`Trials` are all sources of three lines
with every hunk of up to two body lines, and two sources of eight lines with every
pair of hunks that they bear out, in either order.

`MaxIterations`, `MaxToolCalls`, `TopK`, `Attempts`, `SynthRounds`, `DetRounds`,
`RetryAttempts`, `LookupBudget` and `QueueSize` are the code's own bounds, made
small. `MaxDeaths`, `MaxTears`, `MaxRecords`, `MaxRuns`, `MaxFetches`,
`MaxDecisions`, `MaxFailures`, `MaxPromotions`, `MaxCandidates`, `MaxAsked` and
`Steps` are bounds of the models in guards. The id sets bound the requests ever
filed. In `ChatRouting` no request reaches the slots once the session has its
clients: it could not change them.

*Symmetry* is used only in runs without liveness, over sets whose members the
specification never tells apart.

*Fairness.* `agent_loop` assumes weak fairness of the loop's own step and
of the passing of its deadline. The loop is a running process and
`time.monotonic()` advances; operators get no fairness, as nothing makes a human
answer. A crash is always possible and never required.
`audit` assumes that a running process goes on and that the operator keeps
resuming, which the command line asks for after each pause (cli.py:236-240). That
requests are answered is not assumed but a premise of the property: from some
time on, every request on file has a usable answer.
`poc` assumes weak fairness of the runner's steps: every model call and every
container has a timeout (`GEN_TIMEOUT_S`, `RUN_TIMEOUT_S`). `routing` assumes the
same of a turn. `trace` assumes that the event loop runs its callbacks and that
each turn's thread goes on; of browsers it assumes nothing.

*Deadlock* is checked for the chat, the audit and the routing. The loop and the
queue end by design, a session's messages run out, and in the other models
nothing more happens when the ids or the bounds are used up, so those runs turn
the check off.

## 4. What is proved

Every safety property and every action property that a passing run checks is
also a theorem, one of them (`VerdictsAreEarned`) under a premise; what is left to
TLC is liveness. The theorems hold for every value of the constants that satisfies
the assumptions of the modules
(`StoreAssumption`, `LoopAssumption`, `ChatAssumption`, `GateAssumption`,
`TraceAssumption`, `RoutingAssumption`, `MemoryAssumption`, `PipelineAssumption`,
`SynthesisAssumption`, `ReportAssumption`, `LessonAssumption`, `TripAssumption`,
`PocAssumption`): constants that stand for "no value" or for a file of another
kind differ from the values, sets that something is counted over are finite,
bounds are natural numbers, and what a model, a folder, a graph or a report may
hold is of the shape the code parses (a file has a sequence of functions, a
source a sequence of lines, a report a sequence of hunks, of any length). TLC
evaluates them on every run.

In each proofs module the conjuncts of the inductive invariant are named and
explained where they are defined, one lemma per action shows that it keeps
them, and a property that is not inductive alone follows from the conjunction.

**Store.** `StoreInv` says who may be in `writer` with which id, that a file is
absent exactly when its id was never filed, that a writer about to write
`approved` works for a granted id, and that a writer's body is the filed one
unless the id is contended. A quiet id (no writer on it) that is not contended
has an intact file. `StoreStepKeepsInv` proves it preserved by every step of a
writer; its users, the loop and the chat, build on it.

**Loop.** `AgentLoop_proofs` adds what the loop knows at each control point: at
`dispatch` the id it waits for is granted and the action in memory is the one
filed; in `record` its writer carries a rejection for that id; an id in
`timedOut` is nobody's `waiting`. From it follow `TypeCorrect`,
`OnlyOperatorsApprove`, `BodiesSurvive`, `DispatchesGranted`, `TimeoutIsFinal`
and, step by step, `LoopImplementsGate`.

**Chat.** The invariant says that a process past `ResumeApproved` holds a granted
id and the action filed for it, and that snapshots and processes refer only to
filed ids. `ExecutionsGranted`, `SnapshotsConsistent`, `BodiesSurvive`,
`RetirementLasts` and `ChatImplementsGate` follow.

**Executions.** Neither counting property is inductive. `RunsRecorded` needs
that the processes at `record` are exactly the executions still owed an event;
`RunsAccounted` needs a potential: for each id, executions plus the processes
that may still execute or save it is at most deaths plus all processes, and once
no snapshot names the id, only the processes that already hold it count. The
proof compares cardinalities of those sets across each step.

**Gate.** `ApprovalsReviewed` and `RejectionsLast` are about tokens, and a token
is a fetch: `TokenInv` says that no two tabs and no two ids hold the same one and
that a fetch under way has issued none, `NoticeInv` that the notice behind a token
showed the action of the request the token is for, `UsedInv` that a token that
approved is gone once the decision is over. `RejectedInv` is what a rejection in
the browser leaves behind: every notice that could still approve either shows it
or is counted as straddling it. Beside them stands the store's `StoreInv`, the
backend being one more writer.

**Trace.** `TraceFaithful` needs the order to hold along the whole way: what a
viewer was sent, its queue, the callbacks of the event loop (`OrderInv`); and that
a set of subscribers taken by a thread still holds every viewer it was taken for
that is there (`SetsInv`): a set is dropped only when its last viewer has left.
`SessionFollows` is inductive only when the "last" message is that among the
answered ones (`SessionInv`), since later messages may still be running.

**Routing.** The invariant ties what each client did in a round to the control
point of the turn (`RoundInv`), and says of a finding on its way to be kept that
it contradicts none that was (`FindingInv`). `ContradictionsEscalate` is about the
findings one process keeps: `ResumeKeepsInv` is the case where they are gone. Across
processes the property is false (`MCChatResumed.cfg`, section 5).

**Memory.** `CorrectionsHold` rests on the append being the only change: a line
an acknowledged record is alone on never changes, because only an open last line
does. `AppendsKept` strengthens the bound to missing records plus files with an
open line being at most the deaths. `AuditsKeepMemory` is the refinement that
carries both over to the composition the run `memory` checks: every step of
`AuditReport` is a step of the memory's own specification or leaves it alone.

**Report.** `ReportsGrow` compares two reports made at different times. The
invariant keeps of the last report that it is what stage 3 makes of its findings,
each of them verified and still in its file unless its write never returned; a
finding missing from the next one is then superseded. That severities do not fall
is a lemma about `RunStage3`: with more findings, what interacted still does
(`ChainsGrow`), and what was raised still is (`SeveritiesGrow`).

`ReportsJustified` compares the links and severities of a report with a reference
that knows no algorithm: the functions a function calls are the least set closed
under calls (`CallTree`), and two functions share state if what they touch through
their trees overlaps in something written. `ReachableIsTree` shows that the search
along calls finds that set: as long as a round finds something new it has found at
least as many functions as there were rounds, so as many rounds as functions are
enough. `GraphShowsSharing` is about the propagation in place, which reads nodes
that were or were not extended before. Its invariant brackets every node between
its own edges and those of its whole tree (`IsPartial`); a node that has had its
turn is whole (`IsWhole`), because whatever it inherits lies in its tree and has
its own edges at least. Order and cycles make no difference. A graph made from the
text shows no more sharing than there is (`TextShowsNoMore`), and may show less:
of overloads it keeps the last.

**Audit.** `PipelineImplementsContract` holds with any number of overlapping and
dying processes, although they lose each other's manifest entries. The invariant
says why: a manifest, in a process or in the file, may miss entries but never
lists a request that was not filed nor calls ingested what was not; each process
asks for what its own copy does not mention, so from `save requests` on its copy
covers the targets; and what is open in it stays to be looked at until it is
ingested or makes the run pause.

The counts (`CopiesAreExplained`, `RequestsAreExplained`, `NoRequestOrphaned`)
hold while no two processes overlap. `CountInv` then has one process whose copy
of the manifest can be compared with the file: a second record of a finding, or a
second request for a target, is written only by a process whose manifest misses
the first, and it misses it only after a death. The proof counts the positions
and the requests concerned, as for the chat.

**Lessons.** Each property admits only the causes recorded in `blamed`, so the
invariant says at each control point what can be wrong without one: a lesson file
being replaced is torn or holds the promotion's text (`LessonInv`), a candidate
being written is torn and has one writer (`OpenedInv`, `OneWriter`), a process
past its checks proposes nothing promoted (`FreeInv`), and what an operator has
seen of a signature is all there was to see (`SeenInv`). The last one was false at
first: the record of a promotion that lands on a cut line is lost, the signature
counts as not promoted, and a new candidate may be approved over an old reading.
The model now records that cause (`glued`). The run `lessons` has too few
promotions to get there; `MCLessonLost.cfg` does.

**PoC queue.** `QueueInvariantHolds` is about the typing of a finding's run
(`QueueTypeOK`), the shared folder (`FolderInv`), what the last test says and of
which text (`TestInv`), and the order of verdicts (`ProofInv`). From it follow
`FolderIsExplained` and `ProofsStand` whatever the model, the compiler and the
sandbox answer and wherever a process dies. `VerdictsEarned` has a premise: the
patch that applies for a finding takes away that finding's bug. What
`_resolve_fix` takes from a report is a guess by shared words, and reports exist
for which it is wrong, so the premise cannot be proved away. It follows from a
condition on the report and the titles alone (`VerdictsOfMendingReports`): the diff
a title finds removes the finding's line wherever it stands and does not add it
again. That its patch then really leaves the project without that line is what
`BlockPatched` and `EditedWithout` prove. The report of the run `poc`, which has a
second section that shares words with a finding, meets the condition; there the
property is checked without it. `LookupsStayBounded` is by an invariant of
`LookupRoundTrip` alone (`LookupInv`): what was served is at most a full budget for
each try before this one and what this one has spent, with one fallback.

**Patches.** `PatchesLand` rests on `EveryPatchLands` (and it on `BlockPatched`, for
any number of files): for every source and every sequence of hunks, a patch that
`Reconstruct` makes and `GitApply` accepts is the edit the report means. The reason
is that an anchor is one line of the source and that no hunk is applied to lines
that an earlier one put there. `IsImage` states it for the file between two hunks: it is one segment per source line, and a segment is
the line itself until a hunk covers it and fresh lines afterwards. So the next hunk
fits at its anchor's segment and nowhere else, and only if no line it needs is
covered (`FitsAtItsLine`): the line numbers, which earlier hunks shift and which are
wrong when the report has its hunks in another order, decide nothing. `ApplyStep`
keeps the invariant, `HunkEdits` says that the new lines of a hunk are the edit of
the lines it covers, and after the last hunk the segments are those of `Edited`
(`EditedByAll`). Hunks that overlap make the patch fail as a whole.

**Induction.** No theorem of the library that takes a predicate can be used, so the
lemmas at the head of `Findings_proofs` do without: a set of natural numbers has a
least element (`Least`, from the well-foundedness of `<`), hence a set with 0 and the
successors of its members holds all numbers (`Induction`), and each proof names the
set it needs. That a recursive function or a fold is what its equation says
(`RecursionExists`, `FoldExists`, `FlatExists`) is proved the same way, on functions
up to a bound. `Part(s, i, j)`, what `FlattenSeq` makes of places i to j, carries the
patches: it is taken apart at the ends and in the middle (`PartLast`, `PartJoin`) and
compared place by place (`PartOnEach`).

**Only model-checked.** Liveness: termination of `run`, of a turn, of the PoC
queue, of the audit and of a web message (`RunTerminates`, `EveryTurnEnds`,
`EveryRunEnds`, `AnsweredAuditsAreReported`, `MessagesAnswered`); the prover has
neither fairness nor ENABLED. Which section of a given report `ExtractFix` picks.

**Assumed, not proved**: signatures cannot be forged and ids and tokens do not repeat (uuid4,
`secrets`); a `write_text` is seen by others as truncate, then all bytes.

## 5. Where code and documents disagree

Two runs that TLC shows violated are findings of `PROJECT.json`, with quotes:

1. **A signed finding may not verify when read back** (`memory_roundtrip`).
   Integer keys are sorted as numbers when signed and as text when verified.
2. **An escalation may raise out of the turn** (`routing_escalation`). The
   fallback to the relay catches the errors of two of the three clients.

Ten configurations outside the run list each end with a counterexample too. Run
them with `tlc -config <cfg> <module>`:

| Configuration | Module | What the code does instead |
|---|---|---|
| `MCChatPaused.cfg` | `MCChatConfirmation` | a resumed, undecided session goes to the prompt, and its next turn overwrites the pending id |
| `MCChatResumed.cfg` | `MCChatRouting` | a resumed session has no findings to compare with, so one that contradicts an earlier one is kept quietly; a trigger for "different verdicts across sessions" was decided (specs/001 research.md:213), and later turns are not to contradict recorded findings (FR-009 of specs/003) |
| `MCMemoryCorrections.cfg` | `MCEpisodicMemory` | a record without a status change may supersede any other, whatever its source: `_enforce_status_rules` returns before the check |
| `MCMemoryDecode.cfg` | `MCEpisodicMemory` | a line cut inside a character makes every load of its file raise |
| `MCAuditNotes.cfg` | `MCAuditPipeline` | notes are looked up by finding id, and ids repeat across targets |
| `MCAuditCoverage.cfg` | `MCAuditPipeline` | targets the local model skipped are reported as analyzed |
| `MCAuditStatic.cfg` | `MCAuditReport` | a static finding's place is `file:line`, which no graph of functions knows: it is never linked in a file that has a graph |
| `MCAuditCopies.cfg` | `MCAuditReport` | stage 3 tells findings apart as objects: a severe finding that two audits wrote is a critical chain with itself |
| `MCPocBlocked.cfg` | `MCPocRunner` | a base synthesized for one finding replaces the one an accepted PoC inherits; nothing builds any more |
| `MCPocNames.cfg` | `MCPocRunner` | ids that differ in punctuation become one file name: the later finding overwrites, and quarantines, the accepted proof of the earlier one |

Two more configurations outside the list pass: `MCEpisodicMemory.cfg`, an instance
of the memory alone, and `MCLessonLost.cfg` (module `MCLessonStore`, 1.5M states),
one operator's three promotions around a record lost to a cut line.

Met on the way, and not the subject of a configuration:

* The model slots are read when a session starts (sessions.py:97-114), while
  model_config.py:40-41 and spec 005 say that a change takes effect on the next turn.
* A model that goes away between `ready()` and `generate()` raises out of
  `run_turn`, which catches `ValueError` only.
* `validate_action` is documented never to raise, and does for a block count that
  is not a number.
* A web session does not share its findings with its provider, as a terminal
  session does (cli.py:635), so contradictions never escalate there.
* A request to the slots that is refused has assigned endpoint and model already.
* An answer of the additional agent that does not parse is reported as tier "local".
* The trace view says that reconnecting loses nothing; there is no replay.
* Of overloads, and of functions of one name in several contracts, the graphs keep
  one node: the last one's accesses, or everybody's.
* A session that fails to start after its clone leaves workspace and record behind.
* A promotion whose record lands on a manifest line that a death cut short returns
  as if it had succeeded (lessons.py:237), and nobody ever loads its lesson.

## 6. Not modelled, and the plan

Worth adding next: that the report names every target as analyzed or not; stage 1,
now any list of targets, as the selection the code makes; and diffs of kind `real`
in the condition on reports, which are applied as they are.

Left out: turn records, grounding facts and the roadmap view of the chat (no
control depends on them); principals in memory (one project); `verify_integrity`'s
counts; docker and its kill after a timeout; the analysers and the model APIs
behind their wrappers; the symbol index's parser, prompts and hints of the PoC
runner; cloning, health and memory views of the frontend (reads, or one `git`
call); the triggers and severities nothing passes an argument to; evaluation,
benches, code graph and fine-tuning scripts (offline, sequential); the web UI;
`checkpoint.py` (no caller).
