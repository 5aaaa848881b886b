------------------------------ MODULE PocRunner ------------------------------
(* The PoC queue runner (scripts/poc_queue_runner.py): one finding at a time  *)
(* it synthesizes a deploy base when the project has none that fits, asks the *)
(* model for a PoC, writes it under audit/poc, runs forge in the sandbox,     *)
(* repairs or asks again, falsifies a pass against the finding's own fix, and *)
(* moves what did not succeed out of the way.  The folder is shared by all    *)
(* findings and all runs: forge compiles every file in it, whichever test it  *)
(* is asked to run.  Prompts, hints, events and lessons leave this state      *)
(* alone; texts are abstracted by SolidityText.                               *)
EXTENDS LookupRoundTrip, SolidityText, ReportFix

CONSTANTS
    NumTasks,         \* the length of the task list
    Paths,            \* PoC files, one per identifier a finding id maps to
    LeftFolders,      \* the folders earlier processes may leave audit/poc in
    Listings,         \* the task lists the model may extract: task -> file, title
    TasksFrom,        \* --tasks-from: the list it is given instead, if any
    Names,            \* contract names the model gives to a base
    Drafts,           \* the texts the model writes, without their base
    BaseErrors,       \* the error sets of the bases the model writes
    Needs,            \* the contract types each finding needs deployed
    ProjectBases,     \* the tracked bases of the project's tests
    InheritedBy,      \* how many test contracts inherit each
    Provides,         \* the types each declares a state variable of
    Parents,          \* the bases each inherits
    OperatorBases,    \* --test-scaffold
    OperatorPatches,  \* the tasks with a --fix-patch
    Project,          \* the target's sources: path -> lines
    Bugs,             \* task -> the line its finding is about, and the path
    Trials,           \* sources and hunks reconstruction is tried on
    Attempts,         \* --attempts
    SynthRounds,      \* SYNTH_REPAIR_ROUNDS
    DetRounds,        \* DET_REPAIR_ROUNDS
    RequirePass,      \* only a green run counts (--require-pass or --fork)
    Fork,             \* tests run against a remote fork, which may fail them
    MaxRuns, MaxDeaths  \* bounds

Tasks == 1..NumTasks

NoFile == [file |-> "none"]
Own == [name |-> "project", owner |-> 0]
Bases == {Own} \cup [name: Names, owner: Tasks]
Synthesized(base) == base # Own

ASSUME PocAssumption ==
    /\ NumTasks \in Nat
    /\ OperatorBases \subseteq ProjectBases
    /\ InheritedBy \in [ProjectBases -> Nat]
    /\ Parents \in [ProjectBases -> SUBSET ProjectBases]
    /\ OperatorPatches \subseteq Tasks
    /\ \A t \in Tasks : Bugs[t].line \in Range(Project[Bugs[t].path])
    /\ {Attempts, SynthRounds} \subseteq Nat \ {0}
    /\ DetRounds \in Nat /\ MaxRuns \in Nat /\ MaxDeaths \in Nat
    /\ \A list \in Listings \cup TasksFrom : \A t \in Tasks : list[t].file \in Paths
    /\ LeftFolders \subseteq [Paths -> {NoFile} \cup Texts(Bases)]
    /\ Drafts \subseteq [errs: SUBSET Errors, defective: BOOLEAN, run: Behaviours]
    /\ BaseErrors \subseteq SUBSET Errors
    /\ Names \cap Paths = {} /\ {"none", "smoke"} \cap (Names \cup Paths) = {}
    /\ Trials \subseteq [source : Seq(SourceLines), hunks : Seq(ReportHunks)]
    /\ {RequirePass, Fork} \subseteq BOOLEAN
    /\ Fork => RequirePass

VARIABLES
    run,       \* what the process is doing
    listed,    \* task -> the PoC file its id maps to, and its title
    poc,       \* the files of audit/poc
    synth,     \* the files of audit/poc/_synth
    smoke,     \* the base the smoke test imports, while there is one
    failed,    \* the files of audit/poc_failed
    runs, deaths,
    verdict, judged,   \* per task of this run: outcome and the text it is of
    debris,    \* history: what dead processes left half done
    touched    \* history: bases replaced or removed under a PoC that uses them

disk == <<poc, synth, smoke, failed>>
history == <<verdict, judged, debris, touched>>
counts == <<listed, runs, deaths>>
runnerVars == <<run, disk, counts, history, trip>>

NoTest == [compiled |-> FALSE, passed |-> FALSE, reported |-> {}]
Off == [pc |-> "off", task |-> 0, base |-> Own, name |-> "none", round |-> 0,
        attempt |-> 0, code |-> NoFile, test |-> NoTest, outcome |-> "none"]

Successes == {"passed_verified", "passed_unchecked", "compiled"}
Failures == {"draft_failed", "sandbox_unavailable", "run_error", "fix_failed",
             "unverified_pass", "vacuous_pass", "reverted_exhausted",
             "compile_only_defective", "exhausted"}
Outcomes == {"none"} \cup Successes \cup Failures

(* The model's extraction of the report names findings anew in every run; a  *)
(* list that is given is taken as it is.                                     *)
LoadPinnedTasks == TasksFrom
ExtractTasks == IF TasksFrom # {} THEN LoadPinnedTasks ELSE Listings

At(pc) == run.pc = pc
Path == listed[run.task].file

-----------------------------------------------------------------------------
(* The build and the sandbox                                                *)

ErrorsOf(file) ==
    IF file = NoFile THEN {}
    ELSE file.errs \cup
         (IF Synthesized(file.base) /\ synth[file.base.name] # [owner |-> file.base.owner, errs |-> {}]
          THEN {Gone} ELSE {})
BaseErrorsOf(n) == IF synth[n] = NoFile THEN {} ELSE synth[n].errs
SmokeErrors == IF smoke # "none" /\ synth[smoke] = NoFile THEN {Gone} ELSE {}

(* Every file of the folder is compiled, and the first failing phase is     *)
(* reported, whichever file it fails in.                                    *)
AllErrors ==
    UNION ({ErrorsOf(poc[p]) : p \in Paths} \cup {BaseErrorsOf(n) : n \in Names} \cup {SmokeErrors})
Builds == AllErrors = {}

(* A file with no test is compiled, but forge runs nothing, prints no "Ran" *)
(* and still exits 0; over a fork any test may fail for want of an answer.  *)
Passes(text, patched) ==
    CASE text.run = "inert" -> {FALSE}
      [] text.run = "untested" -> {TRUE}
      [] text.run = "always" -> {TRUE} \cup (IF Fork THEN {FALSE} ELSE {})
      [] text.run = "exploit" -> {~patched} \cup (IF Fork THEN {FALSE} ELSE {})
TestResults(text, patched) ==
    IF ~Builds THEN {[compiled |-> FALSE, passed |-> FALSE, reported |-> Reported(AllErrors)]}
    ELSE {[compiled |-> Ran(text), passed |-> ok, reported |-> {}] :
            ok \in Passes(text, patched)}

-----------------------------------------------------------------------------
(* The run and its queue                                                    *)

RunnerInit ==
    /\ run = Off /\ runs = 0 /\ deaths = 0
    /\ listed \in ExtractTasks
    /\ poc \in LeftFolders
    /\ synth = [n \in Names |-> NoFile]
    /\ smoke = "none" /\ failed = {}
    /\ verdict = [t \in Tasks |-> "none"] /\ judged = [t \in Tasks |-> NoFile]
    /\ debris = {p \in Paths : ErrorsOf(poc[p]) # {}} /\ touched = {}
    /\ TripInit

StartRun ==
    /\ At("off") /\ runs < MaxRuns /\ ~StartupError
    /\ runs' = runs + 1
    /\ run' = [Off EXCEPT !.pc = "next", !.task = 1]
    /\ listed' \in ExtractTasks
    /\ verdict' = [t \in Tasks |-> "none"] /\ judged' = [t \in Tasks |-> NoFile]
    /\ UNCHANGED <<disk, deaths, debris, touched, trip>>

EndRun == run' = Off

(* main() ends after the last finding, or before any finding once the wall  *)
(* clock budget is spent.                                                   *)
FinishRun ==
    /\ At("next")
    /\ run.task \notin Tasks
    /\ EndRun
    /\ UNCHANGED <<disk, counts, history, trip>>

BudgetReached ==
    /\ At("next") /\ run.task \in Tasks
    /\ EndRun
    /\ UNCHANGED <<disk, counts, history, trip>>

(* The scaffold: what the operator named, else the base the project's own   *)
(* tests inherit most, of several the one the folder lists first.           *)
ResolveScaffold ==
    LET most == {b \in ProjectBases : InheritedBy[b] > 0
                    /\ \A c \in ProjectBases : InheritedBy[c] <= InheritedBy[b]}
    IN  IF OperatorBases # {} THEN OperatorBases
        ELSE IF most = {} THEN {} ELSE {CHOOSE b \in most : TRUE}

(* The types no base of the scaffold declares, nor, where there is an index *)
(* to resolve them, the bases it inherits.                                  *)
ScaffoldMissingTypes(task) ==
    IF ResolveScaffold = {} THEN {}
    ELSE Needs[task] \ UNION {Provides[b] : b \in ResolveScaffold
                                \cup (IF Indexed THEN UNION {Parents[b] : b \in ResolveScaffold} ELSE {})}

Draft(base) == run' = [run EXCEPT !.pc = "draft", !.base = base, !.name = "none", !.round = 0]

BeginFinding ==
    /\ At("next") /\ run.task \in Tasks
    /\ \/ /\ ScaffoldMissingTypes(run.task) # {}
          /\ run' = [run EXCEPT !.pc = "synth"]
          /\ UNCHANGED trip
       \/ /\ ScaffoldMissingTypes(run.task) = {}
          /\ Draft(Own) /\ StartTrip
    /\ UNCHANGED <<disk, counts, history>>

-----------------------------------------------------------------------------
(* Scaffold synthesis                                                       *)

(* History: changing a base that a PoC of the folder inherits.              *)
Touch(n) ==
    touched' = IF \E p \in Paths : poc[p] # NoFile /\ poc[p].base.name = n
               THEN touched \cup {n} ELSE touched

NoSynthOutput ==
    /\ At("synth")
    /\ Draft(Own) /\ StartTrip
    /\ UNCHANGED <<disk, counts, history>>

(* The base is written under the first contract name of the model's text,   *)
(* next to a smoke test that inherits it.                                   *)
SynthesizeScaffold(n, errs) ==
    /\ At("synth")
    /\ synth' = [synth EXCEPT ![n] = [owner |-> run.task, errs |-> SeqSynthPrewrite(errs)]]
    /\ smoke' = n
    /\ run' = [run EXCEPT !.pc = "smoke", !.name = n, !.round = 1]
    /\ Touch(n) /\ debris' = debris \ {n, "smoke"}
    /\ UNCHANGED <<poc, failed, counts, verdict, judged, trip>>

(* Mistake for FolderExplained: an infra error returns without its cleanup. *)
LeaveBaseBehind ==
    /\ At("smoke")
    /\ Draft(Own) /\ StartTrip
    /\ smoke' = "none"
    /\ UNCHANGED <<poc, failed, synth, counts, history>>

(* A base is removed, or renamed to .rejected, which forge does not read.   *)
DiscardBase ==
    /\ At("smoke")
    /\ synth' = [synth EXCEPT ![run.name] = NoFile]
    /\ smoke' = "none"
    /\ Touch(run.name)
    /\ Draft(Own) /\ StartTrip
    /\ UNCHANGED <<poc, failed, counts, verdict, judged, debris>>

AcceptBase ==
    /\ At("smoke") /\ Builds
    /\ smoke' = "none"
    /\ Draft([name |-> run.name, owner |-> run.task]) /\ StartTrip
    /\ UNCHANGED <<poc, failed, synth, counts, history>>

RepairedBase == SeqSynthRepair(synth[run.name].errs, Reported(AllErrors))

RepairBase ==
    /\ At("smoke") /\ ~Builds
    /\ run.round < SynthRounds /\ RepairedBase # synth[run.name].errs
    /\ synth' = [synth EXCEPT ![run.name].errs = RepairedBase]
    /\ run' = [run EXCEPT !.round = @ + 1]
    /\ UNCHANGED <<poc, smoke, failed, counts, history, trip>>

RejectBase ==
    /\ At("smoke") /\ ~Builds
    /\ run.round = SynthRounds \/ RepairedBase = synth[run.name].errs
    /\ DiscardBase

SmokeInfraError == DiscardBase

-----------------------------------------------------------------------------
(* Draft, run, repair in place                                              *)

WaitForModel ==
    /\ At("draft") \/ At("fix")
    /\ TripStep
    /\ UNCHANGED <<run, disk, counts, history>>

Text(draft) ==
    [errs |-> SeqPostmodel(draft.errs, ResolveScaffold # {} \/ Synthesized(run.base)), defective |-> draft.defective,
     run |-> draft.run, base |-> run.base]

(* draft() without a Solidity text: the finding is over, and neither the    *)
(* quarantine nor task_done is reached.                                     *)
DraftFailed ==
    /\ At("draft") /\ trip.pc \in {"failed", "empty"}
    /\ verdict' = [verdict EXCEPT ![run.task] = "draft_failed"]
    /\ run' = [Off EXCEPT !.pc = "next", !.task = run.task + 1]
    /\ EndTrip
    /\ UNCHANGED <<disk, counts, judged, debris, touched>>

DraftReturned ==
    /\ At("draft") /\ trip.pc = "code"
    /\ \E draft \in Drafts : run' = [run EXCEPT !.pc = "write", !.code = Text(draft), !.attempt = 1]
    /\ EndTrip
    /\ UNCHANGED <<disk, counts, history>>

WritePoc ==
    /\ At("write")
    /\ poc' = [poc EXCEPT ![Path] = run.code]
    /\ debris' = debris \ {Path}
    /\ run' = [run EXCEPT !.pc = "run", !.round = 0]
    /\ UNCHANGED <<synth, smoke, failed, counts, verdict, judged, touched, trip>>

Conclude(outcome) == run' = [run EXCEPT !.pc = "finish", !.outcome = outcome]

RunFails(outcome) ==
    /\ At("run")
    /\ outcome \in {"sandbox_unavailable", "run_error"}
    /\ Conclude(outcome)
    /\ UNCHANGED <<disk, counts, history, trip>>

RunTests ==
    /\ At("run")
    /\ \E test \in TestResults(run.code, FALSE) : run' = [run EXCEPT !.pc = "repair", !.test = test]
    /\ UNCHANGED <<disk, counts, history, trip>>

RepairedCode == [run.code EXCEPT !.errs = SeqDraftInplace(@, run.test.reported)]
Repairable == ~run.test.compiled /\ run.round < DetRounds /\ RepairedCode # run.code

(* The harness rewrites the file itself and compiles again, outside the     *)
(* attempts budget.                                                         *)
RewriteInPlace ==
    /\ At("repair") /\ Repairable
    /\ poc' = [poc EXCEPT ![Path] = RepairedCode]
    /\ run' = [run EXCEPT !.pc = "rerun", !.code = RepairedCode, !.round = @ + 1]
    /\ UNCHANGED <<synth, smoke, failed, counts, history, trip>>

RunAgain ==
    /\ At("rerun")
    /\ \E test \in TestResults(run.code, FALSE) : run' = [run EXCEPT !.pc = "repair", !.test = test]
    /\ UNCHANGED <<disk, counts, history, trip>>

(* An infra error here keeps the result of the text before the repair.      *)
RunAgainFails ==
    /\ At("rerun")
    /\ run' = [run EXCEPT !.pc = "judge"]
    /\ UNCHANGED <<disk, counts, history, trip>>

EndRepair ==
    /\ At("repair") /\ ~Repairable
    /\ run' = [run EXCEPT !.pc = "judge"]
    /\ UNCHANGED <<disk, counts, history, trip>>

-----------------------------------------------------------------------------
(* Classify                                                                 *)

RealPass == run.test.passed /\ ~run.code.defective
CompiledReal == run.test.compiled /\ ~run.code.defective
CountsAsCompiled == CompiledReal /\ ~RequirePass

LastOutcome ==
    CASE run.test.passed -> "vacuous_pass"
      [] ~run.test.passed /\ CompiledReal -> "reverted_exhausted"
      [] ~run.test.passed /\ run.test.compiled /\ run.code.defective -> "compile_only_defective"
      [] OTHER -> "exhausted"

Judge ==
    /\ At("judge")
    /\ \/ RealPass /\ run' = [run EXCEPT !.pc = "verify"] /\ UNCHANGED trip
       \/ ~RealPass /\ CountsAsCompiled /\ Conclude("compiled") /\ UNCHANGED trip
       \/ /\ ~RealPass /\ ~CountsAsCompiled
          /\ \/ run.attempt = Attempts /\ Conclude(LastOutcome) /\ UNCHANGED trip
             \/ run.attempt < Attempts /\ run' = [run EXCEPT !.pc = "fix"] /\ StartTrip
    /\ UNCHANGED <<disk, counts, history>>

FixReturned ==
    /\ At("fix") /\ trip.pc = "code"
    /\ \E draft \in Drafts :
        run' = [run EXCEPT !.pc = "write", !.code = Text(draft), !.attempt = @ + 1, !.test = NoTest]
    /\ EndTrip
    /\ UNCHANGED <<disk, counts, history>>

(* Mistake for EveryRunEnds: a reply without Solidity costs no attempt.     *)
FixNoCodeForFree ==
    /\ At("fix") /\ trip.pc = "empty"
    /\ run' = [run EXCEPT !.pc = "write", !.test = NoTest]
    /\ EndTrip
    /\ UNCHANGED <<disk, counts, history>>

(* A reply without Solidity never replaces the last text.                   *)
FixNoCode ==
    /\ At("fix") /\ trip.pc = "empty"
    /\ run' = [run EXCEPT !.pc = "write", !.attempt = @ + 1, !.test = NoTest]
    /\ EndTrip
    /\ UNCHANGED <<disk, counts, history>>

FixFailed ==
    /\ At("fix") /\ trip.pc = "failed"
    /\ Conclude("fix_failed")
    /\ EndTrip
    /\ UNCHANGED <<disk, counts, history>>

(* An operator's patch is used as it is, a report's fix only as far as it   *)
(* can be turned into a patch with certainty.                               *)
ResolveFix(task) ==
    IF task \in OperatorPatches THEN Refused
    ELSE Reconstruct(Project, ExtractFix(listed[task].title))
Patched(task) == IF ResolveFix(task) = Refused THEN Failed ELSE GitApply(Project, ResolveFix(task))

(* The patch applies; what it leaves of the bug.  An operator's patch is     *)
(* taken to be a fix of the finding it is given for.                         *)
Applies(task) == task \in OperatorPatches \/ Patched(task) # Failed
Fixed(task) ==
    \/ task \in OperatorPatches
    \/ Patched(task) # Failed /\ Bugs[task].line \notin Range(Patched(task)[Bugs[task].path])

(* No usable fix, or a patch that does not apply or build, or no sandbox:   *)
(* the pass stays unchecked.                                                *)
VerifyUnavailable ==
    /\ At("verify")
    /\ Conclude("passed_unchecked")
    /\ UNCHANGED <<disk, counts, history, trip>>

(* The same PoC on a copy of the project with the fix applied: a test that  *)
(* now fails depended on the bug.                                           *)
MutationVerify ==
    /\ At("verify") /\ Applies(run.task)
    /\ \E test \in TestResults(run.code, Fixed(run.task)) :
        Conclude(IF ~test.compiled THEN "passed_unchecked"
               ELSE IF test.passed THEN "unverified_pass" ELSE "passed_verified")
    /\ UNCHANGED <<disk, counts, history, trip>>

(* Mistake for AcceptedProofsStand: an unchecked pass is quarantined.       *)
QuarantineUnchecked ==
    /\ At("finish")
    /\ \/ run.outcome \in Successes \ {"passed_unchecked"} /\ UNCHANGED <<poc, failed>>
       \/ /\ run.outcome \notin Successes \ {"passed_unchecked"}
          /\ poc' = [poc EXCEPT ![Path] = NoFile]
          /\ failed' = failed \cup {Path}
    /\ verdict' = [verdict EXCEPT ![run.task] = run.outcome]
    /\ judged' = [judged EXCEPT ![run.task] = run.code]
    /\ run' = [Off EXCEPT !.pc = "next", !.task = run.task + 1]
    /\ UNCHANGED <<synth, smoke, counts, debris, touched, trip>>

(* Quarantine, task_done, and on to the next finding.                       *)
FinishFinding ==
    /\ At("finish")
    /\ \/ run.outcome \in Successes /\ UNCHANGED <<poc, failed>>
       \/ /\ run.outcome \notin Successes
          /\ poc' = [poc EXCEPT ![Path] = NoFile]
          /\ failed' = failed \cup {Path}
    /\ verdict' = [verdict EXCEPT ![run.task] = run.outcome]
    /\ judged' = [judged EXCEPT ![run.task] = run.code]
    /\ run' = [Off EXCEPT !.pc = "next", !.task = run.task + 1]
    /\ UNCHANGED <<synth, smoke, counts, debris, touched, trip>>

(* History: what is half done when the process ends here.                   *)
HalfDone ==
    (IF run.code # NoFile /\ (~At("write") \/ run.attempt > 1 \/ poc[Path] = run.code)
     THEN {Path} ELSE {})
    \cup (IF At("smoke") THEN {run.name, "smoke"} ELSE {})

ProcessEnds ==
    /\ debris' = debris \cup HalfDone
    /\ EndRun /\ EndTrip

(* An error no handler expects, raised by a model call, ends main().        *)
CallRaises ==
    /\ trip.pc = "raised"
    /\ ProcessEnds
    /\ UNCHANGED <<disk, counts, verdict, judged, touched>>

Die ==
    /\ ~At("off") /\ deaths < MaxDeaths
    /\ deaths' = deaths + 1
    /\ ProcessEnds
    /\ UNCHANGED <<disk, listed, runs, verdict, judged, touched>>

RunnerStep ==
    \/ FinishRun \/ BeginFinding
    \/ NoSynthOutput \/ AcceptBase \/ RepairBase \/ RejectBase \/ SmokeInfraError
    \/ \E n \in Names, errs \in BaseErrors : SynthesizeScaffold(n, errs)
    \/ WaitForModel \/ DraftFailed \/ DraftReturned \/ WritePoc
    \/ RunTests \/ RewriteInPlace \/ RunAgain \/ RunAgainFails \/ EndRepair
    \/ \E outcome \in Outcomes : RunFails(outcome)
    \/ Judge \/ FixReturned \/ FixNoCode \/ FixFailed
    \/ VerifyUnavailable \/ MutationVerify \/ FinishFinding \/ CallRaises

RunnerNext == RunnerStep \/ StartRun \/ BudgetReached \/ Die

RunnerSpec == RunnerInit /\ [][RunnerNext]_runnerVars
RunnerFairSpec == RunnerSpec /\ WF_runnerVars(RunnerStep)

-----------------------------------------------------------------------------
(* Properties                                                               *)

RunnerTypeOK ==
    /\ trip \in Trips
    /\ run.pc \in {"off", "next", "synth", "smoke", "draft", "write", "run", "repair", "rerun",
                   "judge", "fix", "verify", "finish"}
    /\ run.attempt \in 0..Attempts /\ run.outcome \in Outcomes
    /\ \A p \in Paths : poc[p] = NoFile \/ poc[p] \in Texts(Bases)
    /\ \A n \in Names : synth[n] = NoFile \/ synth[n] \in [owner: Tasks, errs: SUBSET Errors]
    /\ smoke \in Names \cup {"none"} /\ failed \subseteq Paths
    /\ verdict \in [Tasks -> Outcomes]
    /\ listed \in Listings \cup TasksFrom

Between == run.pc \in {"off", "next"}

(* Between two findings every file of the folder builds, except what a dead *)
(* process left half done and what inherits a base that a later synthesis   *)
(* replaced or removed: nothing else a finding does can fail the next one's *)
(* compile (the quarantine at the end of _process_finding).                 *)
FolderExplained ==
    Between =>
        /\ \A p \in Paths : ErrorsOf(poc[p]) # {} =>
               p \in debris \/ poc[p].base.name \in touched
        /\ \A n \in Names : BaseErrorsOf(n) # {} => n \in debris
        /\ smoke # "none" => "smoke" \in debris

(* The comment at the quarantine, as it stands: a left-behind file never    *)
(* blocks the findings after it.                                            *)
NothingBlocksTheNextFinding == At("next") /\ run.task \in Tasks => Builds

(* A verdict is about the text that was judged: verified only if the test   *)
(* depends on the bug that the fix it was tried against removes, downgraded *)
(* only if it does not (a fix borrowed from another finding would downgrade *)
(* a sound one), "compiled" only if                                         *)
(* it builds and is structurally real, "vacuous" only if it is not. Each    *)
(* falls with a test result or a text that is stale when judged.            *)
VerdictsAreEarned ==
    \A t \in Tasks :
        LET text == judged[t]
            real == text.errs = {} /\ ~text.defective
        IN  CASE verdict[t] = "passed_verified" ->
                    real /\ (text.run = "exploit" \/ Fork) /\ Fixed(t)
              [] verdict[t] = "unverified_pass" ->
                    real /\ text.run = "always" /\ Fixed(t)
              [] verdict[t] = "passed_unchecked" -> real /\ text.run # "inert"
              [] verdict[t] = "compiled" -> real /\ text.run = "inert"
              [] verdict[t] = "vacuous_pass" -> text.errs = {} /\ text.defective
              [] OTHER -> TRUE

(* A proof the run reported as a success is still in the folder, as judged, *)
(* unless a later finding of the run was given the same file name.          *)
AcceptedProofsStand ==
    Between => \A t \in Tasks :
        verdict[t] \in Successes =>
            \/ poc[listed[t].file] = judged[t]
            \/ \E later \in Tasks : later > t /\ listed[later].file = listed[t].file

(* The same without the exemption: ids are made into file names by replacing *)
(* characters (_ident), and two may become one.                              *)
EveryProofStands ==
    Between => \A t \in Tasks : verdict[t] \in Successes => poc[listed[t].file] = judged[t]

(* Over all trials, what reconstruction makes of a report's hunks and git    *)
(* applies is the edit the report means.                                     *)
TrialsLandWhole == \A trial \in Trials : LandsWhole(trial.source, trial.hunks)

(* "A patch landed in the wrong place produces a WRONG verified signal": when *)
(* a pass goes to be verified, whatever patch it may be tried against lands   *)
(* whole and at unique anchors, in whatever order the report has its hunks    *)
(* (patch_reconstruct.py, _git_apply).                                        *)
PatchesLandWhole == At("verify") => TrialsLandWhole

(* Every run of the queue comes to its end, whatever the model, the         *)
(* compiler and the sandbox answer: no repair, retry or lookup goes on      *)
(* forever.                                                                 *)
EveryRunEnds == ~At("off") ~> At("off")
=============================================================================
