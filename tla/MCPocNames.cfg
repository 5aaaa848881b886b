\* Two findings whose ids become one file name, on a fresh folder, no deaths.
CONSTANTS
    Provider = "local"
    RequestedMode = "auto"
    ToolsSupported = TRUE
    Ready = TRUE
    Indexed = TRUE
    LookupBudget = 1
    RetryAttempts = 2
    MaxAsked = 2
    NumTasks = 2
    Paths = {"a", "b"}
    LeftFolders <- MCEmptyFolder
    Listings <- MCListings
    TasksFrom = {}
    Names = {"n"}
    Drafts <- MCDrafts
    BaseErrors <- MCBaseErrors
    Needs <- MCNeeds
    ProjectBases = {"base", "other", "parent"}
    InheritedBy <- MCInheritedBy
    Provides <- MCProvides
    Parents <- MCParents
    OperatorBases = {}
    OperatorPatches = {1}
    Project <- MCProject
    Bugs <- MCBugs
    Report <- MCReport
    LongWords <- MCLongWords
    Trials = {}
    Attempts = 2
    SynthRounds = 3
    DetRounds = 2
    RequirePass = FALSE
    Fork = FALSE
    MaxRuns = 1
    MaxDeaths = 0
SPECIFICATION RunnerSpec
INVARIANTS
    EveryProofStands
CHECK_DEADLOCK FALSE
