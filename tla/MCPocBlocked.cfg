\* Three findings on a fresh folder, no deaths: the model gives the bases of the
\* first two the same contract name.
CONSTANTS
    Provider = "local"
    RequestedMode = "auto"
    ToolsSupported = TRUE
    Ready = TRUE
    Indexed = TRUE
    LookupBudget = 1
    RetryAttempts = 1
    MaxAsked = 2
    NumTasks = 3
    Paths = {"a", "b", "c"}
    LeftFolders <- MCEmptyFolder
    Listings <- MCListingsOfThree
    TasksFrom = {}
    Names = {"n"}
    Drafts <- MCDrafts
    BaseErrors <- MCBaseErrors
    Needs <- MCNeeds
    ProjectBases = {"base", "other", "parent"}
    InheritedBy <- MCInheritedBy
    Provides <- MCProvides
    Parents <- MCParents
    OperatorBases = {}
    OperatorPatches = {1}
    Project <- MCProject
    Bugs <- MCBugs
    Report <- MCReport
    LongWords <- MCLongWords
    Trials = {}
    Attempts = 1
    SynthRounds = 3
    DetRounds = 2
    RequirePass = FALSE
    Fork = FALSE
    MaxRuns = 1
    MaxDeaths = 0
SPECIFICATION RunnerSpec
INVARIANTS
    NothingBlocksTheNextFinding
CHECK_DEADLOCK FALSE
