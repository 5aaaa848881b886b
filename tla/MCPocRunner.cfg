\* Two findings, with or without one file name between them, in one run that may
\* end by a death, in a folder that an earlier process may have left a file in.
CONSTANTS
    Provider = "local"
    RequestedMode = "auto"
    ToolsSupported = TRUE
    Ready = TRUE
    Indexed = TRUE
    LookupBudget = 1
    RetryAttempts = 2
    MaxAsked = 2
    NumTasks = 2
    Paths = {"a", "b"}
    LeftFolders <- MCLeftFolders
    Listings <- MCListings
    TasksFrom = {}
    Names = {"n"}
    Drafts <- MCDrafts
    BaseErrors <- MCBaseErrors
    Needs <- MCNeeds
    ProjectBases = {"base", "other", "parent"}
    InheritedBy <- MCInheritedBy
    Provides <- MCProvides
    Parents <- MCParents
    OperatorBases = {}
    OperatorPatches = {1}
    Project <- MCProject
    Bugs <- MCBugs
    Report <- MCReport
    LongWords <- MCLongWords
    Trials <- MCTrials
    Attempts = 2
    SynthRounds = 3
    DetRounds = 2
    RequirePass = FALSE
    Fork = FALSE
    MaxRuns = 1
    MaxDeaths = 1
SPECIFICATION RunnerFairSpec
INVARIANTS
    FolderExplained
    VerdictsAreEarned
    AcceptedProofsStand
    PatchesLandWhole
PROPERTIES
    EveryRunEnds
CHECK_DEADLOCK FALSE
