SPECIFICATION Spec
CONSTANTS
    c1 = c1
    c2 = c2
    a1 = a1
    a2 = a2
    t1 = t1
    t2 = t2
    web = web
    cli = cli
    Web = web
    NoAction = NoAction
    NoConf = NoConf
    Confirmations <- MCConfirmations
    Actions <- MCActions
    Deciders <- MCDeciders
    Waiters <- MCWaiters
    Tabs <- MCTabs
    MaxFetches = 2
    MaxDecisions = 3
    MaxFailures = 1
SYMMETRY Symmetry
INVARIANTS BodySurvivesDecisions ApprovalsAreReviewed RejectionsStand
CHECK_DEADLOCK FALSE
