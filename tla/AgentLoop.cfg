\* One loop, one operator, two requests: enough for a timeout, a late decision
\* on the abandoned id, and a second request while that decision is written.
CONSTANTS
    Confirmations = {c1, c2}
    Actions = {write_poc, run_tests}
    Deciders = {d1}
    Waiters = {l1}
    NoAction = NoAction
    NoConf = NoConf
    MaxIterations = 2
SPECIFICATION FairSpec
INVARIANTS
    ApprovedOnlyByOperator
    DispatchesAreGranted
    TimedOutStaysBlocked
PROPERTIES
    RunTerminates
    ImplementsGate
\* run ends by design, and an operator with nothing to decide stays idle.
CHECK_DEADLOCK FALSE
