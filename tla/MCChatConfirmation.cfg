\* Two processes on one session, through two requests: what it keeps, executes
\* and records over turns, resumes, overlapping resumes and a death, while an
\* operator decides. (Two operators on one request are MCWebGate's case.)
CONSTANTS
    Confirmations = {c1, c2}
    Actions = {write_poc, deploy}
    Silent = {deploy}
    Deciders = {d1}
    Waiters = {}
    Procs = {p1, p2}
    Sessions = {s1}
    NoAction = NoAction
    NoConf = NoConf
    NoSession = NoSession
    MaxDeaths = 1
SPECIFICATION Spec
SYMMETRY Symmetry
INVARIANTS
    ExecutionsAreGranted
    RunsAccountedFor
    SnapshotConsistent
    RunsAreRecorded
PROPERTIES
    ImplementsGate
    RetiredForGood
