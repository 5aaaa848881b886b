SPECIFICATION FairSpec
CONSTANTS
    p1 = p1
    p2 = p2
    t1 = t1
    t2 = t2
    r1 = r1
    r2 = r2
    r3 = r3
    r4 = r4
    Procs = {p1}
    Targets = {t1}
    Requests = {r1, r2, r3}
    FindingIds = {"F-1"}
    Nothing = Nothing
    MaxDeaths = 2
    MaxRecords = 6
INVARIANTS
    CopiesExplained
    RequestsExplained
    NoRequestIsOrphaned
PROPERTIES
    AnsweredAuditsAreReported
