SPECIFICATION Spec
CONSTANTS
    p1 = p1
    p2 = p2
    t1 = t1
    t2 = t2
    r1 = r1
    r2 = r2
    r3 = r3
    r4 = r4
    Procs = {p1}
    Targets = {t1, t2}
    Requests = {r1, r2}
    FindingIds = {"F-1"}
    Nothing = Nothing
    MaxDeaths = 0
    MaxRecords = 2
INVARIANTS
    CoverageIsHonest
