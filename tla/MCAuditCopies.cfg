\* A finding that two audits, or one that died and was started again, wrote twice.
CONSTANTS
    r1 = r1
    r2 = r2
    r3 = r3
    RecordIds = {r1, r2, r3}
    Targets = {t1, t2}
    Contents <- MCContents
    NoRecord = NoRecord
    Undecodable = Undecodable
    MaxTears = 1
    Code <- MCCode
    Declared <- MCDeclared
    Graphs <- MCGraphs
    Payloads <- MCPayloads
SPECIFICATION ReportSpec
INVARIANT
    ChainsAreOfTwoFindings
CHECK_DEADLOCK FALSE
