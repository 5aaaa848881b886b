\* A finding of Slither next to two of the models, in functions that share state.
CONSTANTS
    r1 = r1
    r2 = r2
    r3 = r3
    RecordIds = {r1, r2, r3}
    Targets = {t1, t2}
    Contents <- MCContents
    NoRecord = NoRecord
    Undecodable = Undecodable
    MaxTears = 1
    Code <- MCCode
    Declared <- MCDeclared
    Graphs <- MCGraphs
    Payloads <- MCStaticPayloads
SPECIFICATION ReportSpec
INVARIANT
    StaticFindingsAreLinked
CHECK_DEADLOCK FALSE
