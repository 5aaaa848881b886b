\* Three records in two files, of which one may be torn, in three audits: the
\* findings of one file with a graph, of two files, of a file that is not there.
CONSTANTS
    r1 = r1
    r2 = r2
    r3 = r3
    RecordIds = {r1, r2, r3}
    Targets = {t1, t2}
    Contents <- MCContents
    NoRecord = NoRecord
    Undecodable = Undecodable
    MaxTears = 1
    Code <- MCCode
    Declared <- MCDeclared
    Graphs <- MCGraphs
    Payloads <- MCPayloads
SPECIFICATION ReportSpec
SYMMETRY Symmetry
INVARIANTS
    AppendsAreKept
    ReportIsJustified
PROPERTIES
    CorrectionsLast
    ReportsOnlyGrow
CHECK_DEADLOCK FALSE
