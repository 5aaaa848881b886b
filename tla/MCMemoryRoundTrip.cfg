\* No process dies: a record is missing from load only if its signature fails.
CONSTANTS
    RecordIds = {r1}
    Targets = {t1}
    Contents <- BothContents
    NoRecord = NoRecord
    Undecodable = Undecodable
    MaxTears = 0
SPECIFICATION Spec
SYMMETRY Symmetry
INVARIANTS
    WrittenIsLoaded
\* Writing stops when the ids run out.
CHECK_DEADLOCK FALSE
