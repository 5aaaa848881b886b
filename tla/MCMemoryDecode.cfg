\* One process dies inside one append.
CONSTANTS
    RecordIds = {r1, r2}
    Targets = {t1}
    Contents <- PlainContents
    NoRecord = NoRecord
    Undecodable = Undecodable
    MaxTears = 1
SPECIFICATION Spec
SYMMETRY Symmetry
INVARIANTS
    LoadNeverRaises
\* Writing stops when the ids run out.
CHECK_DEADLOCK FALSE
