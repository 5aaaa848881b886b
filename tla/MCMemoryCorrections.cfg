\* A record and one that is not from a human and supersedes it.
CONSTANTS
    RecordIds = {r1, r2}
    Targets = {t1}
    Contents <- PlainContents
    NoRecord = NoRecord
    Undecodable = Undecodable
    MaxTears = 0
SPECIFICATION Spec
SYMMETRY Symmetry
INVARIANTS
    CorrectionsAreHuman
\* Writing stops when the ids run out.
CHECK_DEADLOCK FALSE
