\* Three records in two files and one torn append: a correction, what it
\* corrects, and a third record that corrects, tears or follows them.
CONSTANTS
    RecordIds = {r1, r2, r3}
    Targets = {t1, t2}
    Contents <- BothContents
    NoRecord = NoRecord
    Undecodable = Undecodable
    MaxTears = 1
SPECIFICATION Spec
SYMMETRY Symmetry
INVARIANTS
    TypeOK
    AppendsAreKept
PROPERTIES
    CorrectionsLast
CHECK_DEADLOCK FALSE
