\* The smallest instance on which a turn drops an undecided confirmation.
CONSTANTS
    Confirmations = {c1}
    Actions = {write_poc}
    Silent = {}
    Deciders = {d1}
    Waiters = {}
    Procs = {p1}
    Sessions = {s1}
    NoAction = NoAction
    NoConf = NoConf
    NoSession = NoSession
    MaxDeaths = 0
SPECIFICATION Spec
PROPERTIES
    PausedUntilDecided
