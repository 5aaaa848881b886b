\* Two runs and two operators on one signature and two texts, with one death.
CONSTANTS
    Harnesses = {h1, h2}
    Operators = {o1, o2}
    Sigs = {"sig"}
    Texts = {fix, edit}
    TopK = 3
    MaxPromotions = 2
    MaxCandidates = 2
    MaxDeaths = 1
SPECIFICATION Spec
INVARIANTS
    RetrievedIsSigned
    PromotionsLast
    PendingExplained
    PromotedIsReviewed
SYMMETRY Symmetry
CHECK_DEADLOCK FALSE
