\* One operator's three promotions around an append that a death cut short: the
\* record that lands on the open line is lost, though its promotion returned.
CONSTANTS
    Harnesses = {h1, h2}
    Operators = {o1}
    Sigs = {"sig"}
    Texts = {fix, edit}
    TopK = 3
    MaxPromotions = 3
    MaxCandidates = 2
    MaxDeaths = 1
SPECIFICATION Spec
INVARIANTS
    PromotedIsReviewed
SYMMETRY Symmetry
CHECK_DEADLOCK FALSE
