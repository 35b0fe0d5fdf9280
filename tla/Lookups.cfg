CONSTANTS
    l1 = l1
    l2 = l2
    k1 = k1
    Lookers = {l1, l2}
    Keys = {k1}
    Dids = {did}
    Failed = Failed
    PosTtl = 2
    NegTtl = 1
    Patience = 1
    Horizon = 5
SPECIFICATION Spec
CHECK_DEADLOCK FALSE
INVARIANTS TypeOK
PROPERTIES AnswersAreRecent AnswersGoBackLittle
SYMMETRY MCSymmetry
