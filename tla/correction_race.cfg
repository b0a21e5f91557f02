\* Two calls with one idempotency key: Apply pressed again while the first call
\* still runs.
SPECIFICATION Spec
CONSTANTS
    t1 = t1
    s1 = s1
    s2 = s2
    Null = Null
    Empty = ""
    SubcategoriesOf <- MCSubcategoriesOf
    CanonicalText <- MCCanonicalText
    Txs = {t1}
    OriginalRow <- MCOriginalRow
    Proposals <- TwoProposals
    Reclassifications = {}
    Series = {s1}
    Dialogs = {d1}
    Calls = {c1, c2}
    NumCases = 3
    MaxVersion = 1
    MaxApplies = 2
    MaxDecisions = 0
    MaxMisses = 0
    None = None
SYMMETRY Symmetric
INVARIANT
    AppliedOncePerProposal
CHECK_DEADLOCK FALSE
