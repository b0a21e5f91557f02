\* One dialog and two server calls, with lost answers, dead servers, failing
\* reads and procedures, a staff transition and the atomic reclassification.
SPECIFICATION Spec
CONSTANTS
    t1 = t1
    s1 = s1
    s2 = s2
    Null = Null
    Empty = ""
    SubcategoriesOf <- MCSubcategoriesOf
    CanonicalText <- MCCanonicalText
    Txs = {t1}
    OriginalRow <- MCOriginalRow
    Proposals <- TwoProposals
    Reclassifications <- MCReclassifications
    Series = {s1}
    Dialogs = {d1}
    Calls = {c1, c2}
    NumCases = 3
    MaxVersion = 1
    MaxApplies = 2
    MaxDecisions = 1
    MaxMisses = 1
    None = None
SYMMETRY Symmetric
INVARIANTS
    TypeOK
    RetriesApplyOnce
    SuccessIsInTheLedger
    ReclassifiedOncePerIdentity
CHECK_DEADLOCK FALSE
