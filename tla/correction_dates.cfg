\* One call that corrects the date of the transaction, or clears a text of it.
SPECIFICATION Spec
CONSTANTS
    t1 = t1
    s1 = s1
    s2 = s2
    Null = Null
    Empty = ""
    SubcategoriesOf <- MCSubcategoriesOf
    CanonicalText <- MCCanonicalText
    Txs = {t1}
    OriginalRow <- MCOriginalRow
    Proposals <- DateAndText
    Reclassifications = {}
    Series = {s1}
    Dialogs = {d1}
    Calls = {c1}
    NumCases = 3
    MaxVersion = 1
    MaxApplies = 1
    MaxDecisions = 0
    MaxMisses = 0
    None = None
SYMMETRY Symmetric
INVARIANT
    EditableFieldsAreSupported
CHECK_DEADLOCK FALSE
