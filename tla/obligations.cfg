\* Certifications, owner-level obligations and bindings, without cash.
SPECIFICATION ObligationsOnlySpec
CONSTANTS
    v1 = v1
    v2 = v2
    v3 = v3
    w1 = w1
    o1 = o1
    o2 = o2
    anna = anna
    ben = ben
    p1 = p1
    p2 = p2
    q1 = q1
    k1 = k1
    k2 = k2
    Entities = {anna, ben}
    Headers = {v1, v2, v3, w1, o1, o2}
    OwnerLevel = {o1, o2}
    EntityOf <- VersionsEntityOf
    SlotOf <- VersionsSlotOf
    DateOf <- VersionsDateOf
    Version <- VersionsVersion
    NumLines = 2
    HeaderOf <- VersionsHeaderOf
    Original <- VersionsOriginal
    Properties = {p1, p2, q1}
    ClientOf <- ClientOfProperty
    BindKeys = {k1, k2, k3}
    Binders = {b1, b2}
    Cashiers = {}
    NoRow = NoRow
    NoCall = NoCall
    ExecKeys = {}
    ReversalKeys = {}
    Dates = {1}
    Amounts = {1}
    NettedRegister = TRUE
    NoKey = NoKey
SYMMETRY SameBindings
CHECK_DEADLOCK FALSE
INVARIANTS
    ObligationsTypeOK
    AppliedCertificationIsTheLatest
    BindingHistoryIsAChain
PROPERTIES
    BindsOnlyAppliedLines
    BoundLinesStayBound
