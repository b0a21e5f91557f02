\* Two settlement events and one cash execution with its reversal, in every
\* order, over two openings of one client.
SPECIFICATION BoundSpec
CONSTANTS
    c1 = c1
    c2 = c2
    anna = anna
    ben = ben
    p1 = p1
    k1 = k1
    k2 = k2
    e1 = e1
    t1 = t1
    t2 = t2
    Entities = {anna, ben}
    Headers = {c1, c2}
    OwnerLevel = {}
    EntityOf <- MCEntityOf
    SlotOf <- MCSlotOf
    DateOf <- MCDateOf
    Version <- MCVersion
    NumLines = 2
    HeaderOf <- MCHeaderOf
    Original <- MCOriginal
    Properties = {p1}
    ClientOf <- MCClientOf
    BindKeys = {k1, k2}
    Binders = {}
    Cashiers = {s1}
    NoRow = NoRow
    NoCall = NoCall
    ExecKeys = {e1}
    ReversalKeys = {r1}
    Dates = {1, 2}
    Amounts = {1, 2}
    NettedRegister = FALSE
    NoKey = NoKey
    EventKeys = {m1, m2}
    LedgerRows = {t1, t2}
    Usable = {t1}
    LedgerAmount <- MCLedgerAmount
    Payloads <- MCPayloads
    Folded <- MCFolded
SYMMETRY SameEvents
INVARIANTS
    AccountsCountPaymentsOnce
    NothingIsCreditedTwice
PROPERTY
    CreditsStandUntilVoided
