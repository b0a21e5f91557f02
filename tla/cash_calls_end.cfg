\* Two cashiers settle with two clients, with one key between them, and one
\* binder remaps a line at the same time: locks are waited for, the waits can
\* form a cycle, the key can be taken, and an owner-level obligation cannot be
\* paid.
SPECIFICATION FairPairSpec
CONSTANTS
    c1 = c1
    c2 = c2
    o1 = o1
    anna = anna
    ben = ben
    p1 = p1
    p2 = p2
    q1 = q1
    k1 = k1
    k2 = k2
    k3 = k3
    k4 = k4
    Entities = {anna, ben}
    Headers = {c1, c2, o1}
    OwnerLevel = {o1}
    EntityOf <- PairEntityOf
    SlotOf <- MCSlotOf
    DateOf <- MCDateOf
    Version <- MCVersion
    NumLines = 3
    HeaderOf <- PairHeaderOf
    Original <- PairOriginal
    Properties = {p1, q1}
    ClientOf <- PairClientOf
    BindKeys = {k1, k2, k3}
    Binders = {b1}
    Cashiers = {s1, s2}
    NoRow = NoRow
    NoCall = NoCall
    ExecKeys = {e1}
    ReversalKeys = {}
    Dates = {1}
    Amounts = {1}
    NettedRegister = FALSE
    NoKey = NoKey
INVARIANTS
    TypeOK
    OkAnswersArePaid
PROPERTY
    CallsEnd
