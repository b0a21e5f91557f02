\* The register as the repository last defines it.
\* One cashier, one client.
SPECIFICATION BoundSpec
CONSTANTS
    c1 = c1
    c2 = c2
    o1 = o1
    anna = anna
    ben = ben
    p1 = p1
    p2 = p2
    q1 = q1
    k1 = k1
    k2 = k2
    k3 = k3
    k4 = k4
    Entities = {anna}
    Headers = {c1}
    OwnerLevel = {}
    EntityOf <- MCEntityOf
    SlotOf <- MCSlotOf
    DateOf <- MCDateOf
    Version <- MCVersion
    NumLines = 3
    HeaderOf <- MCHeaderOf
    Original <- MCOriginal
    Properties = {p1, p2}
    ClientOf <- MCClientOf
    BindKeys = {k1, k2, k3}
    Binders = {}
    Cashiers = {s1}
    NoRow = NoRow
    NoCall = NoCall
    ExecKeys = {e1, e2, e3}
    ReversalKeys = {r1, r2}
    Dates = {1, 2}
    Amounts = {1, 2}
    NettedRegister = FALSE
    NoKey = NoKey
SYMMETRY Symmetric
INVARIANT
    NoOverAllocation
