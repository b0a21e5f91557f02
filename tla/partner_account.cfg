SPECIFICATION BoundSpec
CONSTANTS
    c1 = c1
    anna = anna
    p1 = p1
    k1 = k1
    k2 = k2
    MaxEvents = 3
    Entities = {anna}
    Headers = {c1}
    OwnerLevel = {}
    EntityOf <- MCEntityOf
    SlotOf <- MCSlotOf
    DateOf <- MCDateOf
    Version <- MCVersion
    NumLines = 2
    HeaderOf <- MCHeaderOf
    Original <- MCOriginal
    Properties = {p1}
    ClientOf <- MCClientOf
    BindKeys = {k1, k2}
    Binders = {}
    Cashiers = {s1}
    NoRow = NoRow
    NoCall = NoCall
    ExecKeys = {e1, f1, f2}
    ReversalKeys = {r1, u1, u2}
    Dates = {1, 2}
    Amounts = {2}
    NettedRegister = FALSE
    NoKey = NoKey
    Partners = {dan}
    Payers = {t1, t2}
    FundKeys = {f1, f2}
    ReimburseKeys = {m1, m2}
    UndoKeys = {u1, u2}
    NoPartner = NoPartner
SYMMETRY Symmetric
INVARIANTS
    PartnerTypeOK
    OverpaymentTakesTwo
    SlicesAreTheCash
    CreditsAreFundedCash
    ReimbursementsAreCovered
