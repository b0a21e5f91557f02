-------------------------- MODULE MCPartnerAccount --------------------------
(***************************************************************************)
(* An instance of PartnerCurrentAccount for TLC: one client whose          *)
(* certification was applied and bound, one partner, and the company's own *)
(* cash next to his.  The keys bound the number of rows.                   *)
(***************************************************************************)
EXTENDS PartnerCurrentAccount, TLC

CONSTANTS c1, anna, p1, k1, k2, MaxEvents

MCEntityOf == [h \in Headers |-> anna]
MCSlotOf == [h \in Headers |-> 1]
MCDateOf == [h \in Headers |-> 1]
MCVersion == [h \in Headers |-> 1]
MCHeaderOf == <<c1, c1>>
MCOriginal == <<1, 2>>
MCClientOf == [p \in Properties |-> anna]

BoundInit ==
    /\ status = [h \in Headers |-> "applied"]
    /\ binding = [k \in BindKeys |->
                    [line |-> IF k = k1 THEN 1 ELSE 2, property |-> p1, supersedes |-> NoRow,
                     supersededBy |-> NoRow, status |-> "active"]]
    /\ bindCall = [b \in Binders |-> NoCall]
    /\ held = [s \in Cashiers |-> {}]
    /\ CashInit
    /\ PartnerInit

BoundSpec == BoundInit /\ [][PartnerNext /\ Len(event') <= MaxEvents]_allVars

Symmetric == Permutations(FundKeys) \cup Permutations(UndoKeys)
             \cup Permutations(ReimburseKeys) \cup Permutations(Payers)
=============================================================================
