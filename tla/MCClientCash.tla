---------------------------- MODULE MCClientCash ----------------------------
(***************************************************************************)
(* Instances of ClientCashSettlement for TLC.  The idempotency keys bound  *)
(* the number of rows, so no state constraint is needed.                   *)
(***************************************************************************)
EXTENDS ClientCashSettlement, TLC

CONSTANTS c1, c2, o1, anna, ben, p1, p2, q1, k1, k2, k3, k4

(* One client with one certification: JJ owes 1, is owed 1, and owes 2.    *)
MCEntityOf == [h \in Headers |-> anna]
MCSlotOf == [h \in Headers |-> 1]
MCDateOf == [h \in Headers |-> 1]
MCVersion == [h \in Headers |-> 1]
MCHeaderOf == <<c1, c1, c1>>
MCOriginal == <<1, -1, 2>>
MCClientOf == [p \in Properties |-> anna]

(* The state after the certification was applied and its lines were bound. *)
FirstBinding(l) == [line |-> l, property |-> p1, supersedes |-> NoRow,
                    supersededBy |-> NoRow, status |-> "active"]

BoundInit ==
    /\ status = [h \in Headers |-> "applied"]
    /\ binding = [k \in BindKeys |-> CASE k = k1 -> FirstBinding(1)
                                      [] k = k2 -> FirstBinding(2)
                                      [] k = k3 -> FirstBinding(3)
                                      [] OTHER -> NoRow]
    /\ bindCall = [b \in Binders |-> NoCall]
    /\ held = [s \in Cashiers |-> {}]
    /\ CashInit

BoundSpec == BoundInit /\ [][Next]_vars

FairBoundSpec == BoundSpec /\ Fairness

(* Two clients, each with one certified line JJ owes; one of them also has  *)
(* an owner-level obligation.                                              *)
PairEntityOf == [h \in Headers |-> IF h = c1 THEN anna ELSE ben]
PairHeaderOf == <<c1, c2, o1>>
PairOriginal == <<1, 1, -1>>
PairClientOf == [p \in Properties |-> IF p = q1 THEN ben ELSE anna]

PairInit ==
    /\ status = [h \in Headers |-> "applied"]
    /\ binding = [k \in BindKeys |->
                    CASE k = k1 -> FirstBinding(1)
                      [] k = k2 -> [FirstBinding(2) EXCEPT !.property = q1]
                      [] OTHER -> NoRow]
    /\ bindCall = [b \in Binders |-> NoCall]
    /\ held = [s \in Cashiers |-> {}]
    /\ CashInit

FairPairSpec == PairInit /\ [][Next]_vars /\ Fairness

Symmetric == Permutations(Cashiers) \cup Permutations(ExecKeys) \cup Permutations(ReversalKeys)
=============================================================================
