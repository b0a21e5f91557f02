-------------------------- MODULE MCClientAccounts --------------------------
(***************************************************************************)
(* An instance of ClientAccounts for TLC.  One client has two openings,    *)
(* the later of which folds a payment; another client has none.  One of    *)
(* two ledger transactions was deleted.  The keys bound the number of rows *)
(* and events.                                                             *)
(***************************************************************************)
EXTENDS ClientAccounts, TLC

CONSTANTS c1, c2, anna, ben, p1, k1, k2, e1, t1, t2

MCEntityOf == [h \in Headers |-> anna]
MCSlotOf == [h \in Headers |-> IF h = c2 THEN 2 ELSE 1]
MCDateOf == MCSlotOf
MCVersion == [h \in Headers |-> 1]
MCHeaderOf == <<c1, c2>>
MCOriginal == <<-1, -1>>
MCClientOf == [p \in Properties |-> anna]

MCLedgerAmount == [t \in LedgerRows |-> 1]
MCFolded == [h \in Headers |-> IF h = c2 THEN {t1} ELSE {}]

Of(entity, kind, source, date) ==
    [entity |-> entity, counterparty |-> NoRow, kind |-> kind,
     source |-> source, amount |-> 1, date |-> date]

MCPayloads ==
    {Of(anna, "include", t1, 1), Of(anna, "exclude", t1, 2), Of(ben, "include", t1, 1),
     Of(anna, "include", e1, 1), Of(anna, "exclude", e1, 2), Of(ben, "include", e1, 2),
     Of(anna, "include", t2, 1),
     [Of(anna, "noncash", NoRow, 2) EXCEPT !.counterparty = ben]}

(* The openings were applied and their lines bound.                        *)
BoundInit ==
    /\ status = [h \in Headers |-> "applied"]
    /\ binding = [k \in BindKeys |->
                    [line |-> IF k = k1 THEN 1 ELSE 2, property |-> p1, supersedes |-> NoRow,
                     supersededBy |-> NoRow, status |-> "active"]]
    /\ bindCall = [b \in Binders |-> NoCall]
    /\ held = [s \in Cashiers |-> {}]
    /\ CashInit
    /\ settlementEvent = [k \in EventKeys |-> NoRow]

BoundSpec == BoundInit /\ [][AccountsNext]_accountVars

SameEvents == Permutations(EventKeys)
=============================================================================
