------------------------- MODULE MCStatementBilling -------------------------
(* Instances of StatementBilling for TLC: a charge of each of two periods  *)
(* and, between them, a contract value that is never billed.                *)
EXTENDS StatementBilling, TLC

MCCharges == <<"c1", "value", "c2">>

MCRow == [c \in {"c1", "value", "c2"} |->
    [contractValue |-> c = "value", tracking |-> FALSE, affecting |-> TRUE,
     group |-> "expense"]]

MCAmount == [c1 |-> 2, value |-> 1, c2 |-> 1]
MCPeriod == [c1 |-> 1, value |-> 1, c2 |-> 2]
MCMoney == <<3, 1>>
MCClerks == Permutations(Clerks)
=============================================================================
