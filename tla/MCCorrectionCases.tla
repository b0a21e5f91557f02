-------------------------- MODULE MCCorrectionCases --------------------------
(***************************************************************************)
(* Instances of CorrectionCases for TLC: one expense of 10, and an operator *)
(* who corrects its amount, its subcategory, its date or its description.  *)
(***************************************************************************)
EXTENDS CorrectionCases, TLC

CONSTANTS t1, s1, s2

MCSubcategoriesOf == [Management |-> {"repairs", "water"}]

MCCanonicalText == ("" :> "") @@ ("repairs" :> "repairs") @@ ("water" :> "water")
                    @@ ("Water." :> "water") @@ ("tap" :> "tap")

Expense == [property |-> "villa", date |-> "may", category |-> "Management",
            subcategory |-> "repairs", amount |-> 10, charge |-> Null,
            description |-> "tap"]

MCOriginalRow == [t \in Txs |-> Expense]

NewAmount == [Expense EXCEPT !.amount = 12]
NewClass == [Expense EXCEPT !.subcategory = "water"]
TwoProposals == {NewAmount, NewClass}

NewDate == [Expense EXCEPT !.date = "june"]
NoText == [Expense EXCEPT !.description = Null]
DateAndText == {NewDate, NoText}

MCReclassifications == {[subcategory |-> "water"], [subcategory |-> "Water."]}

Symmetric == Permutations(Calls) \cup Permutations(Dialogs) \cup Permutations(Series)
=============================================================================
