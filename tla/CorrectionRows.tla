--------------------------- MODULE CorrectionRows ---------------------------
(***************************************************************************)
(* The rows a correction writes.  public.transactions is append-only: an   *)
(* erroneous row is left alone, and a correction appends a row that negates *)
(* it and a row with the corrected values.                                 *)
(*                                                                         *)
(* The workspace plans these rows from the original and from what the      *)
(* operator proposes; the database checks each row, field by field, against *)
(* the original and against what the approved case authorises to change.   *)
(***************************************************************************)
EXTENDS Integers, Sequences

CONSTANTS
    SubcategoriesOf,  \* the subcategories of each category
    CanonicalText,    \* each text without case, punctuation and spacing
    Null,             \* SQL NULL
    Empty             \* the empty text

Categories == DOMAIN SubcategoriesOf
Texts == DOMAIN CanonicalText

RowFields ==
    {"property", "date", "category", "subcategory", "amount", "charge", "description"}

M1Fields == RowFields \ {"property"}
ReclassFields == {"property", "subcategory", "description"}
MoneyFields == {"amount", "charge"}
ClassFields == {"category", "subcategory"}
BoundFields == RowFields \ MoneyFields   \* what the database compares as text

IsRow(row) == row = [f \in RowFields |-> row[f]]

(* What apply_reclassification_correction lets a caller correct: fields of  *)
(* the whitelist, each to a value that is there.                           *)
Whitelisted(corrected) ==
    /\ DOMAIN corrected \in SUBSET ReclassFields \ {{}}
    /\ \A f \in DOMAIN corrected : corrected[f] \notin {Null, Empty}

-----------------------------------------------------------------------------
(* sameNum and sameStr: NULL and 0 are distinct amounts, NULL and '' are    *)
(* the same text.                                                          *)
Blank(text) == IF text = Null THEN Empty ELSE text

Differs(original, proposed, field) ==
    IF field \in MoneyFields THEN original[field] # proposed[field]
                             ELSE Blank(original[field]) # Blank(proposed[field])

Changed(original, proposed) ==
    {f \in M1Fields : Differs(original, proposed, f)}

(* chooseCorrectionKind: a change of classification alone moves the money;  *)
(* any other change voids the row and replaces it.                         *)
Mechanism(original, proposed) ==
    IF /\ Changed(original, proposed) # {}
       /\ Changed(original, proposed) \subseteq ClassFields
    THEN "reclassify" ELSE "void_and_replace"

CorrectionType(original, proposed) ==
    LET changed == Changed(original, proposed) IN
    CASE changed \cap MoneyFields # {}  -> "amount_correction"
      [] changed = {"date"}             -> "date_correction"
      [] changed = {"description"}      -> "description_fix"
      [] /\ changed \cap MoneyFields = {}
         /\ changed \cap ClassFields # {} -> "reclassification"
      [] OTHER                          -> "amount_correction"

(* validateM1Proposed and validateSubcategoryAgainstCategory.               *)
ValidProposal(proposed) ==
    /\ proposed.category \in Categories
    /\ Blank(proposed.subcategory) \in SubcategoriesOf[proposed.category] \cup {Empty}

-----------------------------------------------------------------------------
Negated(amount) == IF amount = Null THEN Null ELSE -amount

Reversal(original, date) ==
    [role |-> "reversal",
     row  |-> [original EXCEPT !.date = date, !.amount = -@, !.charge = Negated(@)]]

(* buildCorrectionPlan for the two mechanisms of the workspace.  The        *)
(* reversal of a voided row takes the effective date, that of the proposal. *)
PlanEntries(original, proposed) ==
    IF Mechanism(original, proposed) = "reclassify"
    THEN <<Reversal(original, original.date),
           [role |-> "rebook",
            row  |-> [original EXCEPT !.category = proposed.category,
                                      !.subcategory = proposed.subcategory]]>>
    ELSE <<Reversal(original, proposed.date),
           [role |-> "replacement",
            row  |-> [proposed EXCEPT !.property = original.property]]>>

(* corrected_field_values of the plan: what the case authorises to change.  *)
Authorised(original, proposed) ==
    IF Mechanism(original, proposed) = "reclassify" THEN ClassFields ELSE M1Fields

Coalesce(x, y) == IF x = Null THEN y ELSE x

(* buildCorrectionInsertRows: a text the plan leaves NULL is inherited.     *)
Inherited(row, original) ==
    [f \in RowFields |-> IF f \in {"subcategory", "description"}
                         THEN Coalesce(row[f], original[f]) ELSE row[f]]

InsertRows(original, entries) ==
    [i \in DOMAIN entries |->
        [role |-> entries[i].role, row |-> Inherited(entries[i].row, original)]]

(* buildReclassRows: the rows of the atomic reclassification.              *)
ReclassRows(original, corrected) ==
    <<Reversal(original, original.date),
      [role |-> "rebook",
       row  |-> [f \in RowFields |->
                    IF f \in DOMAIN corrected THEN corrected[f] ELSE original[f]]]>>

-----------------------------------------------------------------------------
Net(rows) == rows[1].row.amount + rows[2].row.amount

(* apply_correction_case: a field of a forward row carries the approved    *)
(* value if the case authorises the field, every other the original value. *)
BindsValues(entry, original, case) ==
    \A f \in BoundFields :
        entry.row[f] = IF entry.role # "reversal" /\ f \in DOMAIN case.corrected
                       THEN case.corrected[f] ELSE original[f]

KeepsAmount(entry, original) ==
    /\ entry.role = "reversal" => entry.row.amount = -original.amount
    /\ entry.role = "rebook" => entry.row.amount = original.amount

AmountNeutral == {"reclassification", "description_fix", "date_correction"}

Accepts(case, original, rows) ==
    /\ \A i \in DOMAIN rows : /\ BindsValues(rows[i], original, case)
                              /\ KeepsAmount(rows[i], original)
    /\ case.type \in AmountNeutral => Net(rows) = 0
    /\ case.type = "amount_correction" => original.amount + Net(rows) = case.amount

(* The rows as public.transactions stores them.                            *)
Stored(rows) ==
    [i \in DOMAIN rows |-> [rows[i] EXCEPT !.row.subcategory = Blank(@)]]

(* The case the workspace opens for a proposal.                            *)
CaseOf(original, proposed) ==
    [type      |-> CorrectionType(original, proposed),
     corrected |-> [f \in Authorised(original, proposed) |-> proposed[f]],
     amount    |-> proposed.amount]

(* The case the atomic reclassification opens.                             *)
ReclassCase(original, corrected) ==
    [type |-> "reclassification", corrected |-> corrected, amount |-> original.amount]

(* reclassSemanticIdentity: the whitelisted values, texts in canonical form. *)
SemanticIdentity(case) ==
    [f \in ReclassFields |->
        IF f \notin DOMAIN case.corrected THEN Empty
        ELSE IF f = "property" THEN case.corrected[f]
        ELSE CanonicalText[Blank(case.corrected[f])]]
=============================================================================
