---------------------------- MODULE BillingRules ----------------------------
(***************************************************************************)
(* What the rows of an owner report owe and what goes on the next          *)
(* statement, as functions of the draft lines, the sent entries, the       *)
(* payment allocations and the presentation overrides.  Amounts are cents  *)
(* of an owner-facing amount, COALESCE(client_charge, amount_eur).          *)
(***************************************************************************)
EXTENDS ObligationFifo, Sequences, SequencesExt, FiniteSets, FiniteSetsExt

CONSTANTS
    Charges,  \* rows of the report, a sequence in the order of their dates
    Row,      \* of each charge: [contractValue, tracking, affecting, group]
    Amount,   \* of each charge, positive
    Period,   \* the statement period of each charge
    NumPayments, \* payment transactions, numbered
    Money,    \* the amount of each payment
    None

ChargeSet == ToSet(Charges)
Payments == 1..NumPayments

ASSUME BillingAssumption ==
    /\ NumPayments \in Nat
    /\ Charges \in Seq(ChargeSet)
    /\ \A i, j \in DOMAIN Charges : Charges[i] = Charges[j] => i = j
    /\ Row \in [ChargeSet -> [contractValue : BOOLEAN, tracking : BOOLEAN,
                              affecting : BOOLEAN, group : STRING]]
    /\ Amount \in [ChargeSet -> Nat \ {0}]
    /\ Period \in [ChargeSet -> Nat \ {0}]
    /\ Money \in [Payments -> Nat \ {0}]

(* fault: the gate of contract values is forgotten *)
BucketByFlags(c) ==
    IF Row[c].affecting /\ ~Row[c].tracking THEN "BALANCE_AFFECTING" ELSE "INFORMATIONAL"

(* classifyRow.                                                            *)
Bucket(c) ==
    CASE Row[c].contractValue -> "EXCLUDED"
      [] ~Row[c].contractValue /\ Row[c].tracking -> "INFORMATIONAL"
      [] ~Row[c].contractValue /\ ~Row[c].tracking /\ Row[c].affecting ->
             "BALANCE_AFFECTING"
      [] OTHER -> IF Row[c].group = "info" THEN "INFORMATIONAL" ELSE "UNRESOLVED"

Billable == {c \in ChargeSet : Bucket(c) = "BALANCE_AFFECTING"}

-----------------------------------------------------------------------------
(* resolveBillingStates.  The lines come in the order they were created and *)
(* the last one of a charge decides.                                       *)
LinesOf(lines, c) == {i \in DOMAIN lines : lines[i].tx = c}

BillingState(lines, sent, c) ==
    LET own == LinesOf(lines, c) IN
    IF own = {} THEN "unbilled"
    ELSE IF ~lines[Max(own)].included THEN "excluded"
    ELSE IF \E e \in sent : e.tx = c THEN "presented"
    ELSE "pending"

Paid(alloc, c) == SumTo([p \in Payments |-> alloc[p][c]], NumPayments)
Spent(alloc, p) == SumTo([n \in DOMAIN Charges |-> alloc[p][Charges[n]]], Len(Charges))

(* The resolver knows no amounts; the report upgrades to "paid".            *)
PaymentState(lines, sent, alloc, c) ==
    IF Paid(alloc, c) >= Amount[c] THEN "paid"
    ELSE IF Paid(alloc, c) > 0 THEN "partially_paid"
    ELSE IF BillingState(lines, sent, c) = "presented" THEN "unpaid"
    ELSE None

(* Known only for a charge that has allocations or was presented.          *)
Remaining(lines, sent, alloc, c) ==
    IF Paid(alloc, c) > 0 THEN Max({0, Amount[c] - Paid(alloc, c)})
    ELSE IF BillingState(lines, sent, c) = "presented" THEN Amount[c]
    ELSE None

-----------------------------------------------------------------------------
(* fault: a charge that no line was added for is taken to be on a draft *)
OpenIfExcluded(billing) == billing = "excluded"

(* fault: everything that is not on a draft is still to be billed *)
OpenUnlessPending(billing) == billing # "pending"

OpenBilling(billing) == billing \in {"excluded", "unbilled"}

(* classifyObligation; show is [status, until], asOf today.                 *)
Disposition(billing, payment, show, asOf) ==
    IF payment = "paid" THEN "settled"
    ELSE IF show.status = "internal_only" THEN "internal_only"
    ELSE IF show.status = "defer_until_date" /\ asOf < show.until THEN "held_deferred"
    ELSE IF show.status = "next_statement" THEN "open_reproposal"
    ELSE IF OpenBilling(billing) THEN "open_reproposal"
    ELSE "presented"

PlannedLine(c, amount) == [tx |-> c, amount |-> amount]

InOrder(set) ==
    FlattenSeq([n \in DOMAIN Charges |-> IF Charges[n] \in set THEN <<Charges[n]>> ELSE <<>>])

(* fault: rows of the period are proposed again with the open ones *)
WithRepeats(current, repeated) == repeated

(* Current lines win over proposed ones for the same transaction.           *)
WithoutRepeats(current, repeated) == repeated \ current

(* planNextDraftLines for a period: the rows of the period at their amount, *)
(* and the open obligations up to it at what remains of them.  One of which *)
(* that is unknown is no line and blocks the statement.                     *)
Reproposed(lines, sent, alloc, shown, asOf, period) ==
    {c \in Billable :
        /\ Period[c] <= period
        /\ Disposition(BillingState(lines, sent, c), PaymentState(lines, sent, alloc, c),
                       shown[c], asOf) = "open_reproposal"}

PlanLines(lines, sent, alloc, shown, asOf, period) ==
    LET current == {c \in Billable : Period[c] = period}
        known   == {c \in Reproposed(lines, sent, alloc, shown, asOf, period) :
                       Remaining(lines, sent, alloc, c) # None}
        now     == InOrder(current)
        again   == InOrder(WithoutRepeats(current, known))
    IN  [i \in DOMAIN now |-> PlannedLine(now[i], Amount[now[i]])]
            \o [i \in DOMAIN again |->
                    PlannedLine(again[i], Remaining(lines, sent, alloc, again[i]))]

Unresolved(lines, sent, alloc, shown, asOf, period) ==
    {c \in Reproposed(lines, sent, alloc, shown, asOf, period) :
        /\ Remaining(lines, sent, alloc, c) = None
        /\ Period[c] # period}

-----------------------------------------------------------------------------
(* allocate_payment: neither the charge nor the payment may get more than   *)
(* it has; the slice of the pair itself is replaced.                        *)

(* fault: the charge is not looked at *)
FitsPayment(alloc, p, c, amount) == Spent(alloc, p) - alloc[p][c] + amount <= Money[p]

Fits(alloc, p, c, amount) ==
    /\ Paid(alloc, c) - alloc[p][c] + amount <= Amount[c]
    /\ Spent(alloc, p) - alloc[p][c] + amount <= Money[p]

(* fifo_allocate_payment: the charges of the included lines by date, once    *)
(* for every line.  It joins the lines on transaction_id and line_type,      *)
(* where the reads of the same table name source_transaction_id and no      *)
(* type: the join is taken as those reads have it, with any line.           *)
Copies(lines, c) == Cardinality({i \in LinesOf(lines, c) : lines[i].included})

Due(lines) ==
    FlattenSeq([n \in DOMAIN Charges |->
        [j \in 1..Copies(lines, Charges[n]) |-> Charges[n]]])

(* fault: charges that are paid are not skipped *)
OpenAtAll(alloc, c) == Amount[c]

OpenOf(alloc, c) == Amount[c] - Paid(alloc, c)

(* The loop of fifo_allocate_payment: what each charge is owed was read once *)
(* before it; a charge that comes again has its slice replaced.  The result  *)
(* is the slice written for each charge.                                   *)
FifoSlices(lines, alloc, p) ==
    LET due     == Due(lines)
        open    == [i \in DOMAIN due |-> Max({0, OpenOf(alloc, due[i])})]
        slice   == [i \in DOMAIN due |-> Applied(open, Money[p] - Spent(alloc, p), i)]
        written == {i \in DOMAIN due : slice[i] > 0}
    IN  [c \in {due[i] : i \in written} |->
            slice[Max({i \in written : due[i] = c})]]
=============================================================================
