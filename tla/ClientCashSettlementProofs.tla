--------------------- MODULE ClientCashSettlementProofs ---------------------
(***************************************************************************)
(* Theorems about ClientCashSettlement, for every set of clients, lines,   *)
(* cashiers, keys, dates and amounts, and for both ways in which the        *)
(* register computes what remains: types and overpayment first, then the   *)
(* rows that are written, then ObligationLedger.                           *)
(***************************************************************************)
EXTENDS ClientCashSettlement, ObligationFifoProofs

-----------------------------------------------------------------------------
(* The values that the operators of the specification take.                *)

LEMMA RowsTyped ==
  ASSUME TypeOK
  PROVE  /\ Len(execution) \in Nat
         /\ Rows = 1..Len(execution)
         /\ \A i \in Rows : /\ execution[i] \in ExecutionRow
                            /\ execution[i].signed \in [Lines -> Int]
                            /\ execution[i].snapshot \in Snapshot
                            /\ execution[i].reversalOf \in Nat
                            /\ execution[i].cash \in Int
<1>1. execution \in Seq(ExecutionRow)
  BY DEF TypeOK
<1>2. /\ Len(execution) \in Nat
      /\ DOMAIN execution = 1..Len(execution)
      /\ \A i \in 1..Len(execution) : execution[i] \in ExecutionRow
  BY <1>1
<1>3. \A r \in ExecutionRow : /\ r.signed \in [Lines -> Int]
                              /\ r.snapshot \in Snapshot
                              /\ r.reversalOf \in Nat
                              /\ r.cash \in Int
  BY DEF ExecutionRow
<1>4. QED
  BY <1>2, <1>3 DEF Rows

LEMMA AllocatedInt ==
  ASSUME TypeOK, NEW l \in Lines
  PROVE  Allocated(l) \in Int
<1>1. Len(execution) \in Nat /\ \A i \in 1..Len(execution) : execution[i].signed[l] \in Int
  BY RowsTyped
<1>2. QED
  BY <1>1, SumToInt DEF Allocated, AllocatedUpTo

LEMMA SnapshotNowType ==
  ASSUME TypeOK, NEW e \in Entities, NEW d \in Directions, NEW a \in Amounts,
         NEW t \in Dates
  PROVE  SnapshotNow(e, d, a, t) \in Snapshot
<1> DEFINE register == Register(e, t)
<1>1. register \in SUBSET Lines /\ UnboundLines(e, t) \in SUBSET Lines
  BY DEF Register, Due, UnboundLines
<1>2. \A l \in Lines : Remaining(l) \in Int
  BY AllocatedInt, LineAssumption DEF Remaining, NettedRemaining
<1>3. \A l \in register : PropertyOf(l) \in Properties \cup {NoRow}
  <2>1. SUFFICES ASSUME NEW l \in register, HeaderOf[l] \notin OwnerLevel
                 PROVE  PropertyOf(l) \in Properties
    BY DEF PropertyOf
  <2>2. LiveBindings(l) # {}
    BY <2>1 DEF Register, UnboundLines, Bound
  <2>3. PICK k \in LiveBindings(l) : k = CHOOSE x \in LiveBindings(l) : TRUE
    BY <2>2
  <2>4. k \in BindKeys /\ binding[k] \in BindingRow
    BY <2>3 DEF LiveBindings, TypeOK, ObligationsTypeOK
  <2>5. QED
    BY <2>1, <2>3, <2>4 DEF PropertyOf, BoundProperty, BindingRow
<1> HIDE DEF register
<1>4. [l \in Lines |-> IF l \in register THEN Remaining(l) ELSE 0] \in [Lines -> Int]
  BY <1>2
<1>5. [l \in Lines |-> IF l \in register THEN PropertyOf(l) ELSE NoRow]
        \in [Lines -> Properties \cup {NoRow}]
  BY <1>3
<1>6. QED
  BY <1>1, <1>4, <1>5 DEF SnapshotNow, Snapshot, register

LEMMA OpenAmountsType ==
  ASSUME NEW p \in Snapshot
  PROVE  \A l \in Lines : OpenAmounts(p)[l] \in Nat
BY DEF OpenAmounts, Snapshot, Sign

LEMMA SlicesType ==
  ASSUME NEW p \in Snapshot
  PROVE  /\ Slices(p) \in [Lines -> Int]
         /\ p.amount \in Nat
         /\ \A l \in Lines :
               /\ Applied(OpenAmounts(p), p.amount, l) \in 0..OpenAmounts(p)[l]
               /\ Slices(p)[l] = Sign(p.direction) * Applied(OpenAmounts(p), p.amount, l)
<1>1. p.amount \in Nat /\ NumLines \in Nat
  BY CashAssumption, LineAssumption DEF Snapshot
<1>2. \A l \in Lines : OpenAmounts(p)[l] \in Nat
  BY OpenAmountsType
<1>3. \A l \in Lines : Applied(OpenAmounts(p), p.amount, l) \in 0..OpenAmounts(p)[l]
  BY <1>1, <1>2, AppliedRange DEF Lines
<1>4. \A l \in Lines : Applied(OpenAmounts(p), p.amount, l) \in Int
  BY <1>2, <1>3
<1>5. QED
  BY <1>1, <1>3, <1>4 DEF Slices, Sign

-----------------------------------------------------------------------------
(* Type correctness.                                                       *)

LEMMA ObligationsTypeStep ==
  ASSUME ObligationsTypeOK, ObligationsNext
  PROVE  ObligationsTypeOK'
<1> USE DEF ObligationsTypeOK
<1>1. ASSUME NEW h \in Headers, CertifyOpening(h) PROVE ObligationsTypeOK'
  BY <1>1 DEF CertifyOpening
<1>2. ASSUME NEW h \in Headers, VoidCertification(h) PROVE ObligationsTypeOK'
  BY <1>2 DEF VoidCertification
<1>3. ASSUME NEW h \in Headers, ApplyOwnerLevel(h) PROVE ObligationsTypeOK'
  BY <1>3 DEF ApplyOwnerLevel
<1>4. ASSUME NEW h \in Headers, VoidOwnerLevel(h) PROVE ObligationsTypeOK'
  BY <1>4 DEF VoidOwnerLevel
<1>5. ASSUME NEW h \in Headers, NEW prior \in Headers, SupersedeCertification(h, prior)
      PROVE ObligationsTypeOK'
  BY <1>5 DEF SupersedeCertification
<1>6. ASSUME NEW b \in Binders, NEW call \in BindRequest, BindBegin(b, call)
      PROVE ObligationsTypeOK'
  BY <1>6 DEF BindBegin
<1>7. ASSUME NEW b \in Binders, BindCommit(b) PROVE ObligationsTypeOK'
  <2> DEFINE call == bindCall[b]
             new == [line |-> call.line, property |-> call.property,
                     supersedes |-> call.supersedes, supersededBy |-> NoRow,
                     status |-> "active"]
             old(k) == [line |-> binding[k].line, property |-> binding[k].property,
                        supersedes |-> binding[k].supersedes,
                        supersededBy |-> call.key, status |-> "superseded"]
  <2>1. call \in BindRequest
    BY <1>7 DEF BindCommit
  <2>2. new \in BindingRow
    BY <2>1 DEF BindRequest, BindingRow
  <2>3. ASSUME NEW k \in BindKeys, k = call.supersedes
        PROVE  old(k) \in BindingRow
    <3>1. k \in LiveBindings(call.line)
      BY <1>7, <2>3, NoRowAssumption DEF BindCommit, RemapAllowed
    <3>2. binding[k] \in BindingRow
      BY <3>1 DEF LiveBindings
    <3>3. QED
      BY <2>1, <3>2 DEF BindRequest, BindingRow
  <2>4. binding' = [k \in BindKeys |-> IF k = call.key THEN new
                                       ELSE IF k = call.supersedes THEN old(k) ELSE binding[k]]
    BY <1>7 DEF BindCommit
  <2> HIDE DEF call, new, old
  <2>5. binding' \in [BindKeys -> BindingRow \cup {NoRow}]
    BY <2>2, <2>3, <2>4
  <2>6. QED
    BY <1>7, <2>5 DEF BindCommit
<1>8. ASSUME NEW b \in Binders, BindRefuse(b) PROVE ObligationsTypeOK'
  BY <1>8 DEF BindRefuse
<1>9. ASSUME NEW b \in Binders, BindAbort(b) PROVE ObligationsTypeOK'
  BY <1>9 DEF BindAbort
<1>10. QED
  BY <1>1, <1>2, <1>3, <1>4, <1>5, <1>6, <1>7, <1>8, <1>9
     DEF ObligationsNext, HeaderStep, BindStep

(* A call that is under way submits a preview under a key.  Without this   *)
(* the type of the rows it posts could not be known.                       *)
CallsSubmit == \A s \in Cashiers : step[s] # "idle" => preview[s] # NoRow /\ key[s] # NoKey

Typed == TypeOK /\ CallsSubmit

LEMMA SubmittedType ==
  ASSUME Typed, NEW s \in Cashiers, step[s] # "idle"
  PROVE  preview[s] \in Snapshot /\ key[s] \in ExecKeys
BY DEF Typed, TypeOK, CallsSubmit

LEMMA EndCallTyped ==
  ASSUME Typed, NEW s \in Cashiers, NEW row \in Nat, EndCall(s, row),
         execution' \in Seq(ExecutionRow)
  PROVE  Typed'
BY DEF Typed, TypeOK, ObligationsTypeOK, CallsSubmit, EndCall

LEMMA PostedRow ==
  ASSUME Typed, NEW s \in Cashiers, ExecutePost(s)
  PROVE  [key |-> key[s], snapshot |-> preview[s], cash |-> preview[s].amount,
          signed |-> Slices(preview[s]), reversalOf |-> 0] \in ExecutionRow
<1>1. preview[s] \in Snapshot /\ key[s] \in ExecKeys
  BY SubmittedType DEF ExecutePost
<1>2. Slices(preview[s]) \in [Lines -> Int] /\ preview[s].amount \in Nat
  BY <1>1, SlicesType
<1>3. QED
  BY <1>1, <1>2 DEF ExecutionRow

LEMMA ReversingRow ==
  ASSUME Typed, NEW i \in Rows, NEW k \in ReversalKeys
  PROVE  [key |-> k, snapshot |-> execution[i].snapshot, cash |-> -execution[i].cash,
          signed |-> [l \in Lines |-> -execution[i].signed[l]], reversalOf |-> i]
            \in ExecutionRow
<1>1. /\ execution[i].snapshot \in Snapshot
      /\ -execution[i].cash \in Int
      /\ [l \in Lines |-> -execution[i].signed[l]] \in [Lines -> Int]
      /\ i \in Nat
  BY RowsTyped DEF Typed
<1>2. QED
  BY <1>1 DEF ExecutionRow

LEMMA TypedStep ==
  ASSUME Typed, [Next]_vars
  PROVE  Typed'
<1>1. CASE UNCHANGED vars
  BY <1>1 DEF Typed, TypeOK, ObligationsTypeOK, CallsSubmit, vars, cashVars, obligationVars
<1>2. CASE ObligationsNext /\ UNCHANGED cashVars
  BY <1>2, ObligationsTypeStep DEF Typed, TypeOK, CallsSubmit, cashVars
<1>3. ASSUME NEW s \in Cashiers, NEW e \in Entities, NEW d \in Directions,
             NEW a \in Amounts, NEW t \in Dates, Preview(s, e, d, a, t)
      PROVE  Typed'
  <2>1. SnapshotNow(e, d, a, t) \in Snapshot
    BY SnapshotNowType DEF Typed
  <2>2. QED
    BY <1>3, <2>1 DEF Typed, TypeOK, ObligationsTypeOK, CallsSubmit, Preview, obligationVars
<1>4. ASSUME NEW s \in Cashiers, NEW k \in ExecKeys, ExecuteCall(s, k) PROVE Typed'
  BY <1>4, CashAssumption
     DEF Typed, TypeOK, ObligationsTypeOK, CallsSubmit, ExecuteCall, obligationVars
<1>5. ASSUME NEW s \in Cashiers, ExecuteLock(s) PROVE Typed'
  <2>1. ActiveBindingsOf(preview[s].entity) \in SUBSET BindKeys
    BY DEF ActiveBindingsOf
  <2>2. QED
    BY <1>5, <2>1 DEF Typed, TypeOK, ObligationsTypeOK, CallsSubmit, ExecuteLock, obligationVars
<1>6. ASSUME NEW s \in Cashiers, ExecuteReplay(s) PROVE Typed'
  <2>1. RowOf(key[s]) \in Rows
    BY <1>6 DEF ExecuteReplay, UsedKey, RowOf
  <2>2. RowOf(key[s]) \in Nat
    BY <2>1, RowsTyped DEF Typed
  <2>3. QED
    BY <1>6, <2>2, EndCallTyped DEF ExecuteReplay, Typed, TypeOK
<1>7. ASSUME NEW s \in Cashiers, ExecuteRefuse(s) PROVE Typed'
  BY <1>7, EndCallTyped DEF ExecuteRefuse, Typed, TypeOK
<1>8. ASSUME NEW s \in Cashiers, ExecuteAccept(s) PROVE Typed'
  <2>1. scanned[s] \cap ActiveBindingsOf(preview[s].entity) \in SUBSET BindKeys
    BY DEF ActiveBindingsOf
  <2>2. QED
    BY <1>8, <2>1 DEF Typed, TypeOK, ObligationsTypeOK, CallsSubmit, ExecuteAccept
<1>9. ASSUME NEW s \in Cashiers, ExecutePost(s) PROVE Typed'
  <2>1. execution' \in Seq(ExecutionRow)
    BY <1>9, PostedRow DEF ExecutePost, Typed, TypeOK
  <2>2. Len(execution) + 1 \in Nat
    BY RowsTyped DEF Typed
  <2>3. QED
    BY <1>9, <2>1, <2>2, EndCallTyped DEF ExecutePost
<1>10. ASSUME NEW s \in Cashiers, ExecuteFail(s) PROVE Typed'
  BY <1>10, EndCallTyped DEF ExecuteFail, Typed, TypeOK
<1>11. ASSUME NEW s \in Cashiers, ExecuteAbort(s) PROVE Typed'
  BY <1>11, EndCallTyped DEF ExecuteAbort, Typed, TypeOK
<1>12. ASSUME NEW i \in Rows, NEW k \in ReversalKeys, Reverse(i, k) PROVE Typed'
  <2>1. execution' \in Seq(ExecutionRow)
    BY <1>12, ReversingRow DEF Reverse, Typed, TypeOK
  <2>2. QED
    BY <1>12, <2>1 DEF Typed, TypeOK, ObligationsTypeOK, CallsSubmit, Reverse, obligationVars
<1>13. QED
  BY <1>1, <1>2, <1>3, <1>4, <1>5, <1>6, <1>7, <1>8, <1>9, <1>10, <1>11, <1>12
     DEF Next, CashierStep

LEMMA InitTyped == Init => Typed
BY DEF Init, ObligationsInit, CashInit, Typed, TypeOK, ObligationsTypeOK, CallsSubmit

(* Every reachable state has its type.                                     *)
THEOREM TypeCorrect == Spec => []TypeOK
<1>1. Typed => TypeOK
  BY DEF Typed
<1>2. QED
  BY <1>1, InitTyped, TypedStep, PTL DEF Spec

-----------------------------------------------------------------------------
(* The inductive invariant behind OverpaymentTakesTwo.                     *)
(*                                                                         *)
(* OverpaymentTakesTwo is not inductive, for two reasons.  A reversal      *)
(* takes slices away, so one must know that what is left is a sum of       *)
(* unreversed payments, all of which push the obligation the same way.     *)
(* And a payment adds slices computed from a preview, so one must know     *)
(* that the preview is still right when it is posted, which is what the    *)
(* lock of the client is for.  Whatever the register, each payment stays   *)
(* within the original amount; with one that nets, their sum does too.     *)

(* The slice of row i on line l if row i is a payment not reversed yet.    *)
LiveSlice(i, l) ==
    IF execution[i].reversalOf = 0 /\ ~IsReversed(i) THEN execution[i].signed[l] ELSE 0

LiveTotal(l) == SumTo([i \in Rows |-> LiveSlice(i, l)], Len(execution))

AllocatedIsLive == \A l \in Lines : Allocated(l) = LiveTotal(l)

(* A reversal names an earlier payment and has its slices negated.         *)
ReversalsMirror ==
    \A i \in Rows : execution[i].reversalOf # 0 =>
        /\ execution[i].reversalOf \in 1..(i-1)
        /\ execution[execution[i].reversalOf].reversalOf = 0
        /\ \A l \in Lines : execution[i].signed[l]
                              = -execution[execution[i].reversalOf].signed[l]
        /\ execution[i].snapshot = execution[execution[i].reversalOf].snapshot
        /\ execution[i].cash = -execution[execution[i].reversalOf].cash

ReversedOnce ==
    \A i, j \in Rows :
        execution[i].reversalOf = execution[j].reversalOf /\ execution[i].reversalOf # 0
           => i = j

(* x does not push an amount o away from zero.                             *)
Lowers(o, x) == IF o >= 0 THEN x <= 0 ELSE x >= 0

PaymentsLower ==
    \A i \in Rows, l \in Lines :
        execution[i].reversalOf = 0 => Lowers(Original[l], execution[i].signed[l])

(* A row has slices on lines of its own client only, and a preview lists   *)
(* lines of its own client only.                                           *)
SlicesStayWithClient ==
    \A i \in Rows, l \in Lines :
        execution[i].signed[l] # 0 => EntityOf[HeaderOf[l]] = execution[i].snapshot.entity

PreviewsStayWithClient ==
    \A s \in Cashiers, l \in Lines :
        preview[s] # NoRow /\ preview[s].remaining[l] # 0
           => EntityOf[HeaderOf[l]] = preview[s].entity

(* The advisory lock of a client has one holder.                           *)
OneHolder ==
    \A s, t \in Cashiers :
        /\ step[s] \in {"locking", "posting"}
        /\ step[t] \in {"locking", "posting"}
        /\ preview[s].entity = preview[t].entity
        => s = t

(* What a call is about to post was computed from the amounts remaining    *)
(* now.                                                                    *)
PostingIsCurrent ==
    \A s \in Cashiers, l \in Lines :
        step[s] = "posting" /\ preview[s].remaining[l] # 0
           => preview[s].remaining[l] = Remaining(l)

(* Each payment by itself stays within the original amount of each line.   *)
PaymentsFit ==
    \A i \in Rows, l \in Lines :
        execution[i].reversalOf = 0 => Within(Original[l], Original[l] + execution[i].signed[l])

(* A register that nets keeps the sum of all slices within it as well.     *)
NettingFits == NettedRegister => NoOverAllocation

Inv ==
    /\ Typed
    /\ AllocatedIsLive
    /\ ReversalsMirror
    /\ ReversedOnce
    /\ PaymentsLower
    /\ SlicesStayWithClient
    /\ PreviewsStayWithClient
    /\ OneHolder
    /\ PostingIsCurrent
    /\ PaymentsFit
    /\ NettingFits

(* The parts of the invariant that only look at the rows.                  *)
RowsInv ==
    /\ AllocatedIsLive
    /\ ReversalsMirror
    /\ ReversedOnce
    /\ PaymentsLower
    /\ SlicesStayWithClient
    /\ PaymentsFit
    /\ NettingFits

-----------------------------------------------------------------------------
(* What appending one row does to the sums.                                *)

LEMMA AppendedRows ==
  ASSUME Typed, NEW row, execution' = Append(execution, row)
  PROVE  /\ Len(execution') = Len(execution) + 1
         /\ Rows' = 1..(Len(execution) + 1)
         /\ \A i \in Rows : execution'[i] = execution[i] /\ i \in Rows'
         /\ execution'[Len(execution) + 1] = row
<1>1. execution \in Seq(ExecutionRow)
  BY DEF Typed, TypeOK
<1>2. QED
  BY <1>1, RowsTyped DEF Typed, Rows

LEMMA AppendAllocated ==
  ASSUME Typed, NEW row, execution' = Append(execution, row), NEW l \in Lines
  PROVE  Allocated(l)' = Allocated(l) + row.signed[l]
<1> DEFINE n == Len(execution)
           f == [i \in 1..n |-> execution[i].signed[l]]
           g == [i \in 1..(n+1) |-> execution'[i].signed[l]]
<1>1. n \in Nat /\ Rows = 1..n
  BY RowsTyped DEF Typed
<1>2. Allocated(l) = SumTo(f, n)
  BY DEF Allocated, AllocatedUpTo
<1>3. Allocated(l)' = SumTo(g, n+1)
  BY AppendedRows DEF Allocated, AllocatedUpTo
<1>4. \A i \in 1..n : g[i] = f[i]
  BY <1>1, AppendedRows
<1>5. g[n+1] = row.signed[l]
  BY <1>1, AppendedRows
<1> HIDE DEF f, g, n
<1>6. SumTo(g, n) = SumTo(f, n)
  BY <1>1, <1>4, SumToAgree
<1>7. SumTo(g, n+1) = SumTo(g, n) + g[n+1]
  <2>1. n+1 \in Nat /\ n+1 # 0 /\ (n+1)-1 = n
    BY <1>1
  <2>2. SumTo(g, n+1) = IF n+1 = 0 THEN 0 ELSE SumTo(g, (n+1)-1) + g[n+1]
    BY <2>1, SumToStep
  <2>3. QED
    BY <2>1, <2>2
<1>8. QED
  BY <1>2, <1>3, <1>5, <1>6, <1>7

(* A payment is one more live row.                                         *)
LEMMA PostLive ==
  ASSUME Typed, RowsInv, NEW row, execution' = Append(execution, row), row.reversalOf = 0,
         NEW l \in Lines
  PROVE  LiveTotal(l)' = LiveTotal(l) + row.signed[l]
<1> DEFINE n == Len(execution)
           f == [i \in Rows |-> LiveSlice(i, l)]
           g == [i \in Rows' |-> LiveSlice(i, l)']
<1>1. n \in Nat /\ Rows = 1..n /\ Rows' = 1..(n+1) /\ Len(execution') = n+1
  BY RowsTyped, AppendedRows DEF Typed
<1>2. LiveTotal(l) = SumTo(f, n) /\ LiveTotal(l)' = SumTo(g, n+1)
  BY <1>1 DEF LiveTotal
<1>3. \A i \in Rows : IsReversed(i)' <=> IsReversed(i)
  BY <1>1, AppendedRows DEF IsReversed
<1>4. \A i \in Rows' : i = n+1 => ~IsReversed(i)'
  <2>1. \A j \in Rows : execution'[j].reversalOf # n+1
    BY <1>1, AppendedRows DEF RowsInv, ReversalsMirror
  <2>2. execution'[n+1].reversalOf # n+1
    BY <1>1, AppendedRows
  <2>3. QED
    BY <1>1, <2>1, <2>2 DEF IsReversed
<1>5. \A i \in 1..n : g[i] = f[i]
  BY <1>1, <1>3, AppendedRows DEF LiveSlice
<1>6. g[n+1] = row.signed[l]
  BY <1>1, <1>4, AppendedRows DEF LiveSlice
<1> HIDE DEF f, g, n
<1>7. SumTo(g, n) = SumTo(f, n)
  BY <1>1, <1>5, SumToAgree
<1>8. SumTo(g, n+1) = SumTo(g, n) + g[n+1]
  <2>1. n+1 \in Nat /\ n+1 # 0 /\ (n+1)-1 = n
    BY <1>1
  <2>2. SumTo(g, n+1) = IF n+1 = 0 THEN 0 ELSE SumTo(g, (n+1)-1) + g[n+1]
    BY <2>1, SumToStep
  <2>3. QED
    BY <2>1, <2>2
<1>9. QED
  BY <1>2, <1>6, <1>7, <1>8

(* A reversal ends the life of one row.                                    *)
LEMMA ReverseLive ==
  ASSUME Typed, RowsInv, NEW r \in Rows, NEW row, execution' = Append(execution, row),
         row.reversalOf = r, execution[r].reversalOf = 0, ~IsReversed(r),
         NEW l \in Lines
  PROVE  LiveTotal(l)' = LiveTotal(l) - execution[r].signed[l]
<1> DEFINE n == Len(execution)
           f == [i \in Rows |-> LiveSlice(i, l)]
           g == [i \in Rows' |-> LiveSlice(i, l)']
<1>1. n \in Nat /\ Rows = 1..n /\ Rows' = 1..(n+1) /\ Len(execution') = n+1
  BY RowsTyped, AppendedRows DEF Typed
<1>2. LiveTotal(l) = SumTo(f, n) /\ LiveTotal(l)' = SumTo(g, n+1)
  BY <1>1 DEF LiveTotal
<1>3. \A i \in Rows : IsReversed(i)' <=> (IsReversed(i) \/ i = r)
  BY <1>1, AppendedRows DEF IsReversed
<1>4. \A i \in 1..n : i # r => g[i] = f[i]
  BY <1>1, <1>3, AppendedRows DEF LiveSlice
<1>5. g[r] = 0 /\ f[r] = execution[r].signed[l]
  BY <1>1, <1>3, AppendedRows DEF LiveSlice
<1>6. g[n+1] = 0
  BY <1>1, AppendedRows DEF LiveSlice
<1>7. \A i \in 1..n : f[i] \in Int
  BY <1>1, RowsTyped DEF LiveSlice, Typed
<1>8. r \in 1..n
  BY <1>1
<1> HIDE DEF f, g, n
<1>9. \A i \in 1..n : f[i] \in Int /\ g[i] \in Int
  BY <1>4, <1>5, <1>7
<1>10. SumTo(g, n) = SumTo(f, n) + g[r] - f[r]
  BY <1>1, <1>4, <1>8, <1>9, SumToChange
<1>11. SumTo(g, n+1) = SumTo(g, n) + g[n+1]
  <2>1. n+1 \in Nat /\ n+1 # 0 /\ (n+1)-1 = n
    BY <1>1
  <2>2. SumTo(g, n+1) = IF n+1 = 0 THEN 0 ELSE SumTo(g, (n+1)-1) + g[n+1]
    BY <2>1, SumToStep
  <2>3. QED
    BY <2>1, <2>2
<1>12. SumTo(f, n) \in Int
  BY <1>1, <1>7, SumToInt
<1>13. f[r] \in Int
  BY <1>8, <1>9
<1>14. QED
  BY <1>2, <1>5, <1>6, <1>10, <1>11, <1>12, <1>13

-----------------------------------------------------------------------------
LEMMA QuietRows ==
  ASSUME RowsInv, UNCHANGED execution
  PROVE  RowsInv'
BY DEF RowsInv, AllocatedIsLive, ReversalsMirror, ReversedOnce, PaymentsLower,
       SlicesStayWithClient, PaymentsFit, NettingFits, NoOverAllocation, Rows,
       Allocated, AllocatedUpTo,
       LiveTotal, LiveSlice, IsReversed

LEMMA QuietRemaining ==
  ASSUME UNCHANGED execution, NEW l \in Lines
  PROVE  Remaining(l)' = Remaining(l)
BY DEF Remaining, NettedRemaining, Allocated, AllocatedUpTo

(* What a snapshot of the register shows.                                  *)
LEMMA SnapshotShows ==
  ASSUME NEW e \in Entities, NEW d, NEW a, NEW t, NEW l \in Lines,
         SnapshotNow(e, d, a, t).remaining[l] # 0
  PROVE  /\ SnapshotNow(e, d, a, t).remaining[l] = Remaining(l)
         /\ EntityOf[HeaderOf[l]] = e
<1>1. SnapshotNow(e, d, a, t).remaining[l]
         = IF l \in Register(e, t) THEN Remaining(l) ELSE 0
  BY DEF SnapshotNow
<1>2. l \in Register(e, t)
  BY <1>1
<1>3. QED
  BY <1>1, <1>2 DEF Register, Due

LEMMA SnapshotEntity ==
  ASSUME NEW e, NEW d, NEW a, NEW t
  PROVE  SnapshotNow(e, d, a, t).entity = e
BY DEF SnapshotNow

(* What the slices of a walk do to a line, if the walk offers no more of it *)
(* than what still remains.                                                *)
LEMMA WalkEffect ==
  ASSUME Typed, NettingFits, NEW p \in Snapshot, Postable(p), NEW l \in Lines,
         p.remaining[l] # 0 => /\ EntityOf[HeaderOf[l]] = p.entity
                              /\ Within(Remaining(l), p.remaining[l])
  PROVE  LET x == Slices(p)[l] IN
         /\ x \in Int
         /\ x # 0 => EntityOf[HeaderOf[l]] = p.entity
         /\ Lowers(Original[l], x)
         /\ Within(Original[l], Original[l] + x)
         /\ NettedRegister => Within(Original[l], Original[l] + (Allocated(l) + x))
<1> DEFINE x == Slices(p)[l]
           owed == -Sign(p.direction) * p.remaining[l]
           part == Applied(OpenAmounts(p), p.amount, l)
           netted == IF NettedRegister THEN Allocated(l) ELSE 0
<1>1. NettedRegister \/ ~NettedRegister
  OBVIOUS
<1>2. Original[l] \in Int /\ Allocated(l) \in Int /\ netted \in Int
  BY AllocatedInt, LineAssumption DEF Typed
<1>3. Within(Original[l], Original[l] + netted)
  BY <1>2 DEF NettingFits, NoOverAllocation, Within
<1>4. /\ part \in 0..OpenAmounts(p)[l]
      /\ x = Sign(p.direction) * part
      /\ x \in Int
  BY SlicesType
<1>5. /\ p.remaining[l] \in Int
      /\ Sign(p.direction) \in {-1, 1}
      /\ OpenAmounts(p)[l] = IF owed > 0 THEN owed ELSE 0
  BY DEF Snapshot, OpenAmounts, Sign
<1>6. /\ x # 0 => EntityOf[HeaderOf[l]] = p.entity
      /\ Lowers(Original[l], x)
      /\ Within(Original[l], Original[l] + x)
      /\ Within(Original[l], Original[l] + (netted + x))
  <2>1. CASE x = 0
    BY <1>2, <1>3, <2>1 DEF Lowers, Within
  <2>2. CASE x # 0
    <3>1. HeaderOf[l] \notin OwnerLevel
      BY <2>2 DEF Postable, PaidLines
    <3>2. Remaining(l) = Original[l] + netted
      BY <1>1, <1>2, <3>1 DEF Remaining, NettedRemaining
    <3> HIDE DEF part, x, netted
    <3>3. part # 0
      BY <1>4, <1>5, <2>2
    <3>4. owed > 0 /\ p.remaining[l] # 0 /\ part \in 0..owed
      BY <1>4, <1>5, <3>3
    <3>5. Within(Original[l] + netted, p.remaining[l])
      BY <3>2, <3>4
    <3>6. EntityOf[HeaderOf[l]] = p.entity
      BY <3>4
    <3>7. /\ Lowers(Original[l], x)
          /\ Within(Original[l], Original[l] + x)
          /\ Within(Original[l], Original[l] + (netted + x))
      BY <1>2, <1>3, <1>4, <1>5, <3>4, <3>5 DEF Lowers, Within
    <3>8. QED
      BY <3>6, <3>7
  <2>3. QED
    BY <2>1, <2>2
<1>7. QED
  BY <1>4, <1>6

(* What a payment that is about to be posted does to a line.               *)
LEMMA SliceEffect ==
  ASSUME Inv, NEW s \in Cashiers, step[s] = "posting", Postable(preview[s]),
         NEW l \in Lines
  PROVE  LET x == Slices(preview[s])[l] IN
         /\ x \in Int
         /\ x # 0 => EntityOf[HeaderOf[l]] = preview[s].entity
         /\ Lowers(Original[l], x)
         /\ Within(Original[l], Original[l] + x)
         /\ NettedRegister => Within(Original[l], Original[l] + (Allocated(l) + x))
<1>1. preview[s] \in Snapshot /\ preview[s] # NoRow
  BY SubmittedType DEF Inv, Typed, CallsSubmit
<1>2. preview[s].remaining[l] \in Int
  BY <1>1 DEF Snapshot
<1>3. preview[s].remaining[l] # 0 =>
         /\ EntityOf[HeaderOf[l]] = preview[s].entity
         /\ Within(Remaining(l), preview[s].remaining[l])
  BY <1>1, <1>2 DEF Inv, PostingIsCurrent, PreviewsStayWithClient, Within
<1>4. QED
  BY <1>1, <1>3, WalkEffect DEF Inv

(* One more payment, within what remains of each line.                      *)
LEMMA PostedRows ==
  ASSUME Typed, RowsInv, NEW row, execution' = Append(execution, row), row.reversalOf = 0,
         \A l \in Lines :
            /\ row.signed[l] \in Int
            /\ row.signed[l] # 0 => EntityOf[HeaderOf[l]] = row.snapshot.entity
            /\ Lowers(Original[l], row.signed[l])
            /\ Within(Original[l], Original[l] + row.signed[l])
            /\ NettedRegister => Within(Original[l], Original[l] + (Allocated(l) + row.signed[l]))
  PROVE  RowsInv'
<1> DEFINE n == Len(execution)
<1>4. /\ n \in Nat /\ Rows = 1..n /\ Rows' = 1..(n+1)
      /\ \A i \in Rows : execution'[i] = execution[i]
      /\ execution'[n+1] = row
  BY RowsTyped, AppendedRows DEF Typed
<1> HIDE DEF n
<1>5. \A i \in Rows' : \/ i \in Rows /\ execution'[i] = execution[i]
                       \/ i = n+1 /\ execution'[i] = row
  <2>1. \A i \in 1..(n+1) : i \in 1..n \/ i = n+1
    BY <1>4
  <2>2. QED
    BY <1>4, <2>1
<1>6. AllocatedIsLive'
  BY AppendAllocated, PostLive DEF AllocatedIsLive, RowsInv
<1>7. ReversalsMirror'
  <2>1. SUFFICES ASSUME NEW i \in Rows', execution'[i].reversalOf # 0
                 PROVE  /\ execution'[i].reversalOf \in 1..(i-1)
                        /\ execution'[execution'[i].reversalOf].reversalOf = 0
                        /\ \A l \in Lines : execution'[i].signed[l]
                              = -execution'[execution'[i].reversalOf].signed[l]
                        /\ execution'[i].snapshot = execution'[execution'[i].reversalOf].snapshot
                        /\ execution'[i].cash = -execution'[execution'[i].reversalOf].cash
    BY DEF ReversalsMirror
  <2>2. i \in Rows /\ execution'[i] = execution[i]
    BY <1>5, <2>1
  <2>3. execution[i].reversalOf \in 1..(i-1) /\ execution[i].reversalOf \in Rows
    BY <1>4, <2>1, <2>2 DEF RowsInv, ReversalsMirror
  <2>4. execution'[execution[i].reversalOf] = execution[execution[i].reversalOf]
    BY <1>4, <2>3
  <2>5. QED
    BY <2>1, <2>2, <2>3, <2>4 DEF RowsInv, ReversalsMirror
<1>8. ReversedOnce'
  BY <1>5 DEF ReversedOnce, RowsInv
<1>9. PaymentsLower'
  BY <1>5 DEF PaymentsLower, RowsInv
<1>10. SlicesStayWithClient'
  BY <1>5 DEF SlicesStayWithClient, RowsInv
<1>11. PaymentsFit'
  BY <1>5 DEF PaymentsFit, RowsInv
<1>12. NettingFits'
  BY AppendAllocated DEF NettingFits, NoOverAllocation
<1>13. QED
  BY <1>6, <1>7, <1>8, <1>9, <1>10, <1>11, <1>12 DEF RowsInv

LEMMA PostRows ==
  ASSUME Inv, NEW s \in Cashiers, ExecutePost(s)
  PROVE  RowsInv'
<1> DEFINE p == preview[s]
           row == [key |-> key[s], snapshot |-> p, cash |-> p.amount,
                   signed |-> Slices(p), reversalOf |-> 0]
<1>1. /\ execution' = Append(execution, row)
      /\ step[s] = "posting" /\ Postable(p)
  BY DEF ExecutePost
<1>2. /\ row.signed = Slices(p) /\ row.reversalOf = 0 /\ row.snapshot = p
  OBVIOUS
<1>3. \A l \in Lines :
        /\ row.signed[l] \in Int
        /\ row.signed[l] # 0 => EntityOf[HeaderOf[l]] = row.snapshot.entity
        /\ Lowers(Original[l], row.signed[l])
        /\ Within(Original[l], Original[l] + row.signed[l])
        /\ NettedRegister => Within(Original[l], Original[l] + (Allocated(l) + row.signed[l]))
  BY <1>2, <1>1, SliceEffect
<1> HIDE DEF row
<1>4. Typed /\ RowsInv
  BY DEF Inv, RowsInv
<1>5. QED
  BY <1>1, <1>2, <1>3, <1>4, PostedRows

(* A sum of live slices pushes a line one way.                             *)
LEMMA LiveTotalLowers ==
  ASSUME Typed, PaymentsLower, NEW l \in Lines
  PROVE  LiveTotal(l) \in Int /\ Lowers(Original[l], LiveTotal(l))
<1> DEFINE n == Len(execution)
           f == [i \in Rows |-> LiveSlice(i, l)]
           g == [i \in Rows |-> -LiveSlice(i, l)]
<1>1. n \in Nat /\ Rows = 1..n /\ LiveTotal(l) = SumTo(f, n)
  BY RowsTyped DEF Typed, LiveTotal
<1>2. \A i \in Rows : execution[i].signed[l] \in Int
  BY RowsTyped DEF Typed
<1>3. Original[l] \in Int
  BY LineAssumption
<1>4. \A i \in 1..n : /\ f[i] \in Int
                      /\ g[i] = -f[i]
                      /\ Lowers(Original[l], f[i])
  BY <1>1, <1>2, <1>3 DEF LiveSlice, PaymentsLower, Lowers
<1> HIDE DEF f, g, n
<1>5. SumTo(f, n) \in Int
  BY <1>1, <1>4, SumToInt
<1>6. CASE Original[l] >= 0
  <2>1. \A i \in 1..n : g[i] \in Nat
    BY <1>4, <1>6 DEF Lowers
  <2>2. SumTo(g, n) \in Nat
    BY <1>1, <2>1, SumToNat
  <2>3. SumTo(g, n) = -SumTo(f, n)
    BY <1>1, <1>4, SumToNegated
  <2>4. QED
    BY <1>1, <1>5, <1>6, <2>2, <2>3 DEF Lowers
<1>7. CASE ~(Original[l] >= 0)
  <2>1. \A i \in 1..n : f[i] \in Nat
    BY <1>4, <1>7 DEF Lowers
  <2>2. SumTo(f, n) \in Nat
    BY <1>1, <2>1, SumToNat
  <2>3. QED
    BY <1>1, <1>7, <2>2 DEF Lowers
<1>8. QED
  BY <1>6, <1>7

LEMMA LiveTotalLowersAlways ==
  Typed /\ PaymentsLower => \A l \in Lines : Lowers(Original[l], LiveTotal(l))
BY LiveTotalLowers

LEMMA LiveTotalLowersNext ==
  (Typed /\ PaymentsLower)' => (\A l \in Lines : Lowers(Original[l], LiveTotal(l)))'
BY LiveTotalLowersAlways, PTL

(* A row is added to the executions.                                      *)
AppendsRow(row) == execution' = Append(execution, row)

(* A row takes back row r.                                                 *)
TakesBack(row, r) ==
    /\ row.reversalOf = r
    /\ \A l \in Lines : row.signed[l] = -execution[r].signed[l]
    /\ row.snapshot = execution[r].snapshot
    /\ row.cash = -execution[r].cash

(* One more reversal, of a payment that none has reversed.                  *)
LEMMA ReversedRows ==
  ASSUME Typed, Typed', RowsInv, NEW r \in Rows, NEW row, AppendsRow(row),
         execution[r].reversalOf = 0, ~IsReversed(r), TakesBack(row, r)
  PROVE  RowsInv'
<1> DEFINE n == Len(execution)
<1>1. execution[r].reversalOf = 0 /\ ~IsReversed(r)
  OBVIOUS
<1>2. /\ \A l \in Lines : row.signed[l] = -execution[r].signed[l]
      /\ row.reversalOf = r
      /\ row.snapshot = execution[r].snapshot
      /\ row.cash = -execution[r].cash
  BY DEF TakesBack
<1>3. /\ n \in Nat /\ Rows = 1..n /\ Rows' = 1..(n+1)
      /\ \A i \in Rows : execution'[i] = execution[i]
      /\ execution'[n+1] = row
      /\ \A i \in Rows, l \in Lines : execution[i].signed[l] \in Int
  BY RowsTyped, AppendedRows DEF Typed, AppendsRow
<1> HIDE DEF n
<1>4. \A i \in Rows' : \/ i \in Rows /\ execution'[i] = execution[i]
                       \/ i = n+1 /\ execution'[i] = row
  BY <1>3
<1>5. r \in 1..n /\ r # 0 /\ execution'[r] = execution[r]
  BY <1>3
<1>6. \A l \in Lines : /\ Allocated(l)' = Allocated(l) - execution[r].signed[l]
                       /\ LiveTotal(l)' = LiveTotal(l) - execution[r].signed[l]
  <2>1. SUFFICES ASSUME NEW l \in Lines
                 PROVE  /\ Allocated(l)' = Allocated(l) - execution[r].signed[l]
                        /\ LiveTotal(l)' = LiveTotal(l) - execution[r].signed[l]
    OBVIOUS
  <2>2. Allocated(l)' = Allocated(l) + row.signed[l]
    BY AppendAllocated DEF AppendsRow
  <2>3. LiveTotal(l)' = LiveTotal(l) - execution[r].signed[l]
    BY <1>1, <1>2, ReverseLive DEF AppendsRow
  <2>4. Allocated(l) \in Int /\ execution[r].signed[l] \in Int
    BY <1>3, AllocatedInt DEF Typed
  <2>5. QED
    BY <1>2, <2>2, <2>3, <2>4
<1>7. AllocatedIsLive'
  BY <1>6 DEF AllocatedIsLive, RowsInv
<1>8. ReversalsMirror'
  <2>1. SUFFICES ASSUME NEW i \in Rows', execution'[i].reversalOf # 0
                 PROVE  /\ execution'[i].reversalOf \in 1..(i-1)
                        /\ execution'[execution'[i].reversalOf].reversalOf = 0
                        /\ \A l \in Lines : execution'[i].signed[l]
                              = -execution'[execution'[i].reversalOf].signed[l]
                        /\ execution'[i].snapshot = execution'[execution'[i].reversalOf].snapshot
                        /\ execution'[i].cash = -execution'[execution'[i].reversalOf].cash
    BY DEF ReversalsMirror
  <2>2. CASE i \in Rows /\ execution'[i] = execution[i]
    <3>1. execution[i].reversalOf \in 1..(i-1) /\ execution[i].reversalOf \in Rows
      BY <1>3, <2>1, <2>2 DEF RowsInv, ReversalsMirror
    <3>2. execution'[execution[i].reversalOf] = execution[execution[i].reversalOf]
      BY <1>3, <3>1
    <3>3. QED
      BY <2>1, <2>2, <3>1, <3>2 DEF RowsInv, ReversalsMirror
  <2>3. CASE i = n+1 /\ execution'[i] = row
    <3>1. execution'[i].reversalOf = r /\ r \in 1..(i-1)
      BY <1>2, <1>3, <1>5, <2>3
    <3>2. execution'[execution'[i].reversalOf] = execution[r]
      BY <1>5, <3>1
    <3>3. QED
      BY <1>1, <1>2, <2>3, <3>1, <3>2
  <2>4. QED
    BY <1>4, <2>2, <2>3
<1>9. ReversedOnce'
  <2>1. \A j \in Rows : execution[j].reversalOf # r
    BY DEF IsReversed
  <2>2. QED
    BY <1>2, <1>4, <2>1 DEF ReversedOnce, RowsInv
<1>10. PaymentsLower'
  BY <1>2, <1>4, <1>5 DEF PaymentsLower, RowsInv
<1>11. SlicesStayWithClient'
  BY <1>2, <1>3, <1>4 DEF SlicesStayWithClient, RowsInv
<1>12. NettingFits'
  <2>1. SUFFICES ASSUME NettedRegister, NEW l \in Lines
                 PROVE  Within(Original[l], Original[l] + Allocated(l)')
    BY DEF NettingFits, NoOverAllocation
  <2> DEFINE A == Allocated(l)
             x == execution[r].signed[l]
  <2>2. A \in Int /\ x \in Int /\ Original[l] \in Int
    BY <1>3, AllocatedInt, LineAssumption DEF Typed
  <2>3. Allocated(l)' = A - x
    BY <1>6
  <2>4. Lowers(Original[l], x)
    BY DEF RowsInv, PaymentsLower
  <2>5. Within(Original[l], Original[l] + A)
    BY <2>1 DEF RowsInv, NettingFits, NoOverAllocation
  <2>6. Lowers(Original[l], A - x)
    <3>2. Lowers(Original[l], LiveTotal(l)')
      BY <1>10, LiveTotalLowersNext
    <3>3. LiveTotal(l)' = A - x
      BY <1>7, <2>3 DEF AllocatedIsLive
    <3>4. QED
      BY <3>2, <3>3
  <2> HIDE DEF A, x
  <2>7. QED
    BY <2>2, <2>3, <2>4, <2>5, <2>6 DEF Within, Lowers
<1>13. PaymentsFit'
  BY <1>2, <1>4, <1>5 DEF PaymentsFit, RowsInv
<1>14. QED
  BY <1>7, <1>8, <1>9, <1>10, <1>11, <1>12, <1>13 DEF RowsInv

LEMMA ReverseRows ==
  ASSUME Inv, NEW r \in Rows, NEW k \in ReversalKeys, Reverse(r, k)
  PROVE  RowsInv'
<1> DEFINE row == [key |-> k, snapshot |-> execution[r].snapshot,
                   cash |-> -execution[r].cash,
                   signed |-> [l \in Lines |-> -execution[r].signed[l]],
                   reversalOf |-> r]
<1>1. /\ AppendsRow(row)
      /\ execution[r].reversalOf = 0 /\ ~IsReversed(r)
  BY DEF Reverse, AppendsRow
<1>2. TakesBack(row, r)
  BY DEF TakesBack
<1> HIDE DEF row
<1>3. Typed /\ RowsInv
  BY DEF Inv, RowsInv
<1>4. Typed'
  <2>1. [Next]_vars
    BY DEF Next
  <2>2. QED
    BY <1>3, <2>1, TypedStep
<1>5. QED
  BY <1>1, <1>2, <1>3, <1>4, ReversedRows

-----------------------------------------------------------------------------
(* The parts of the invariant that look at the calls.                      *)
CallsInv == PreviewsStayWithClient /\ OneHolder /\ PostingIsCurrent

(* Ending a call without posting disturbs nothing.                         *)
LEMMA EndCallCalls ==
  ASSUME Inv, NEW s \in Cashiers, NEW row, EndCall(s, row), UNCHANGED execution
  PROVE  CallsInv'
<1>1. /\ preview' = preview
      /\ step' = [step EXCEPT ![s] = "idle"]
      /\ step \in [Cashiers -> {"idle", "waiting", "locking", "posting"}]
  BY DEF EndCall, Inv, Typed, TypeOK
<1>2. PreviewsStayWithClient'
  BY <1>1 DEF Inv, PreviewsStayWithClient
<1>3. OneHolder'
  BY <1>1 DEF Inv, OneHolder
<1>4. PostingIsCurrent'
  BY <1>1, QuietRemaining DEF Inv, PostingIsCurrent
<1>5. QED
  BY <1>2, <1>3, <1>4 DEF CallsInv

LEMMA PreviewCalls ==
  ASSUME Inv, NEW s \in Cashiers, NEW e \in Entities, NEW d \in Directions,
         NEW a \in Amounts, NEW t \in Dates, Preview(s, e, d, a, t)
  PROVE  CallsInv'
<1>1. /\ step' = step /\ step[s] = "idle" /\ UNCHANGED execution
      /\ preview' = [preview EXCEPT ![s] = SnapshotNow(e, d, a, t)]
      /\ preview \in [Cashiers -> Snapshot \cup {NoRow}]
  BY DEF Preview, Inv, Typed, TypeOK
<1>2. PreviewsStayWithClient'
  <2>1. SUFFICES ASSUME NEW u \in Cashiers, NEW l \in Lines,
                        preview'[u] # NoRow, preview'[u].remaining[l] # 0
                 PROVE  EntityOf[HeaderOf[l]] = preview'[u].entity
    BY DEF PreviewsStayWithClient
  <2>2. CASE u = s
    BY <1>1, <2>1, <2>2, SnapshotShows, SnapshotEntity
  <2>3. CASE u # s
    BY <1>1, <2>1, <2>3 DEF Inv, PreviewsStayWithClient
  <2>4. QED
    BY <2>2, <2>3
<1>3. OneHolder'
  BY <1>1 DEF Inv, OneHolder
<1>4. PostingIsCurrent'
  BY <1>1, QuietRemaining DEF Inv, PostingIsCurrent
<1>5. QED
  BY <1>2, <1>3, <1>4 DEF CallsInv

LEMMA AcceptCalls ==
  ASSUME Inv, NEW s \in Cashiers, ExecuteAccept(s)
  PROVE  CallsInv'
<1>1. /\ step[s] = "locking" /\ UNCHANGED <<execution, preview>>
      /\ step' = [step EXCEPT ![s] = "posting"]
      /\ step \in [Cashiers -> {"idle", "waiting", "locking", "posting"}]
  BY DEF ExecuteAccept, Inv, Typed, TypeOK
<1>2. PreviewsStayWithClient'
  BY <1>1 DEF Inv, PreviewsStayWithClient
<1>3. OneHolder'
  BY <1>1 DEF Inv, OneHolder
<1>4. PostingIsCurrent'
  <2>1. SUFFICES ASSUME NEW u \in Cashiers, NEW l \in Lines, step'[u] = "posting",
                        preview[u].remaining[l] # 0
                 PROVE  preview[u].remaining[l] = Remaining(l)
    BY <1>1, QuietRemaining DEF PostingIsCurrent
  <2>2. CASE u = s
    <3>1. preview[s] \in Snapshot
      BY <1>1, SubmittedType DEF Inv
    <3>2. preview[s].entity \in Entities
      BY <3>1 DEF Snapshot
    <3>3. SnapshotNow(preview[s].entity, preview[s].direction, preview[s].amount,
                      preview[s].date) = preview[s]
      BY DEF ExecuteAccept, StillCurrent
    <3>4. QED
      BY <2>1, <2>2, <3>2, <3>3, SnapshotShows
  <2>3. CASE u # s
    BY <1>1, <2>1, <2>3 DEF Inv, PostingIsCurrent
  <2>4. QED
    BY <2>2, <2>3
<1>5. QED
  BY <1>2, <1>3, <1>4 DEF CallsInv

LEMMA PostCalls ==
  ASSUME Inv, NEW s \in Cashiers, ExecutePost(s)
  PROVE  CallsInv'
<1> DEFINE row == [key |-> key[s], snapshot |-> preview[s], cash |-> preview[s].amount,
                   signed |-> Slices(preview[s]), reversalOf |-> 0]
<1>1. /\ preview' = preview /\ step[s] = "posting" /\ Postable(preview[s])
      /\ step' = [step EXCEPT ![s] = "idle"]
      /\ step \in [Cashiers -> {"idle", "waiting", "locking", "posting"}]
      /\ execution' = Append(execution, row)
      /\ row.signed = Slices(preview[s])
  BY DEF ExecutePost, EndCall, Inv, Typed, TypeOK
<1> HIDE DEF row
<1>2. PreviewsStayWithClient'
  BY <1>1 DEF Inv, PreviewsStayWithClient
<1>3. OneHolder'
  BY <1>1 DEF Inv, OneHolder
<1>4. PostingIsCurrent'
  <2>1. SUFFICES ASSUME NEW u \in Cashiers, NEW l \in Lines, step'[u] = "posting",
                        preview[u].remaining[l] # 0
                 PROVE  preview[u].remaining[l] = Remaining(l)'
    BY <1>1 DEF PostingIsCurrent
  <2>2. u # s /\ step[u] = "posting"
    BY <1>1, <2>1
  <2>3. preview[u] # NoRow /\ preview[u].entity # preview[s].entity
    BY <1>1, <2>2 DEF Inv, OneHolder, Typed, CallsSubmit
  <2>4. EntityOf[HeaderOf[l]] # preview[s].entity
    BY <2>1, <2>3 DEF Inv, PreviewsStayWithClient
  <2>5. Slices(preview[s])[l] = 0
    BY <1>1, <2>4, SliceEffect
  <2>6. Allocated(l)' = Allocated(l)
    BY <1>1, <2>5, AppendAllocated, AllocatedInt DEF Inv, Typed
  <2>7. Remaining(l)' = Remaining(l)
    BY <2>6 DEF Remaining, NettedRemaining
  <2>8. QED
    BY <2>1, <2>2, <2>7 DEF Inv, PostingIsCurrent
<1>5. QED
  BY <1>2, <1>3, <1>4 DEF CallsInv

LEMMA ReverseCalls ==
  ASSUME Inv, NEW r \in Rows, NEW k \in ReversalKeys, Reverse(r, k)
  PROVE  CallsInv'
<1> DEFINE row == [key |-> k, snapshot |-> execution[r].snapshot,
                   cash |-> -execution[r].cash,
                   signed |-> [l \in Lines |-> -execution[r].signed[l]],
                   reversalOf |-> r]
<1>1. /\ preview' = preview /\ step' = step
      /\ EntityFree(execution[r].snapshot.entity)
      /\ execution' = Append(execution, row)
  BY DEF Reverse
<1>2. \A l \in Lines : row.signed[l] = -execution[r].signed[l]
  OBVIOUS
<1> HIDE DEF row
<1>3. PreviewsStayWithClient'
  BY <1>1 DEF Inv, PreviewsStayWithClient
<1>4. OneHolder'
  BY <1>1 DEF Inv, OneHolder
<1>5. PostingIsCurrent'
  <2>1. SUFFICES ASSUME NEW u \in Cashiers, NEW l \in Lines, step[u] = "posting",
                        preview[u].remaining[l] # 0
                 PROVE  preview[u].remaining[l] = Remaining(l)'
    BY <1>1 DEF PostingIsCurrent
  <2>2. preview[u] # NoRow /\ preview[u].entity # execution[r].snapshot.entity
    BY <1>1, <2>1 DEF EntityFree, HoldsEntity, Inv, Typed, CallsSubmit
  <2>3. EntityOf[HeaderOf[l]] # execution[r].snapshot.entity
    BY <2>1, <2>2 DEF Inv, PreviewsStayWithClient
  <2>4. execution[r].signed[l] = 0
    BY <2>3 DEF Inv, SlicesStayWithClient
  <2>5. Allocated(l)' = Allocated(l)
    BY <1>1, <1>2, <2>4, AppendAllocated, AllocatedInt DEF Inv, Typed
  <2>6. Remaining(l)' = Remaining(l)
    BY <2>5 DEF Remaining, NettedRemaining
  <2>7. QED
    BY <2>1, <2>6 DEF Inv, PostingIsCurrent
<1>6. QED
  BY <1>3, <1>4, <1>5 DEF CallsInv

LEMMA InvStep ==
  ASSUME Inv, [Next]_vars
  PROVE  Inv'
<1>1. Typed'
  BY TypedStep DEF Inv
<1>2. RowsInv' /\ CallsInv' => Inv'
  BY <1>1 DEF RowsInv, CallsInv, Inv
<1>3. RowsInv
  BY DEF RowsInv, Inv
<1>4. ASSUME UNCHANGED <<execution, step, preview>> PROVE Inv'
  <2>1. PreviewsStayWithClient' /\ OneHolder'
    BY <1>4 DEF Inv, PreviewsStayWithClient, OneHolder
  <2>2. PostingIsCurrent'
    BY <1>4, QuietRemaining DEF Inv, PostingIsCurrent
  <2>3. QED
    BY <1>2, <1>3, <1>4, <2>1, <2>2, QuietRows DEF CallsInv
<1>5. CASE UNCHANGED vars
  BY <1>4, <1>5 DEF vars, cashVars
<1>6. CASE ObligationsNext /\ UNCHANGED cashVars
  BY <1>4, <1>6 DEF cashVars
<1>7. ASSUME NEW s \in Cashiers, NEW e \in Entities, NEW d \in Directions,
             NEW a \in Amounts, NEW t \in Dates, Preview(s, e, d, a, t)
      PROVE  Inv'
  BY <1>2, <1>3, <1>7, PreviewCalls, QuietRows DEF Preview
<1>8. ASSUME NEW s \in Cashiers, NEW k \in ExecKeys, ExecuteCall(s, k) PROVE Inv'
  <2>1. /\ preview' = preview /\ step' = [step EXCEPT ![s] = "waiting"]
        /\ step \in [Cashiers -> {"idle", "waiting", "locking", "posting"}]
        /\ UNCHANGED execution
    BY <1>8 DEF ExecuteCall, Inv, Typed, TypeOK
  <2>2. PreviewsStayWithClient' /\ OneHolder'
    BY <2>1 DEF Inv, PreviewsStayWithClient, OneHolder
  <2>3. PostingIsCurrent'
    BY <2>1, QuietRemaining DEF Inv, PostingIsCurrent
  <2>4. QED
    BY <1>2, <1>3, <2>1, <2>2, <2>3, QuietRows DEF CallsInv
<1>9. ASSUME NEW s \in Cashiers, ExecuteLock(s) PROVE Inv'
  <2>1. /\ preview' = preview /\ step' = [step EXCEPT ![s] = "locking"]
        /\ EntityFree(preview[s].entity)
        /\ step \in [Cashiers -> {"idle", "waiting", "locking", "posting"}]
        /\ UNCHANGED execution
    BY <1>9 DEF ExecuteLock, Inv, Typed, TypeOK
  <2>2. PreviewsStayWithClient'
    BY <2>1 DEF Inv, PreviewsStayWithClient
  <2>3. OneHolder'
    BY <2>1 DEF Inv, OneHolder, EntityFree, HoldsEntity
  <2>4. PostingIsCurrent'
    BY <2>1, QuietRemaining DEF Inv, PostingIsCurrent
  <2>5. QED
    BY <1>2, <1>3, <2>1, <2>2, <2>3, <2>4, QuietRows DEF CallsInv
<1>10. ASSUME NEW s \in Cashiers,
              ExecuteReplay(s) \/ ExecuteRefuse(s) \/ ExecuteFail(s) \/ ExecuteAbort(s)
       PROVE  Inv'
  <2>1. UNCHANGED execution /\ \E row : EndCall(s, row)
    BY <1>10 DEF ExecuteReplay, ExecuteRefuse, ExecuteFail, ExecuteAbort
  <2>2. QED
    BY <1>2, <1>3, <2>1, EndCallCalls, QuietRows
<1>11. ASSUME NEW s \in Cashiers, ExecuteAccept(s) PROVE Inv'
  BY <1>2, <1>3, <1>11, AcceptCalls, QuietRows DEF ExecuteAccept
<1>12. ASSUME NEW s \in Cashiers, ExecutePost(s) PROVE Inv'
  BY <1>2, <1>12, PostRows, PostCalls
<1>13. ASSUME NEW r \in Rows, NEW k \in ReversalKeys, Reverse(r, k) PROVE Inv'
  BY <1>2, <1>13, ReverseRows, ReverseCalls
<1>14. QED
  BY <1>5, <1>6, <1>7, <1>8, <1>9, <1>10, <1>11, <1>12, <1>13 DEF Next, CashierStep

LEMMA InitInv == Init => Inv
<1> SUFFICES ASSUME Init PROVE Inv
  OBVIOUS
<1>2. /\ Typed
      /\ execution = <<>>
      /\ \A s \in Cashiers : step[s] = "idle" /\ preview[s] = NoRow
  <2>1. Typed
    BY InitTyped
  <2>2. execution = <<>>
    BY DEF Init, CashInit
  <2>3. \A s \in Cashiers : step[s] = "idle" /\ preview[s] = NoRow
    BY DEF Init, CashInit
  <2>4. QED
    BY <2>1, <2>2, <2>3
<1>3. Len(execution) = 0 /\ Rows = {}
  BY <1>2 DEF Rows
<1>4. \A l \in Lines : Allocated(l) = 0 /\ LiveTotal(l) = 0
  BY <1>3, SumToStep DEF Allocated, AllocatedUpTo, LiveTotal
<1>5. NettingFits
  BY <1>4, LineAssumption DEF NettingFits, NoOverAllocation, Within
<1>6. /\ AllocatedIsLive /\ ReversalsMirror /\ ReversedOnce /\ PaymentsLower /\ PaymentsFit
      /\ SlicesStayWithClient /\ PreviewsStayWithClient /\ OneHolder /\ PostingIsCurrent
  BY <1>2, <1>3, <1>4 DEF AllocatedIsLive, ReversalsMirror, ReversedOnce, PaymentsLower,
     PaymentsFit, SlicesStayWithClient, PreviewsStayWithClient, OneHolder, PostingIsCurrent
<1>7. QED
  BY <1>2, <1>5, <1>6 DEF Inv

(* What the rows take from a line to which at most one payment stands.     *)
LEMMA OnePaymentFits ==
  ASSUME Typed, AllocatedIsLive, PaymentsFit, NEW l \in Lines, OncePaid(l)
  PROVE  Within(Original[l], Original[l] + Allocated(l))
<1> DEFINE n == Len(execution)
           f == [i \in Rows |-> LiveSlice(i, l)]
           none == [i \in 1..n |-> 0]
<1>1. /\ n \in Nat /\ Rows = 1..n /\ Original[l] \in Int
      /\ \A i \in Rows : execution[i].signed[l] \in Int
  BY RowsTyped, LineAssumption DEF Typed
<1>2. Allocated(l) = SumTo(f, n)
  BY DEF AllocatedIsLive, LiveTotal
<1>3. \A i \in 1..n : /\ f[i] \in Int
                      /\ f[i] # 0 => /\ i \in StandingPayments(l)
                                     /\ f[i] = execution[i].signed[l]
                                     /\ execution[i].reversalOf = 0
  BY <1>1 DEF LiveSlice, StandingPayments
<1>4. \A i \in 1..n : none[i] = 0 /\ none[i] \in Int
  OBVIOUS
<1> HIDE DEF f, none, n
<1>5. SumTo(none, n) = 0
  <2>1. SumTo(none, n) \in Int
    BY <1>1, <1>4, SumToInt
  <2>2. SumTo(none, n) = -SumTo(none, n)
    BY <1>1, <1>4, SumToNegated
  <2>3. QED
    BY <2>1, <2>2
<1>6. CASE \A i \in 1..n : f[i] = 0
  <2>1. SumTo(f, n) = SumTo(none, n)
    BY <1>1, <1>4, <1>6, SumToAgree
  <2>2. QED
    BY <1>1, <1>2, <1>5, <2>1 DEF Within
<1>7. ASSUME NEW i \in 1..n, f[i] # 0
      PROVE  Within(Original[l], Original[l] + Allocated(l))
  <2>1. \A j \in 1..n : j # i => f[j] = none[j]
    BY <1>3, <1>4, <1>7 DEF OncePaid
  <2>2. SumTo(f, n) = SumTo(none, n) + f[i] - none[i]
    BY <1>1, <1>3, <1>4, <2>1, SumToChange
  <2>3. Allocated(l) = execution[i].signed[l] /\ execution[i].reversalOf = 0 /\ i \in Rows
    BY <1>1, <1>2, <1>3, <1>4, <1>5, <1>7, <2>2
  <2>4. QED
    BY <2>3 DEF PaymentsFit
<1>8. QED
  BY <1>6, <1>7

LEMMA AllocationFits ==
  ASSUME Typed, RowsInv, NEW l \in Lines, NettedRegister \/ OncePaid(l)
  PROVE  Within(Original[l], Original[l] + Allocated(l))
BY OnePaymentFits DEF RowsInv, NettingFits, NoOverAllocation

(* No sequence of previews, payments, retries, reversals, remaps and voids, *)
(* from any number of cashiers, pays an obligation beyond what was owed     *)
(* unless two payments of it stand; and with a register that nets, not      *)
(* even then.                                                               *)
THEOREM OverpaymentNeedsTwoPayments == Spec => []OverpaymentTakesTwo
<1>1. Inv => OverpaymentTakesTwo
  <2>1. Inv => Typed /\ RowsInv
    BY DEF Inv, RowsInv
  <2>2. QED
    BY <2>1, AllocationFits DEF OverpaymentTakesTwo
<1>2. Inv /\ [Next]_vars => Inv'
  BY InvStep
<1>3. QED
  BY <1>1, <1>2, InitInv, PTL DEF Spec

-----------------------------------------------------------------------------
(* What an execution posts, and what its rows add up to.                   *)

(* What a call is about to post settles its payment exactly.               *)
PostingSettles == \A s \in Cashiers : step[s] = "posting" => Settles(preview[s])

JournalInv == Typed /\ PaymentsAreReversedOnce /\ SlicesAreTheCash /\ PostingSettles

-----------------------------------------------------------------------------
(* The slices of a payment of which nothing is left over add up to it.     *)
LEMMA SettledSlices ==
  ASSUME NEW p \in Snapshot, Unapplied(OpenAmounts(p), p.amount, NumLines) = 0
  PROVE  SumTo(Slices(p), NumLines) = Sign(p.direction) * p.amount
<1> DEFINE part == [l \in 1..NumLines |-> Applied(OpenAmounts(p), p.amount, l)]
<1>1. /\ p.amount \in Nat /\ NumLines \in Nat /\ Lines = 1..NumLines
      /\ \A l \in 1..NumLines : OpenAmounts(p)[l] \in Nat
  BY SlicesType, OpenAmountsType, LineAssumption DEF Lines
<1>2. SumTo(part, NumLines) + Unapplied(OpenAmounts(p), p.amount, NumLines) = p.amount
  BY <1>1, FifoConservesPayment
<1>3. Unapplied(OpenAmounts(p), p.amount, NumLines) = 0
  OBVIOUS
<1>4. \A l \in 1..NumLines : /\ part[l] \in Int
                             /\ Slices(p)[l] = Sign(p.direction) * part[l]
  <2>1. \A l \in Lines :
           /\ Applied(OpenAmounts(p), p.amount, l) \in 0..OpenAmounts(p)[l]
           /\ Slices(p)[l] = Sign(p.direction) * Applied(OpenAmounts(p), p.amount, l)
    BY SlicesType
  <2>2. QED
    BY <1>1, <2>1
<1> HIDE DEF part
<1>5. SumTo(part, NumLines) \in Int
  BY <1>1, <1>4, SumToInt
<1>6. SumTo(part, NumLines) = p.amount
  BY <1>1, <1>2, <1>3, <1>5
<1>7. CASE Sign(p.direction) = 1
  <2>1. \A l \in 1..NumLines : Slices(p)[l] = part[l]
    BY <1>4, <1>7
  <2>2. SumTo(Slices(p), NumLines) = SumTo(part, NumLines)
    BY <1>1, <2>1, SumToAgree
  <2>3. QED
    BY <1>1, <1>6, <1>7, <2>2
<1>8. CASE Sign(p.direction) = -1
  <2>1. \A l \in 1..NumLines : part[l] \in Int /\ Slices(p)[l] = -part[l]
    BY <1>4, <1>8
  <2>2. SumTo(Slices(p), NumLines) = -SumTo(part, NumLines)
    BY <1>1, <2>1, SumToNegated
  <2>3. QED
    BY <1>1, <1>6, <1>8, <2>2
<1>9. QED
  BY <1>7, <1>8 DEF Sign

-----------------------------------------------------------------------------
LEMMA QuietJournal ==
  ASSUME JournalInv, Typed', PostingSettles', UNCHANGED execution
  PROVE  JournalInv'
BY DEF JournalInv, PaymentsAreReversedOnce, SlicesAreTheCash, Rows

LEMMA PostJournal ==
  ASSUME JournalInv, NEW s \in Cashiers, ExecutePost(s)
  PROVE  PaymentsAreReversedOnce' /\ SlicesAreTheCash'
<1> DEFINE n == Len(execution)
           p == preview[s]
           row == [key |-> key[s], snapshot |-> p, cash |-> p.amount,
                   signed |-> Slices(p), reversalOf |-> 0]
<1>1. /\ execution' = Append(execution, row)
      /\ p \in Snapshot
      /\ Unapplied(OpenAmounts(p), p.amount, NumLines) = 0
  BY SubmittedType DEF ExecutePost, JournalInv, PostingSettles, Settles
<1>2. /\ row.reversalOf = 0
      /\ SumTo(row.signed, NumLines) = Sign(row.snapshot.direction) * row.cash
  BY <1>1, SettledSlices
<1> HIDE DEF row, p
<1>3. /\ n \in Nat /\ Rows = 1..n /\ Rows' = 1..(n+1)
      /\ \A i \in Rows : execution'[i] = execution[i]
      /\ execution'[n+1] = row
  BY <1>1, RowsTyped, AppendedRows DEF JournalInv, Typed
<1> HIDE DEF n
<1>4. \A i \in Rows' : \/ i \in Rows /\ execution'[i] = execution[i]
                       \/ i = n+1 /\ execution'[i] = row
  BY <1>3
<1>5. SlicesAreTheCash'
  BY <1>2, <1>4 DEF SlicesAreTheCash, JournalInv
<1>6. PaymentsAreReversedOnce'
  <2>1. SUFFICES ASSUME NEW i \in Rows', execution'[i].reversalOf # 0
                 PROVE  LET r == execution'[i].reversalOf IN
                        /\ r < i
                        /\ execution'[r].reversalOf = 0
                        /\ execution'[i].cash = -execution'[r].cash
                        /\ \A j \in Rows' : execution'[j].reversalOf = r => j = i
    BY DEF PaymentsAreReversedOnce
  <2> DEFINE r == execution'[i].reversalOf
  <2>2. i \in Rows /\ execution'[i] = execution[i]
    BY <1>2, <1>4, <2>1
  <2>3. r = execution[i].reversalOf /\ r # 0
    BY <2>1, <2>2
  <2> HIDE DEF r
  <2>4. /\ r < i /\ execution[r].reversalOf = 0
        /\ execution[i].cash = -execution[r].cash
        /\ \A j \in Rows : execution[j].reversalOf = r => j = i
    BY <2>2, <2>3 DEF JournalInv, PaymentsAreReversedOnce
  <2>5. r \in Nat /\ i \in 1..n
    BY <1>3, <2>2, <2>3, RowsTyped DEF JournalInv, Typed
  <2>6. r \in Rows /\ execution'[r] = execution[r]
    BY <1>3, <2>3, <2>4, <2>5
  <2>7. \A j \in Rows' : execution'[j].reversalOf = r => j = i
    BY <1>2, <1>4, <2>3, <2>4
  <2>8. QED
    BY <2>2, <2>4, <2>6, <2>7 DEF r
<1>7. QED
  BY <1>5, <1>6

(* The slices of a row and its cash change sign together.                   *)
LEMMA MirroredSlices ==
  ASSUME Typed, SlicesAreTheCash, NEW v \in Rows, NEW signed, NEW cash,
         \A l \in Lines : signed[l] = -execution[v].signed[l],
         cash = -execution[v].cash
  PROVE  SumTo(signed, NumLines) = Sign(execution[v].snapshot.direction) * cash
<1>1. NumLines \in Nat /\ Lines = 1..NumLines
  BY LineAssumption DEF Lines
<1>2. execution[v].signed \in [Lines -> Int] /\ execution[v].cash \in Int
  BY RowsTyped DEF Typed
<1> DEFINE old == execution[v].signed
<1>3. \A l \in 1..NumLines : old[l] \in Int /\ signed[l] = -old[l]
  BY <1>1, <1>2
<1>4. SumTo(signed, NumLines) = -SumTo(old, NumLines)
  <2> HIDE DEF old
  <2>1. QED
    BY <1>1, <1>3, SumToNegated
<1>5. SumTo(old, NumLines) = Sign(execution[v].snapshot.direction) * execution[v].cash
  BY DEF SlicesAreTheCash
<1> HIDE DEF old
<1>6. CASE Sign(execution[v].snapshot.direction) = 1
  BY <1>2, <1>4, <1>5, <1>6
<1>7. CASE Sign(execution[v].snapshot.direction) = -1
  BY <1>2, <1>4, <1>5, <1>7
<1>8. QED
  BY <1>6, <1>7 DEF Sign

LEMMA ReverseJournal ==
  ASSUME JournalInv, NEW v \in Rows, NEW k \in ReversalKeys, Reverse(v, k)
  PROVE  PaymentsAreReversedOnce' /\ SlicesAreTheCash'
<1> DEFINE n == Len(execution)
           row == [key |-> k, snapshot |-> execution[v].snapshot,
                   cash |-> -execution[v].cash,
                   signed |-> [l \in Lines |-> -execution[v].signed[l]],
                   reversalOf |-> v]
<1>1. /\ execution' = Append(execution, row)
      /\ execution[v].reversalOf = 0 /\ ~IsReversed(v)
  BY DEF Reverse
<1>2. /\ \A l \in Lines : row.signed[l] = -execution[v].signed[l]
      /\ row.reversalOf = v
      /\ row.snapshot = execution[v].snapshot
      /\ row.cash = -execution[v].cash
  OBVIOUS
<1> HIDE DEF row
<1>3. /\ n \in Nat /\ Rows = 1..n /\ Rows' = 1..(n+1)
      /\ \A i \in Rows : execution'[i] = execution[i]
      /\ execution'[n+1] = row
      /\ execution[v].signed \in [Lines -> Int] /\ execution[v].cash \in Int
      /\ execution[v].snapshot \in Snapshot
  BY <1>1, RowsTyped, AppendedRows DEF JournalInv, Typed
<1> HIDE DEF n
<1>4. \A i \in Rows' : \/ i \in Rows /\ execution'[i] = execution[i]
                       \/ i = n+1 /\ execution'[i] = row
  BY <1>3
<1>5. v \in 1..n /\ v # 0 /\ execution'[v] = execution[v]
  BY <1>3
<1>6. SumTo(row.signed, NumLines) = Sign(row.snapshot.direction) * row.cash
  BY <1>2, MirroredSlices DEF JournalInv
<1>7. SlicesAreTheCash'
  BY <1>4, <1>6 DEF SlicesAreTheCash, JournalInv
<1>8. \A j \in Rows : execution[j].reversalOf # v
  BY <1>1 DEF IsReversed
<1>9. PaymentsAreReversedOnce'
  <2>1. SUFFICES ASSUME NEW i \in Rows', execution'[i].reversalOf # 0
                 PROVE  LET r == execution'[i].reversalOf IN
                        /\ r < i
                        /\ execution'[r].reversalOf = 0
                        /\ execution'[i].cash = -execution'[r].cash
                        /\ \A j \in Rows' : execution'[j].reversalOf = r => j = i
    BY DEF PaymentsAreReversedOnce
  <2> DEFINE r == execution'[i].reversalOf
  <2>2. CASE i \in Rows /\ execution'[i] = execution[i]
    <3>1. r = execution[i].reversalOf /\ r # 0
      BY <2>1, <2>2
    <3> HIDE DEF r
    <3>2. /\ r < i /\ execution[r].reversalOf = 0
          /\ execution[i].cash = -execution[r].cash
          /\ \A j \in Rows : execution[j].reversalOf = r => j = i
      BY <2>2, <3>1 DEF JournalInv, PaymentsAreReversedOnce
    <3>3. r \in Nat /\ i \in 1..n
      BY <1>3, <2>2, <3>1, RowsTyped DEF JournalInv, Typed
    <3>4. r \in Rows /\ execution'[r] = execution[r]
      BY <1>3, <3>1, <3>2, <3>3
    <3>5. r # v
      BY <1>8, <2>2, <3>1
    <3>6. \A j \in Rows' : execution'[j].reversalOf = r => j = i
      BY <1>2, <1>4, <3>2, <3>5
    <3>7. QED
      BY <2>2, <3>2, <3>4, <3>6 DEF r
  <2>3. CASE i = n+1 /\ execution'[i] = row
    <3>1. r = v /\ r < i
      BY <1>2, <1>3, <1>5, <2>3
    <3> HIDE DEF r
    <3>2. execution'[r].reversalOf = 0 /\ execution'[i].cash = -execution'[r].cash
      BY <1>1, <1>2, <1>5, <2>3, <3>1
    <3>3. \A j \in Rows' : execution'[j].reversalOf = r => j = i
      BY <1>4, <1>8, <2>3, <3>1
    <3>4. QED
      BY <3>1, <3>2, <3>3 DEF r
  <2>4. QED
    BY <1>4, <2>2, <2>3
<1>10. QED
  BY <1>7, <1>9

-----------------------------------------------------------------------------
LEMMA SettlesAtPosting ==
  ASSUME Typed, PostingSettles, [Next]_vars
  PROVE  PostingSettles'
<1> USE DEF PostingSettles, Typed, TypeOK
<1>1. CASE UNCHANGED <<step, preview>>
  BY <1>1 DEF Settles, OpenAmounts
<1>2. ASSUME NEW s \in Cashiers, NEW e \in Entities, NEW d \in Directions,
             NEW a \in Amounts, NEW t \in Dates, Preview(s, e, d, a, t)
      PROVE  PostingSettles'
  BY <1>2 DEF Preview
<1>3. ASSUME NEW s \in Cashiers, NEW k \in ExecKeys, ExecuteCall(s, k) PROVE PostingSettles'
  BY <1>3 DEF ExecuteCall
<1>4. ASSUME NEW s \in Cashiers, ExecuteLock(s) PROVE PostingSettles'
  BY <1>4 DEF ExecuteLock
<1>5. ASSUME NEW s \in Cashiers, NEW row, EndCall(s, row) PROVE PostingSettles'
  BY <1>5 DEF EndCall
<1>6. ASSUME NEW s \in Cashiers, ExecuteAccept(s) PROVE PostingSettles'
  BY <1>6 DEF ExecuteAccept
<1>7. CASE Next
  <2>1. ASSUME NEW s \in Cashiers,
               ExecuteReplay(s) \/ ExecuteRefuse(s) \/ ExecutePost(s) \/ ExecuteFail(s)
                 \/ ExecuteAbort(s)
        PROVE  \E row : EndCall(s, row)
    BY <2>1 DEF ExecuteReplay, ExecuteRefuse, ExecutePost, ExecuteFail, ExecuteAbort
  <2>2. ASSUME NEW s \in Cashiers, CashierStep(s) PROVE PostingSettles'
    BY <2>1, <2>2, <1>2, <1>3, <1>4, <1>5, <1>6 DEF CashierStep
  <2>3. ASSUME NEW i \in Rows, NEW k \in ReversalKeys, Reverse(i, k)
        PROVE  UNCHANGED <<step, preview>>
    BY <2>3 DEF Reverse
  <2>4. QED
    BY <1>1, <1>7, <2>2, <2>3 DEF Next, cashVars
<1>8. QED
  BY <1>1, <1>7 DEF vars, cashVars

LEMMA JournalStep ==
  ASSUME JournalInv, [Next]_vars
  PROVE  JournalInv'
<1>1. Typed' /\ PostingSettles'
  BY TypedStep, SettlesAtPosting DEF JournalInv
<1>2. CASE UNCHANGED execution
  BY <1>1, <1>2, QuietJournal
<1>3. CASE execution' # execution
  <2>1. ASSUME NEW s \in Cashiers, CashierStep(s) PROVE ExecutePost(s)
    BY <1>3, <2>1 DEF CashierStep, Preview, ExecuteCall, ExecuteLock, ExecuteReplay,
       ExecuteRefuse, ExecuteAccept, ExecuteFail, ExecuteAbort
  <2>2. ASSUME NEW s \in Cashiers, ExecutePost(s) PROVE JournalInv'
    BY <1>1, <2>2, PostJournal DEF JournalInv
  <2>3. ASSUME NEW i \in Rows, NEW k \in ReversalKeys, Reverse(i, k) PROVE JournalInv'
    BY <1>1, <2>3, ReverseJournal DEF JournalInv
  <2>4. QED
    BY <1>3, <2>1, <2>2, <2>3 DEF Next, vars, cashVars
<1>4. QED
  BY <1>2, <1>3

LEMMA JournalInit == Init => JournalInv
<1> SUFFICES ASSUME Init PROVE JournalInv
  OBVIOUS
<1>1. Typed
  BY InitTyped
<1>2. Rows = {}
  BY DEF Init, CashInit, Rows
<1>3. PostingSettles
  BY DEF Init, CashInit, PostingSettles
<1>4. QED
  BY <1>1, <1>2, <1>3 DEF JournalInv, PaymentsAreReversedOnce, SlicesAreTheCash

(* No payment is taken back twice, and no reversal is taken back.          *)
THEOREM EachPaymentIsReversedOnce == Spec => []PaymentsAreReversedOnce
<1>1. JournalInv => PaymentsAreReversedOnce
  BY DEF JournalInv
<1>2. QED
  BY <1>1, JournalInit, JournalStep, PTL DEF Spec

(* The slices of every row add up to the cash it moves, with its sign.     *)
THEOREM SlicesAddUpToCash == Spec => []SlicesAreTheCash
<1>1. JournalInv => SlicesAreTheCash
  BY DEF JournalInv
<1>2. QED
  BY <1>1, JournalInit, JournalStep, PTL DEF Spec

-----------------------------------------------------------------------------
(* Keys name rows.  A key of an execution and one of a reversal share the  *)
(* UNIQUE column but are made apart by their callers.                      *)
KeysNameRows ==
    /\ \A i, j \in Rows : execution[i].key = execution[j].key => i = j
    /\ \A i \in Rows : execution[i].key \in ExecKeys => execution[i].reversalOf = 0

AnswersInv == Typed /\ KeysNameRows /\ OkAnswersArePaid

(* A row under a key that was not used disturbs no answer given before.    *)
LEMMA OldAnswersStand ==
  ASSUME AnswersInv, NEW row, execution' = Append(execution, row), ~UsedKey(row.key),
         NEW u \in Cashiers, answer[u] # 0
  PROVE  /\ answer[u] \in Rows'
         /\ execution'[answer[u]].snapshot = preview[u]
         /\ execution'[answer[u]].reversalOf = 0
         /\ {i \in Rows' : execution'[i].key = key[u]} = {answer[u]}
<1> DEFINE n == Len(execution)
<1>1. /\ n \in Nat /\ Rows = 1..n /\ Rows' = 1..(n+1)
      /\ \A i \in Rows : execution'[i] = execution[i]
      /\ execution'[n+1] = row
  BY RowsTyped, AppendedRows DEF AnswersInv, Typed
<1> HIDE DEF n
<1>2. /\ answer[u] \in Rows
      /\ execution[answer[u]].snapshot = preview[u]
      /\ execution[answer[u]].reversalOf = 0
      /\ {i \in Rows : execution[i].key = key[u]} = {answer[u]}
  BY DEF AnswersInv, OkAnswersArePaid
<1>3. row.key # key[u]
  BY <1>2 DEF UsedKey
<1>4. \A i \in Rows' : execution'[i].key = key[u] <=> i \in Rows /\ execution[i].key = key[u]
  <2>1. \A i \in 1..(n+1) : i \in 1..n \/ i = n+1
    BY <1>1
  <2>2. QED
    BY <1>1, <1>3, <2>1
<1>5. \A i \in Rows : i \in Rows'
  BY <1>1
<1>6. {i \in Rows' : execution'[i].key = key[u]} = {i \in Rows : execution[i].key = key[u]}
  BY <1>4, <1>5
<1>7. QED
  BY <1>1, <1>2, <1>5, <1>6

LEMMA AppendedKeys ==
  ASSUME AnswersInv, NEW row, execution' = Append(execution, row), ~UsedKey(row.key),
         row.key \in ExecKeys => row.reversalOf = 0
  PROVE  KeysNameRows'
<1> DEFINE n == Len(execution)
<1>1. /\ n \in Nat /\ Rows = 1..n /\ Rows' = 1..(n+1)
      /\ \A i \in Rows : execution'[i] = execution[i]
      /\ execution'[n+1] = row
  BY RowsTyped, AppendedRows DEF AnswersInv, Typed
<1> HIDE DEF n
<1>2. \A i \in Rows' : \/ i \in Rows /\ execution'[i] = execution[i]
                       \/ i = n+1 /\ execution'[i] = row
  <2>1. \A i \in 1..(n+1) : i \in 1..n \/ i = n+1
    BY <1>1
  <2>2. QED
    BY <1>1, <2>1
<1>3. \A i \in Rows : execution[i].key # row.key
  BY DEF UsedKey
<1>4. QED
  BY <1>2, <1>3 DEF KeysNameRows, AnswersInv

LEMMA PostAnswers ==
  ASSUME AnswersInv, NEW s \in Cashiers, ExecutePost(s)
  PROVE  KeysNameRows' /\ OkAnswersArePaid'
<1> DEFINE n == Len(execution)
           row == [key |-> key[s], snapshot |-> preview[s], cash |-> preview[s].amount,
                   signed |-> Slices(preview[s]), reversalOf |-> 0]
<1>1. /\ execution' = Append(execution, row)
      /\ row.key = key[s] /\ row.snapshot = preview[s] /\ row.reversalOf = 0
      /\ ~UsedKey(key[s])
      /\ preview' = preview /\ key' = key
      /\ answer' = [answer EXCEPT ![s] = n+1]
      /\ answer \in [Cashiers -> Nat]
  BY DEF ExecutePost, EndCall, AnswersInv, Typed, TypeOK
<1> HIDE DEF row
<1>2. /\ n \in Nat /\ Rows = 1..n /\ Rows' = 1..(n+1)
      /\ \A i \in Rows : execution'[i] = execution[i]
      /\ execution'[n+1] = row
  BY <1>1, RowsTyped, AppendedRows DEF AnswersInv, Typed
<1>3. KeysNameRows'
  BY <1>1, AppendedKeys
<1> HIDE DEF n
<1>4. OkAnswersArePaid'
  <2>1. SUFFICES ASSUME NEW u \in Cashiers, answer'[u] # 0
                 PROVE  /\ answer'[u] \in Rows'
                        /\ execution'[answer'[u]].snapshot = preview[u]
                        /\ execution'[answer'[u]].reversalOf = 0
                        /\ {i \in Rows' : execution'[i].key = key[u]} = {answer'[u]}
    BY <1>1 DEF OkAnswersArePaid
  <2>2. CASE u # s
    BY <1>1, <2>1, <2>2, OldAnswersStand
  <2>3. CASE u = s
    <3>1. answer'[u] = n+1
      BY <1>1, <2>3
    <3>2. \A i \in Rows' : execution'[i].key = key[s] <=> i = n+1
      BY <1>1, <1>2 DEF UsedKey
    <3>3. n+1 \in Rows'
      BY <1>2
    <3>4. {i \in Rows' : execution'[i].key = key[u]} = {n+1}
      BY <2>3, <3>2, <3>3
    <3>5. QED
      BY <1>1, <1>2, <2>3, <3>1, <3>3, <3>4
  <2>4. QED
    BY <2>2, <2>3
<1>5. QED
  BY <1>3, <1>4

LEMMA ReverseAnswers ==
  ASSUME ExecKeys \cap ReversalKeys = {}, AnswersInv,
         NEW v \in Rows, NEW k \in ReversalKeys, Reverse(v, k)
  PROVE  KeysNameRows' /\ OkAnswersArePaid'
<1> DEFINE row == [key |-> k, snapshot |-> execution[v].snapshot,
                   cash |-> -execution[v].cash,
                   signed |-> [l \in Lines |-> -execution[v].signed[l]],
                   reversalOf |-> v]
<1>1. /\ execution' = Append(execution, row)
      /\ row.key = k /\ ~UsedKey(k) /\ k \notin ExecKeys
      /\ UNCHANGED <<preview, key, answer>>
  BY DEF Reverse
<1> HIDE DEF row
<1>2. KeysNameRows'
  BY <1>1, AppendedKeys
<1>3. OkAnswersArePaid'
  BY <1>1, OldAnswersStand DEF OkAnswersArePaid
<1>4. QED
  BY <1>2, <1>3

LEMMA ReplayAnswers ==
  ASSUME AnswersInv, NEW s \in Cashiers, ExecuteReplay(s)
  PROVE  OkAnswersArePaid'
<1> DEFINE r == RowOf(key[s])
<1>1. /\ UsedKey(key[s]) /\ SamePayload(r, preview[s])
      /\ UNCHANGED <<execution, preview, key>>
      /\ answer' = [answer EXCEPT ![s] = r]
      /\ answer \in [Cashiers -> Nat]
      /\ key[s] \in ExecKeys
  BY SubmittedType DEF ExecuteReplay, EndCall, AnswersInv, Typed, TypeOK
<1>2. r \in Rows /\ execution[r].key = key[s]
  BY <1>1 DEF UsedKey, RowOf
<1> HIDE DEF r
<1>3. /\ execution[r].snapshot = preview[s]
      /\ execution[r].reversalOf = 0
      /\ {i \in Rows : execution[i].key = key[s]} = {r}
  BY <1>1, <1>2 DEF SamePayload, AnswersInv, KeysNameRows
<1>4. QED
  BY <1>1, <1>2, <1>3 DEF OkAnswersArePaid, AnswersInv, Rows

LEMMA AnswersStep ==
  ASSUME ExecKeys \cap ReversalKeys = {}, AnswersInv, [Next]_vars
  PROVE  AnswersInv'
<1>1. Typed'
  BY TypedStep DEF AnswersInv
<1>2. ASSUME UNCHANGED execution PROVE KeysNameRows'
  BY <1>2 DEF AnswersInv, KeysNameRows, Rows
<1>3. ASSUME UNCHANGED <<execution, preview, key, answer>> PROVE AnswersInv'
  BY <1>1, <1>2, <1>3 DEF AnswersInv, OkAnswersArePaid, Rows
<1>4. ASSUME NEW s \in Cashiers, UNCHANGED execution, answer' = [answer EXCEPT ![s] = 0],
             \A u \in Cashiers : u # s => preview'[u] = preview[u] /\ key'[u] = key[u]
      PROVE  AnswersInv'
  BY <1>1, <1>2, <1>4 DEF AnswersInv, OkAnswersArePaid, Rows, Typed, TypeOK
<1>5. ASSUME NEW s \in Cashiers, CashierStep(s) PROVE AnswersInv'
  <2> USE DEF AnswersInv, Typed, TypeOK
  <2>1. ASSUME NEW e \in Entities, NEW d \in Directions, NEW a \in Amounts,
               NEW t \in Dates, Preview(s, e, d, a, t)
        PROVE  AnswersInv'
    BY <1>4, <2>1 DEF Preview
  <2>2. ASSUME NEW k \in ExecKeys, ExecuteCall(s, k) PROVE AnswersInv'
    BY <1>4, <2>2 DEF ExecuteCall
  <2>3. CASE ExecuteLock(s)
    BY <1>3, <2>3 DEF ExecuteLock
  <2>4. CASE ExecuteReplay(s)
    BY <1>1, <1>2, <2>4, ReplayAnswers DEF ExecuteReplay
  <2>5. CASE ExecuteRefuse(s) \/ ExecuteFail(s) \/ ExecuteAbort(s)
    BY <1>4, <2>5 DEF ExecuteRefuse, ExecuteFail, ExecuteAbort, EndCall
  <2>6. CASE ExecuteAccept(s)
    BY <1>3, <2>6 DEF ExecuteAccept
  <2>7. CASE ExecutePost(s)
    BY <1>1, <2>7, PostAnswers
  <2>8. QED
    BY <1>5, <2>1, <2>2, <2>3, <2>4, <2>5, <2>6, <2>7 DEF CashierStep
<1>6. ASSUME NEW i \in Rows, NEW k \in ReversalKeys, Reverse(i, k) PROVE AnswersInv'
  BY <1>1, <1>6, ReverseAnswers DEF AnswersInv
<1>7. QED
  BY <1>3, <1>5, <1>6 DEF Next, vars, cashVars

LEMMA AnswersInit == Init => AnswersInv
<1> SUFFICES ASSUME Init PROVE AnswersInv
  OBVIOUS
<1>1. Typed
  BY InitTyped
<1>2. Rows = {}
  BY DEF Init, CashInit, Rows
<1>3. \A s \in Cashiers : answer[s] = 0
  BY DEF Init, CashInit
<1>4. QED
  BY <1>1, <1>2, <1>3 DEF AnswersInv, KeysNameRows, OkAnswersArePaid

(* A cashier who is told ok, at once or when she retries after a lost      *)
(* reply, has paid once, and exactly what she submitted, provided that no  *)
(* caller gives an execution the key of a reversal.                        *)
THEOREM OkMeansPaidOnce ==
  ASSUME ExecKeys \cap ReversalKeys = {}
  PROVE  Spec => []OkAnswersArePaid
<1>1. AnswersInv => OkAnswersArePaid
  BY DEF AnswersInv
<1>2. AnswersInv /\ [Next]_vars => AnswersInv'
  BY AnswersStep
<1>3. QED
  BY <1>1, <1>2, AnswersInit, PTL DEF Spec

-----------------------------------------------------------------------------
(* Sums over the rows.  A reversal mirrors the payment it takes back, so    *)
(* that the two cancel in every sum in which they stand together.           *)
PaymentsArePositive ==
    \A i \in Rows : execution[i].reversalOf = 0 => execution[i].cash > 0

MirrorInv == Typed /\ ReversalsMirror /\ ReversedOnce /\ PaymentsArePositive

LEMMA PostMirror ==
  ASSUME MirrorInv, Typed', NEW s \in Cashiers, ExecutePost(s)
  PROVE  MirrorInv'
<1> DEFINE n == Len(execution)
           p == preview[s]
           row == [key |-> key[s], snapshot |-> p, cash |-> p.amount,
                   signed |-> Slices(p), reversalOf |-> 0]
<1>1. execution' = Append(execution, row) /\ p \in Snapshot
  BY SubmittedType DEF ExecutePost, MirrorInv
<1>2. p.amount > 0
  <2>1. p.amount \in Amounts
    BY <1>1 DEF Snapshot
  <2>2. p.amount \in Nat /\ p.amount # 0
    BY <2>1, CashAssumption
  <2> HIDE DEF p
  <2>3. QED
    BY <2>2
<1>3. row.reversalOf = 0 /\ row.cash > 0
  BY <1>2
<1> HIDE DEF row, p
<1>4. /\ n \in Nat /\ Rows = 1..n /\ Rows' = 1..(n+1)
      /\ \A i \in Rows : execution'[i] = execution[i]
      /\ execution'[n+1] = row
  BY <1>1, RowsTyped, AppendedRows DEF MirrorInv, Typed
<1> HIDE DEF n
<1>5. \A i \in Rows' : \/ i \in Rows /\ execution'[i] = execution[i]
                       \/ i = n+1 /\ execution'[i] = row
  BY <1>4
<1>6. ReversalsMirror'
  <2>1. SUFFICES ASSUME NEW i \in Rows', execution'[i].reversalOf # 0
                 PROVE  /\ execution'[i].reversalOf \in 1..(i-1)
                        /\ execution'[execution'[i].reversalOf].reversalOf = 0
                        /\ \A l \in Lines : execution'[i].signed[l]
                              = -execution'[execution'[i].reversalOf].signed[l]
                        /\ execution'[i].snapshot = execution'[execution'[i].reversalOf].snapshot
                        /\ execution'[i].cash = -execution'[execution'[i].reversalOf].cash
    BY DEF ReversalsMirror
  <2>2. i \in Rows /\ execution'[i] = execution[i]
    BY <1>3, <1>5, <2>1
  <2>3. execution[i].reversalOf \in 1..(i-1) /\ execution[i].reversalOf \in Rows
    BY <1>4, <2>1, <2>2 DEF MirrorInv, ReversalsMirror
  <2>4. execution'[execution[i].reversalOf] = execution[execution[i].reversalOf]
    BY <1>4, <2>3
  <2>5. QED
    BY <2>1, <2>2, <2>3, <2>4 DEF MirrorInv, ReversalsMirror
<1>7. ReversedOnce' /\ PaymentsArePositive'
  BY <1>3, <1>5 DEF ReversedOnce, PaymentsArePositive, MirrorInv
<1>8. QED
  BY <1>6, <1>7 DEF MirrorInv

LEMMA ReverseMirror ==
  ASSUME MirrorInv, Typed', NEW r \in Rows, NEW k \in ReversalKeys, Reverse(r, k)
  PROVE  MirrorInv'
<1> DEFINE n == Len(execution)
           row == [key |-> k, snapshot |-> execution[r].snapshot,
                   cash |-> -execution[r].cash,
                   signed |-> [l \in Lines |-> -execution[r].signed[l]],
                   reversalOf |-> r]
<1>1. /\ execution' = Append(execution, row)
      /\ execution[r].reversalOf = 0 /\ ~IsReversed(r)
  BY DEF Reverse
<1>2. /\ \A l \in Lines : row.signed[l] = -execution[r].signed[l]
      /\ row.reversalOf = r
      /\ row.snapshot = execution[r].snapshot
      /\ row.cash = -execution[r].cash
  OBVIOUS
<1> HIDE DEF row
<1>3. /\ n \in Nat /\ Rows = 1..n /\ Rows' = 1..(n+1)
      /\ \A i \in Rows : execution'[i] = execution[i]
      /\ execution'[n+1] = row
  BY <1>1, RowsTyped, AppendedRows DEF MirrorInv, Typed
<1> HIDE DEF n
<1>4. \A i \in Rows' : \/ i \in Rows /\ execution'[i] = execution[i]
                       \/ i = n+1 /\ execution'[i] = row
  BY <1>3
<1>5. r \in 1..n /\ r # 0 /\ execution'[r] = execution[r]
  BY <1>3
<1>6. ReversalsMirror'
  <2>1. SUFFICES ASSUME NEW i \in Rows', execution'[i].reversalOf # 0
                 PROVE  /\ execution'[i].reversalOf \in 1..(i-1)
                        /\ execution'[execution'[i].reversalOf].reversalOf = 0
                        /\ \A l \in Lines : execution'[i].signed[l]
                              = -execution'[execution'[i].reversalOf].signed[l]
                        /\ execution'[i].snapshot = execution'[execution'[i].reversalOf].snapshot
                        /\ execution'[i].cash = -execution'[execution'[i].reversalOf].cash
    BY DEF ReversalsMirror
  <2>2. CASE i \in Rows /\ execution'[i] = execution[i]
    <3>1. execution[i].reversalOf \in 1..(i-1) /\ execution[i].reversalOf \in Rows
      BY <1>3, <2>1, <2>2 DEF MirrorInv, ReversalsMirror
    <3>2. execution'[execution[i].reversalOf] = execution[execution[i].reversalOf]
      BY <1>3, <3>1
    <3>3. QED
      BY <2>1, <2>2, <3>1, <3>2 DEF MirrorInv, ReversalsMirror
  <2>3. CASE i = n+1 /\ execution'[i] = row
    <3>1. execution'[i].reversalOf = r /\ r \in 1..(i-1)
      BY <1>2, <1>3, <1>5, <2>3
    <3>2. execution'[execution'[i].reversalOf] = execution[r]
      BY <1>5, <3>1
    <3>3. QED
      BY <1>1, <1>2, <2>3, <3>1, <3>2
  <2>4. QED
    BY <1>4, <2>2, <2>3
<1>7. ReversedOnce'
  <2>1. \A j \in Rows : execution[j].reversalOf # r
    BY <1>1 DEF IsReversed
  <2>2. QED
    BY <1>2, <1>4, <2>1 DEF ReversedOnce, MirrorInv
<1>8. PaymentsArePositive'
  BY <1>2, <1>4, <1>5 DEF PaymentsArePositive, MirrorInv
<1>9. QED
  BY <1>6, <1>7, <1>8 DEF MirrorInv

LEMMA MirrorStep ==
  ASSUME MirrorInv, [Next]_vars
  PROVE  MirrorInv'
<1>1. Typed'
  BY TypedStep DEF MirrorInv
<1>2. CASE UNCHANGED execution
  BY <1>1, <1>2 DEF MirrorInv, ReversalsMirror, ReversedOnce, PaymentsArePositive, Rows
<1>3. CASE execution' # execution
  <2>1. ASSUME NEW s \in Cashiers, CashierStep(s) PROVE ExecutePost(s)
    BY <1>3, <2>1 DEF CashierStep, Preview, ExecuteCall, ExecuteLock, ExecuteReplay,
       ExecuteRefuse, ExecuteAccept, ExecuteFail, ExecuteAbort
  <2>2. ASSUME NEW s \in Cashiers, ExecutePost(s) PROVE MirrorInv'
    BY <1>1, <2>2, PostMirror
  <2>3. ASSUME NEW i \in Rows, NEW k \in ReversalKeys, Reverse(i, k) PROVE MirrorInv'
    BY <1>1, <2>3, ReverseMirror
  <2>4. QED
    BY <1>3, <2>1, <2>2, <2>3 DEF Next, vars, cashVars
<1>4. QED
  BY <1>2, <1>3

LEMMA MirrorInit == Init => MirrorInv
<1> SUFFICES ASSUME Init PROVE MirrorInv
  OBVIOUS
<1>1. Typed
  BY InitTyped
<1>2. Rows = {}
  BY DEF Init, CashInit, Rows
<1>3. QED
  BY <1>1, <1>2 DEF MirrorInv, ReversalsMirror, ReversedOnce, PaymentsArePositive

(* What a function of the rows adds up to if reversals have the opposite    *)
(* value of their payments.                                                 *)
LEMMA OnlyLiveRowsCount ==
  ASSUME MirrorInv, NEW v, NEW live,
         \A i \in Rows : v[i] \in Int,
         \A i \in Rows : execution[i].reversalOf # 0 => v[i] = -v[execution[i].reversalOf],
         \A i \in Rows : live[i] = IF execution[i].reversalOf = 0 /\ ~IsReversed(i)
                                  THEN v[i] ELSE 0
  PROVE  SumTo(v, Len(execution)) = SumTo(live, Len(execution))
<1> DEFINE n == Len(execution)
           undoes == [i \in 1..n |-> execution[i].reversalOf]
<1>1. n \in Nat /\ Rows = 1..n
  BY RowsTyped DEF MirrorInv, Typed
<1>2. \A i \in 1..n : v[i] \in Int /\ undoes[i] \in 0..(i-1)
  BY <1>1 DEF MirrorInv, ReversalsMirror
<1>3. \A i \in 1..n : undoes[i] # 0 => undoes[undoes[i]] = 0 /\ v[i] = -v[undoes[i]]
  <2>1. SUFFICES ASSUME NEW i \in 1..n, undoes[i] # 0
                 PROVE  undoes[undoes[i]] = 0 /\ v[i] = -v[undoes[i]]
    OBVIOUS
  <2>2. undoes[i] \in 1..n
    BY <1>1, <1>2, <2>1
  <2>3. QED
    BY <1>1, <2>1, <2>2 DEF MirrorInv, ReversalsMirror
<1>4. \A i, j \in 1..n : undoes[i] = undoes[j] /\ undoes[i] # 0 => i = j
  BY <1>1 DEF MirrorInv, ReversedOnce
<1>5. \A i \in 1..n : live[i] = IF undoes[i] = 0 /\ \A j \in 1..n : undoes[j] # i
                                THEN v[i] ELSE 0
  BY <1>1 DEF IsReversed
<1> HIDE DEF undoes
<1>6. n \in Nat
  BY <1>1
<1> HIDE DEF n
<1>7. SumTo(v, n) = SumTo(live, n)
  BY <1>2, <1>3, <1>4, <1>5, <1>6, UndoneRowsCancel
<1>8. QED
  BY <1>7 DEF n

(* The list of owner payments leaves out reversals and what they took back, *)
(* and adds up to the net cash of all rows nevertheless.                    *)
THEOREM OwnerPaymentsAddUpToNetCash == Spec => []OwnerPaymentsAreNetCash
<1>1. MirrorInv => OwnerPaymentsAreNetCash
  <2> SUFFICES ASSUME MirrorInv, NEW entity \in Entities
               PROVE  LET net == [i \in Rows |-> IF PaidToOwner(i, entity)
                                                 THEN execution[i].cash ELSE 0]
                          listed == [i \in Rows |-> IF OwnerLevelPayment(i) THEN net[i] ELSE 0]
                      IN  SumTo(listed, Len(execution)) = SumTo(net, Len(execution))
    BY DEF OwnerPaymentsAreNetCash
  <2> DEFINE net == [i \in Rows |-> IF PaidToOwner(i, entity) THEN execution[i].cash ELSE 0]
             listed == [i \in Rows |-> IF OwnerLevelPayment(i) THEN net[i] ELSE 0]
  <2>1. Rows = 1..Len(execution) /\ \A i \in Rows : execution[i].cash \in Int
    BY RowsTyped DEF MirrorInv, Typed
  <2>2. \A i \in Rows : net[i] \in Int
    BY <2>1
  <2>3. \A i \in Rows : execution[i].reversalOf # 0 =>
          /\ execution[i].reversalOf \in Rows
          /\ execution[execution[i].reversalOf].reversalOf = 0
          /\ execution[i].snapshot = execution[execution[i].reversalOf].snapshot
          /\ execution[i].cash = -execution[execution[i].reversalOf].cash
    BY <2>1 DEF MirrorInv, ReversalsMirror
  <2>4. ASSUME NEW i \in Rows, execution[i].reversalOf # 0
        PROVE  net[i] = -net[execution[i].reversalOf]
    BY <2>1, <2>3, <2>4 DEF PaidToOwner
  <2>5. \A i \in Rows : execution[i].cash > 0 <=> execution[i].reversalOf = 0
    BY <2>1, <2>3 DEF MirrorInv, PaymentsArePositive
  <2>6. \A i \in Rows : listed[i] = IF execution[i].reversalOf = 0 /\ ~IsReversed(i)
                                    THEN net[i] ELSE 0
    BY <2>5 DEF OwnerLevelPayment
  <2> HIDE DEF net, listed
  <2>7. SumTo(net, Len(execution)) = SumTo(listed, Len(execution))
    BY <2>2, <2>4, <2>6, OnlyLiveRowsCount
  <2>8. QED
    BY <2>7 DEF net, listed
<1>2. QED
  BY <1>1, MirrorInit, MirrorStep, PTL DEF Spec

(* A reversal is dated like its payment, so that the statement of any date  *)
(* counts either both or neither: what it shows as remaining lies between   *)
(* the original amount and zero, although it leaves later rows out.         *)
LEMMA StatementsWithin ==
  ASSUME Inv, MirrorInv, NEW l \in Lines, NEW date \in Dates, NettedRegister \/ OncePaid(l)
  PROVE  Within(Original[l], Original[l] + AllocatedAsOf(l, date))
<1> DEFINE n == Len(execution)
           v == [i \in Rows |-> IF execution[i].snapshot.date <= date
                                THEN execution[i].signed[l] ELSE 0]
           live == [i \in Rows |-> IF execution[i].reversalOf = 0 /\ ~IsReversed(i)
                                   THEN v[i] ELSE 0]
           f == [i \in Rows |-> LiveSlice(i, l)]
<1>1. n \in Nat /\ Rows = 1..n /\ \A i \in Rows : execution[i].signed[l] \in Int
  BY RowsTyped DEF MirrorInv, Typed
<1>2. \A i \in Rows : v[i] \in Int
  BY <1>1
<1>3. ASSUME NEW i \in Rows, execution[i].reversalOf # 0
      PROVE  v[i] = -v[execution[i].reversalOf]
  <2>1. /\ execution[i].reversalOf \in Rows
        /\ execution[i].snapshot = execution[execution[i].reversalOf].snapshot
        /\ execution[i].signed[l] = -execution[execution[i].reversalOf].signed[l]
    BY <1>1, <1>3 DEF MirrorInv, ReversalsMirror
  <2>2. QED
    BY <1>1, <2>1
<1>4. \A i \in Rows : live[i] = IF execution[i].reversalOf = 0 /\ ~IsReversed(i)
                                THEN v[i] ELSE 0
  OBVIOUS
<1>5. Original[l] \in Int
  BY LineAssumption
<1>6. \A i \in 1..n : /\ f[i] \in Int /\ live[i] \in Int
                      /\ live[i] \in {0, f[i]}
                      /\ Lowers(Original[l], f[i])
  BY <1>1, <1>5 DEF LiveSlice, Inv, PaymentsLower, Lowers
<1>7. AllocatedAsOf(l, date) = SumTo(v, n) /\ LiveTotal(l) = SumTo(f, n)
  BY DEF AllocatedAsOf, LiveTotal
<1> HIDE DEF v, live, f, n
<1>8. SumTo(v, n) = SumTo(live, n)
  BY <1>2, <1>3, <1>4, OnlyLiveRowsCount DEF n
<1>9. Within(Original[l], Original[l] + SumTo(f, n))
  <2>1. Typed /\ RowsInv /\ AllocatedIsLive
    BY DEF Inv, RowsInv
  <2>2. QED
    BY <1>7, <2>1, AllocationFits DEF AllocatedIsLive
<1>10. SumTo(f, n) \in Int /\ SumTo(live, n) \in Int
  BY <1>1, <1>6, SumToInt
<1>11. CASE Original[l] >= 0
  <2>1. \A i \in 1..n : f[i] <= live[i] /\ live[i] <= 0
    BY <1>6, <1>11 DEF Lowers
  <2>2. SumTo(f, n) <= SumTo(live, n) /\ SumTo(live, n) <= 0
    BY <1>1, <1>6, <2>1, SumsNested
  <2>3. QED
    BY <1>5, <1>7, <1>8, <1>9, <1>10, <1>11, <2>2 DEF Within
<1>12. CASE ~(Original[l] >= 0)
  <2>1. \A i \in 1..n : 0 <= live[i] /\ live[i] <= f[i]
    BY <1>6, <1>12 DEF Lowers
  <2>2. 0 <= SumTo(live, n) /\ SumTo(live, n) <= SumTo(f, n)
    BY <1>1, <1>6, <2>1, SumsNested
  <2>3. QED
    BY <1>5, <1>7, <1>8, <1>9, <1>10, <1>12, <2>2 DEF Within
<1>13. QED
  BY <1>11, <1>12

(* The statement of no date shows an obligation as more than it was, or     *)
(* turned round, unless two payments of it stand; and with a register that  *)
(* nets, not even then.                                                     *)
THEOREM StatementsNeverOvershoot == Spec => []StatementsStayWithinOriginals
<1>1. Inv /\ MirrorInv => StatementsStayWithinOriginals
  BY StatementsWithin DEF StatementsStayWithinOriginals
<1>2. Inv /\ [Next]_vars => Inv'
  BY InvStep
<1>3. QED
  BY <1>1, <1>2, InitInv, MirrorInit, MirrorStep, PTL DEF Spec

-----------------------------------------------------------------------------
(* The mapped variables of the ledger.                                     *)
Outstanding == [l \in Lines |-> Original[l] + Allocated(l)]

(* What the ledger shows as open of a line.                                *)
OpenOf(l) == IF NettedRegister THEN Outstanding[l] ELSE Original[l]

Entry(row) == [change |-> row.signed, undoes |-> row.reversalOf]

Journal == [i \in Rows |-> Entry(execution[i])]

LedgerInv == Inv /\ JournalInv

-----------------------------------------------------------------------------
(* What appending one row does to the mapped variables.                    *)

LEMMA SequenceAsFunction ==
  ASSUME NEW E, NEW seq \in Seq(E)
  PROVE  seq = [i \in 1..Len(seq) |-> seq[i]]
OBVIOUS

LEMMA JournalAppends ==
  ASSUME Typed, NEW row, execution' = Append(execution, row),
         row.signed \in [Lines -> Int], row.reversalOf \in Nat
  PROVE  Journal' = Append(Journal, Entry(row))
<1> DEFINE n == Len(execution)
           E == [change : [Lines -> Int], undoes : Nat]
<1>1. /\ n \in Nat /\ Rows = 1..n /\ Rows' = 1..(n+1)
      /\ \A i \in Rows : execution'[i] = execution[i]
      /\ execution'[n+1] = row
      /\ \A i \in Rows : Entry(execution[i]) \in E
  BY RowsTyped, AppendedRows DEF Typed, Entry
<1>2. Entry(row) \in E
  BY DEF Entry
<1>3. Journal' = [i \in 1..(n+1) |-> Entry(execution'[i])]
  BY <1>1 DEF Journal, Entry
<1>4. Journal = [i \in 1..n |-> Entry(execution[i])]
  BY <1>1 DEF Journal
<1> HIDE DEF n, E
<1>5. Journal \in Seq(E) /\ Len(Journal) = n
  BY <1>1, <1>4
<1>6. /\ Append(Journal, Entry(row)) \in Seq(E)
      /\ Len(Append(Journal, Entry(row))) = n + 1
      /\ \A i \in 1..n : Append(Journal, Entry(row))[i] = Journal[i]
      /\ Append(Journal, Entry(row))[n+1] = Entry(row)
  BY <1>2, <1>5
<1>7. Append(Journal, Entry(row)) = [i \in 1..(n+1) |-> Append(Journal, Entry(row))[i]]
  BY <1>6, SequenceAsFunction, Zenon
<1>8. \A i \in 1..(n+1) : Entry(execution'[i]) = Append(Journal, Entry(row))[i]
  <2>1. SUFFICES ASSUME NEW i \in 1..(n+1)
                 PROVE  Entry(execution'[i]) = Append(Journal, Entry(row))[i]
    OBVIOUS
  <2>2. CASE i \in 1..n
    BY <1>1, <1>4, <1>6, <2>2
  <2>3. CASE i = n+1
    BY <1>1, <1>6, <2>3
  <2>4. i \in 1..n \/ i = n+1
    BY <1>1
  <2>5. QED
    BY <2>2, <2>3, <2>4
<1>9. QED
  BY <1>3, <1>7, <1>8

LEMMA OutstandingMoves ==
  ASSUME Typed, NEW row, execution' = Append(execution, row),
         row.signed \in [Lines -> Int]
  PROVE  /\ \A l \in Lines : /\ Outstanding[l] \in Int
                             /\ Outstanding'[l] = Outstanding[l] + row.signed[l]
         /\ [l \in 1..NumLines |-> Outstanding'[l] - Outstanding[l]] = row.signed
<1>1. \A l \in Lines : /\ Allocated(l)' = Allocated(l) + row.signed[l]
                       /\ Allocated(l) \in Int /\ Original[l] \in Int
                       /\ row.signed[l] \in Int
  BY AppendAllocated, AllocatedInt, LineAssumption DEF Typed
<1>2. Outstanding' = [l \in Lines |-> Original[l] + Allocated(l)']
  BY DEF Outstanding
<1>3. \A l \in Lines : /\ Outstanding[l] \in Int
                       /\ Outstanding'[l] = Outstanding[l] + row.signed[l]
  BY <1>1, <1>2 DEF Outstanding
<1>4. \A l \in Lines : Outstanding'[l] - Outstanding[l] = row.signed[l]
  BY <1>1, <1>3
<1>5. [l \in 1..NumLines |-> Outstanding'[l] - Outstanding[l]] = row.signed
  <2>1. row.signed = [l \in Lines |-> row.signed[l]]
    OBVIOUS
  <2>2. QED
    BY <1>4, <2>1 DEF Lines
<1>6. QED
  BY <1>3, <1>5

-----------------------------------------------------------------------------
(* What a posting offers, in the terms of the ledger.                      *)

LEMMA PostedSlice ==
  ASSUME LedgerInv, NEW s \in Cashiers, step[s] = "posting", Postable(preview[s]),
         NEW l \in Lines, Slices(preview[s])[l] # 0
  PROVE  LET p == preview[s]
             x == Slices(p)[l]
         IN  /\ OpenOf(l) \in Int
             /\ OpenAmounts(p)[l] = (-Sign(p.direction)) * OpenOf(l)
             /\ OpenAmounts(p)[l] > 0
             /\ 0 <= (-Sign(p.direction)) * (OpenOf(l) + x)
             /\ (-Sign(p.direction)) * (OpenOf(l) + x) < (-Sign(p.direction)) * OpenOf(l)
<1> DEFINE p == preview[s]
           x == Slices(p)[l]
           part == Applied(OpenAmounts(p), p.amount, l)
           r == OpenOf(l)
<1>1. p \in Snapshot
  BY SubmittedType DEF LedgerInv, Inv
<1>2. /\ r = IF NettedRegister THEN Original[l] + Allocated(l) ELSE Original[l]
      /\ r \in Int
  BY AllocatedInt, LineAssumption DEF OpenOf, Outstanding, LedgerInv, Inv, Typed
<1>3. part \in 0..OpenAmounts(p)[l] /\ x = Sign(p.direction) * part
  BY <1>1, SlicesType
<1>4. /\ p.remaining[l] \in Int
      /\ Sign(p.direction) \in {-1, 1}
      /\ OpenAmounts(p)[l] = IF -Sign(p.direction) * p.remaining[l] > 0
                             THEN -Sign(p.direction) * p.remaining[l] ELSE 0
  BY <1>1 DEF Snapshot, OpenAmounts, Sign
<1>5. HeaderOf[l] \notin OwnerLevel
  BY DEF Postable, PaidLines
<1>6. x # 0
  OBVIOUS
<1> HIDE DEF r, part, x, p
<1>7. part # 0 /\ p.remaining[l] # 0
  BY <1>3, <1>4, <1>6
<1>8. p.remaining[l] = r
  BY <1>2, <1>5, <1>7 DEF LedgerInv, Inv, PostingIsCurrent, Remaining, NettedRemaining, p
<1>9. /\ r \in Int
      /\ OpenAmounts(p)[l] = (-Sign(p.direction)) * r
      /\ OpenAmounts(p)[l] > 0
      /\ 0 <= (-Sign(p.direction)) * (r + x)
      /\ (-Sign(p.direction)) * (r + x) < (-Sign(p.direction)) * r
  BY <1>2, <1>3, <1>4, <1>7, <1>8
<1>10. QED
  BY <1>9, Zenon DEF p, x, part, r

(* A payment that settles moves something.                                 *)
LEMMA SomethingIsPaid ==
  ASSUME NEW p \in Snapshot, Settles(p)
  PROVE  \E l \in Lines : Slices(p)[l] # 0
<1>1. SUFFICES ASSUME \A l \in 1..NumLines : Slices(p)[l] = 0 PROVE FALSE
  BY DEF Lines
<1>2. NumLines \in Nat /\ p.amount \in Nat \ {0}
  BY LineAssumption, CashAssumption DEF Snapshot
<1>3. \A l \in 1..NumLines : Slices(p)[l] \in Int /\ Slices(p)[l] = -Slices(p)[l]
  BY <1>1
<1>4. SumTo(Slices(p), NumLines) \in Int
  BY <1>2, <1>3, SumToInt
<1>5. SumTo(Slices(p), NumLines) = -SumTo(Slices(p), NumLines)
  BY <1>2, <1>3, SumToNegated
<1>6. SumTo(Slices(p), NumLines) = Sign(p.direction) * p.amount
  BY SettledSlices DEF Settles
<1>7. QED
  BY <1>2, <1>4, <1>5, <1>6 DEF Sign

-----------------------------------------------------------------------------
LEMMA PostPays ==
  ASSUME LedgerInv, NEW s \in Cashiers, ExecutePost(s)
  PROVE  Ledger!Pay
<1> DEFINE p == preview[s]
           x == Slices(p)
           row == [key |-> key[s], snapshot |-> p, cash |-> p.amount,
                   signed |-> x, reversalOf |-> 0]
           sign == -Sign(p.direction)
           open == OpenAmounts(p)
           offered == {l \in Lines : open[l] > 0}
           moved(l) == Outstanding'[l] - Outstanding[l]
           left(l) == OpenOf(l) + moved(l)
<1>1. /\ execution' = Append(execution, row)
      /\ step[s] = "posting" /\ Postable(p)
      /\ p \in Snapshot /\ Settles(p)
  BY SubmittedType DEF ExecutePost, LedgerInv, JournalInv, PostingSettles
<1>2. Typed /\ x \in [Lines -> Int] /\ row.signed = x /\ row.reversalOf = 0
  BY <1>1, SlicesType DEF LedgerInv, JournalInv
<1> HIDE DEF row
<1>3. /\ \A l \in Lines : /\ Outstanding[l] \in Int
                          /\ Outstanding'[l] = Outstanding[l] + x[l]
      /\ [l \in 1..NumLines |-> moved(l)] = x
  BY <1>1, <1>2, OutstandingMoves
<1>4. Journal' = Append(Journal, Entry(row))
  BY <1>1, <1>2, JournalAppends
<1>5. Journal' = Append(Journal, [change |-> [l \in 1..NumLines |-> moved(l)], undoes |-> 0])
  BY <1>2, <1>3, <1>4 DEF Entry
<1>6. Lines = 1..NumLines /\ NumLines \in Nat /\ p.amount \in Nat /\ sign \in {-1, 1}
  <2>1. Sign(p.direction) \in {-1, 1}
    BY DEF Sign
  <2>2. QED
    BY <1>1, <2>1, SlicesType, LineAssumption DEF Lines
<1>7. \A l \in Lines : moved(l) = x[l]
  BY <1>2, <1>3
<1>8. \A l \in Lines : x[l] # 0 =>
         /\ OpenOf(l) \in Int
         /\ open[l] = sign * OpenOf(l)
         /\ open[l] > 0
         /\ 0 <= sign * (OpenOf(l) + x[l])
         /\ sign * (OpenOf(l) + x[l]) < sign * OpenOf(l)
  BY <1>1, PostedSlice, Zenon
<1>9. \A l \in Lines : /\ open[l] \in Nat
                      /\ Applied(open, p.amount, l) \in 0..open[l]
                      /\ x[l] = -sign * Applied(open, p.amount, l)
  <2>1. \A l \in Lines : /\ open[l] \in Nat
                        /\ Applied(open, p.amount, l) \in 0..open[l]
                        /\ x[l] = Sign(p.direction) * Applied(open, p.amount, l)
    BY <1>1, OpenAmountsType, SlicesType
  <2>2. QED
    BY <2>1 DEF Sign
<1> HIDE DEF x, sign, open
<1>10. \A l \in 1..NumLines : moved(l) # 0 =>
          /\ l \in offered
          /\ 0 <= sign * left(l)
          /\ sign * left(l) < sign * OpenOf(l)
  BY <1>6, <1>7, <1>8
<1>11. ASSUME NEW l \in offered, NEW m \in offered, l < m, moved(m) # 0
       PROVE  sign * left(l) <= 0
  <2>1. Applied(open, p.amount, m) > 0
    <3>1. m \in Lines /\ x[m] # 0
      BY <1>7, <1>11
    <3>2. Applied(open, p.amount, m) # 0
      BY <1>6, <1>9, <3>1
    <3>3. QED
      BY <1>9, <3>1, <3>2
  <2>2. Applied(open, p.amount, l) = open[l]
    BY <1>6, <1>9, <1>11, <2>1, FifoFillsInOrder
  <2>3. x[l] # 0
    BY <1>6, <1>9, <1>11, <2>2
  <2>4. /\ OpenOf(l) \in Int
        /\ open[l] = sign * OpenOf(l) /\ x[l] = -sign * open[l]
    BY <1>8, <1>9, <2>2, <2>3
  <2>5. moved(l) = x[l]
    BY <1>7
  <2> HIDE DEF moved
  <2>6. QED
    BY <1>6, <2>4, <2>5
<1>12. \E l \in 1..NumLines : moved(l) # 0
  BY <1>1, <1>6, <1>7, SomethingIsPaid DEF x
<1>13. offered \in SUBSET (1..NumLines) /\ sign \in {-1, 1}
  BY <1>6
<1> HIDE DEF offered, moved, left
<1>14. \E sg \in {-1, 1}, off \in SUBSET (1..NumLines) :
          /\ \A l \in 1..NumLines : moved(l) # 0 =>
                /\ l \in off
                /\ 0 <= sg * left(l)
                /\ sg * left(l) < sg * OpenOf(l)
          /\ \A l, m \in off : l < m /\ moved(m) # 0 => sg * left(l) <= 0
  BY <1>10, <1>11, <1>13
<1>15. QED
  BY <1>5, <1>12, <1>14, Zenon
     DEF Ledger!Pay, Ledger!Moved, Ledger!Change, Ledger!Shown, Ledger!LeftOf, OpenOf,
         Outstanding, Journal, Entry, moved, left

LEMMA ReverseUndoes ==
  ASSUME LedgerInv, NEW r \in Rows, NEW k \in ReversalKeys, Reverse(r, k)
  PROVE  Ledger!Undo
<1> DEFINE row == [key |-> k, snapshot |-> execution[r].snapshot,
                   cash |-> -execution[r].cash,
                   signed |-> [l \in Lines |-> -execution[r].signed[l]],
                   reversalOf |-> r]
           moved(l) == Outstanding'[l] - Outstanding[l]
<1>1. /\ execution' = Append(execution, row)
      /\ execution[r].reversalOf = 0 /\ ~IsReversed(r)
  BY DEF Reverse
<1>2. /\ Typed /\ r \in Nat
      /\ execution[r].signed \in [Lines -> Int]
  BY RowsTyped DEF LedgerInv, JournalInv, Typed
<1>3. /\ row.signed \in [Lines -> Int] /\ row.reversalOf = r
      /\ \A l \in Lines : row.signed[l] = -execution[r].signed[l]
  BY <1>2
<1> HIDE DEF row
<1>4. /\ \A l \in Lines : /\ Outstanding[l] \in Int
                          /\ Outstanding'[l] = Outstanding[l] + row.signed[l]
      /\ [l \in 1..NumLines |-> moved(l)] = row.signed
  BY <1>1, <1>2, <1>3, OutstandingMoves
<1>5. Journal' = Append(Journal, [change |-> [l \in 1..NumLines |-> moved(l)], undoes |-> r])
  BY <1>1, <1>2, <1>3, <1>4, JournalAppends DEF Entry
<1>6. /\ DOMAIN Journal = Rows
      /\ Journal[r].undoes = 0
      /\ \A j \in Rows : Journal[j].undoes # r
      /\ \A l \in Lines : Journal[r].change[l] = execution[r].signed[l]
  BY <1>1 DEF Journal, Entry, IsReversed
<1>7. \A l \in 1..NumLines : moved(l) = -Journal[r].change[l]
  BY <1>2, <1>3, <1>4, <1>6 DEF Lines
<1> HIDE DEF moved
<1>8. \E i \in DOMAIN Journal :
         /\ Journal[i].undoes = 0
         /\ \A j \in DOMAIN Journal : Journal[j].undoes # i
         /\ \A l \in 1..NumLines : moved(l) = -Journal[i].change[l]
         /\ Journal' = Append(Journal, [change |-> [l \in 1..NumLines |-> moved(l)],
                                        undoes |-> i])
  BY <1>5, <1>6, <1>7
<1>9. QED
  BY <1>8, Zenon
     DEF Ledger!Undo, Ledger!Moved, Ledger!Change, Outstanding, Journal, Entry, moved

LEMMA LedgerUntouched ==
  ASSUME UNCHANGED execution
  PROVE  UNCHANGED Ledger!ledgerVars
BY DEF Ledger!ledgerVars, Rows, Allocated, AllocatedUpTo

LEMMA LedgerStep ==
  ASSUME LedgerInv, [Next]_vars
  PROVE  [Ledger!Pay \/ Ledger!Undo]_(Ledger!ledgerVars)
<1>1. CASE UNCHANGED execution
  BY <1>1, LedgerUntouched
<1>2. CASE execution' # execution
  <2>1. ASSUME NEW s \in Cashiers, CashierStep(s) PROVE ExecutePost(s)
    BY <1>2, <2>1 DEF CashierStep, Preview, ExecuteCall, ExecuteLock, ExecuteReplay,
       ExecuteRefuse, ExecuteAccept, ExecuteFail, ExecuteAbort
  <2>2. ASSUME NEW s \in Cashiers, ExecutePost(s) PROVE Ledger!Pay
    BY <2>2, PostPays
  <2>3. ASSUME NEW i \in Rows, NEW k \in ReversalKeys, Reverse(i, k) PROVE Ledger!Undo
    BY <2>3, ReverseUndoes
  <2>4. QED
    BY <1>2, <2>1, <2>2, <2>3 DEF Next, vars, cashVars
<1>3. QED
  BY <1>1, <1>2

LEMMA LedgerStart == Init => Ledger!LedgerInit
<1> SUFFICES ASSUME Init PROVE Ledger!LedgerInit
  OBVIOUS
<1>1. Len(execution) = 0 /\ Rows = {}
  BY DEF Init, CashInit, Rows
<1>2. \A l \in Lines : Original[l] + Allocated(l) = Original[l]
  BY <1>1, SumToStep, LineAssumption DEF Allocated, AllocatedUpTo
<1>3. [l \in Lines |-> Original[l] + Allocated(l)] = Original
  BY <1>2, LineAssumption
<1>4. Journal = <<>>
  BY <1>1 DEF Journal
<1>5. QED
  BY <1>3, <1>4 DEF Ledger!LedgerInit, Journal, Entry

(* Whatever cashiers, binders and administrators do, and however their     *)
(* transactions interleave, what is posted is a ledger: each payment pays  *)
(* amounts of one sign that the register shows as open, in the order of    *)
(* the walk and never past what is shown; each reversal gives back exactly *)
(* one payment, once; and nothing else moves anything.                     *)
THEOREM SettlementImplementsLedger == Spec => ImplementsLedger
<1>1. Init => LedgerInv
  BY InitInv, JournalInit DEF LedgerInv
<1>2. LedgerInv /\ [Next]_vars => LedgerInv'
  BY InvStep, JournalStep DEF LedgerInv
<1>3. LedgerInv /\ [Next]_vars => [Ledger!Pay \/ Ledger!Undo]_(Ledger!ledgerVars)
  BY LedgerStep
<1>4. QED
  BY <1>1, <1>2, <1>3, LedgerStart, PTL DEF Spec, ImplementsLedger, Ledger!LedgerSpec

-----------------------------------------------------------------------------
LEMMA PaysWhatWasShown ==
  ASSUME Inv, [Next]_vars
  PROVE  [\A s \in Cashiers :
            step[s] = "posting" /\ Len(execution') > Len(execution) /\ answer'[s] # 0 =>
               \A l \in PaidLines(preview[s]) :
                  preview[s].remaining[l] = Remaining(l)]_vars
<1>1. SUFFICES ASSUME NEW s \in Cashiers, step[s] = "posting",
                      NEW l \in PaidLines(preview[s])
               PROVE  preview[s].remaining[l] = Remaining(l)
  OBVIOUS
<1>2. preview[s] \in Snapshot /\ l \in Lines /\ Slices(preview[s])[l] # 0
  BY <1>1, SubmittedType DEF Inv, PaidLines
<1>3. /\ Applied(OpenAmounts(preview[s]), preview[s].amount, l)
            \in 0..OpenAmounts(preview[s])[l]
      /\ Slices(preview[s])[l] = Sign(preview[s].direction)
            * Applied(OpenAmounts(preview[s]), preview[s].amount, l)
  BY <1>2, SlicesType
<1>4. OpenAmounts(preview[s])[l] # 0
  BY <1>2, <1>3 DEF Sign
<1>5. preview[s].remaining[l] # 0
  BY <1>2, <1>4 DEF OpenAmounts, Sign, Snapshot
<1>6. QED
  BY <1>1, <1>2, <1>5 DEF Inv, PostingIsCurrent

(* A payment commits against the amounts its preview showed: between the   *)
(* moment the preview is checked and the commit nobody changes what the    *)
(* register shows as open of the obligations it pays.                      *)
THEOREM PaymentsPostCurrentAmounts == Spec => PostsAgainstCurrentRemaining
<1>1. Inv /\ [Next]_vars => Inv'
  BY InvStep
<1>2. QED
  BY <1>1, InitInv, PaysWhatWasShown, PTL DEF Spec, PostsAgainstCurrentRemaining
=============================================================================
