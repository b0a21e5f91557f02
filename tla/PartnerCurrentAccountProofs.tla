--------------------- MODULE PartnerCurrentAccountProofs ---------------------
(***************************************************************************)
(* Theorems about PartnerCurrentAccount, for any number of partners,       *)
(* cashiers, payers, keys and events, and for either register.             *)
(***************************************************************************)
EXTENDS PartnerCurrentAccount, ClientCashSettlementProofs

-----------------------------------------------------------------------------
(* The invariant.                                                          *)

(* A call under way carries a key of the kind that its preview asks for.   *)
CallsAreFunded ==
    \A s \in Cashiers : step[s] # "idle" => (Funded(s) <=> key[s] \in FundKeys)

(* A walk that was read again belongs to a funded call that is posting, and *)
(* walks the same payment.                                                 *)
WalksAreOfPostings ==
    \A s \in Cashiers : walk[s] # NoRow =>
        /\ step[s] = "posting" /\ Funded(s)
        /\ walk[s].amount = preview[s].amount
        /\ walk[s].direction = preview[s].direction

(* A reversal, of either table, comes after what it takes back.            *)
ReversalsComeLater ==
    /\ \A i \in Events : event[i].reversalOf \in 0..(i-1)
    /\ \A r \in Rows : execution[r].reversalOf \in 0..(r-1)

(* The key of a funded payment names one event and the rows that post it.  *)
FundingsHaveFundKeys ==
    \A i \in Events : event[i].kind = "funding" <=> event[i].key \in FundKeys

FundKeysNameEvents ==
    \A i, j \in Events : event[i].key = event[j].key /\ event[i].key \in FundKeys => i = j

FundingsArePosted ==
    \A i \in Events : event[i].key \in FundKeys =>
        \E r \in Rows : execution[r].key = event[i].key

PostingsAreFunded ==
    \A r \in Rows : execution[r].key \in FundKeys =>
        \E i \in Events : event[i].key = execution[r].key

FundingsMatch ==
    \A i \in Events, r \in Rows :
        event[i].key = execution[r].key /\ event[i].key \in FundKeys =>
            /\ execution[r].reversalOf = 0
            /\ execution[r].cash = event[i].entry
            /\ execution[r].snapshot.date = event[i].date

CallsFit == CallsAreFunded /\ WalksAreOfPostings

LinksInv ==
    /\ ReversalsComeLater
    /\ FundingsHaveFundKeys
    /\ FundKeysNameEvents
    /\ FundingsArePosted
    /\ PostingsAreFunded
    /\ FundingsMatch

PartnerTyped == Typed /\ PartnerTypeOK

PartnerInv == PartnerTyped /\ CallsFit /\ LinksInv

-----------------------------------------------------------------------------
(* Types.                                                                  *)

LEMMA EventsTyped ==
  ASSUME PartnerTypeOK
  PROVE  /\ Len(event) \in Nat
         /\ Events = 1..Len(event)
         /\ \A i \in Events : /\ event[i] \in PartnerEvent
                              /\ event[i].entry \in Int
                              /\ event[i].reversalOf \in Nat
                              /\ event[i].date \in Dates
                              /\ event[i].partner \in Partners
<1>1. event \in Seq(PartnerEvent)
  BY DEF PartnerTypeOK
<1>2. /\ Len(event) \in Nat
      /\ DOMAIN event = 1..Len(event)
      /\ \A i \in 1..Len(event) : event[i] \in PartnerEvent
  BY <1>1
<1>3. \A e \in PartnerEvent : /\ e.entry \in Int
                              /\ e.reversalOf \in Nat
                              /\ e.date \in Dates
                              /\ e.partner \in Partners
  BY DEF PartnerEvent
<1>4. QED
  BY <1>2, <1>3 DEF Events

LEMMA AppendedEvents ==
  ASSUME PartnerTypeOK, NEW new, event' = Append(event, new)
  PROVE  /\ Len(event') = Len(event) + 1
         /\ Events' = 1..(Len(event) + 1)
         /\ \A i \in Events : event'[i] = event[i] /\ i \in Events'
         /\ event'[Len(event) + 1] = new
<1>1. event \in Seq(PartnerEvent)
  BY DEF PartnerTypeOK
<1>2. QED
  BY <1>1, EventsTyped DEF Events

LEMMA BalanceInt ==
  ASSUME PartnerTypeOK, NEW partner, NEW date
  PROVE  BalanceAsOf(partner, date) \in Int
<1> DEFINE f == [i \in Events |-> IF event[i].partner = partner /\ event[i].date <= date
                                  THEN event[i].entry ELSE 0]
<1>1. Len(event) \in Nat /\ \A i \in 1..Len(event) : f[i] \in Int
  BY EventsTyped
<1> HIDE DEF f
<1>2. SumTo(f, Len(event)) \in Int
  BY <1>1, SumToInt
<1>3. QED
  BY <1>2 DEF BalanceAsOf, f

LEMMA FundedEvent ==
  ASSUME PartnerTyped, NEW s \in Cashiers, Funded(s), step[s] # "idle", key[s] \in FundKeys
  PROVE  [key |-> key[s], kind |-> "funding", partner |-> funder[s],
          date |-> preview[s].date, entry |-> preview[s].amount, snapshot |-> preview[s],
          shown |-> shown[s], reversalOf |-> 0] \in PartnerEvent
<1>1. preview[s] \in Snapshot
  BY SubmittedType DEF PartnerTyped
<1>2. preview[s].date \in Dates /\ preview[s].amount \in Nat
  BY <1>1, CashAssumption DEF Snapshot
<1>3. funder[s] \in Partners /\ shown[s] \in Int
  BY DEF Funded, PartnerTyped, PartnerTypeOK
<1>4. QED
  BY <1>1, <1>2, <1>3 DEF PartnerEvent

LEMMA ReversingEvent ==
  ASSUME PartnerTypeOK, NEW i \in Events, NEW k \in UndoKeys
  PROVE  [key |-> k, kind |-> "reversal", partner |-> event[i].partner,
          date |-> event[i].date, entry |-> -event[i].entry,
          snapshot |-> event[i].snapshot, shown |-> event[i].shown, reversalOf |-> i]
            \in PartnerEvent
<1>1. event[i] \in PartnerEvent /\ i \in Nat
  BY EventsTyped
<1>2. /\ event[i].entry \in Int /\ event[i].shown \in Int
      /\ event[i].partner \in Partners /\ event[i].date \in Dates
      /\ event[i].snapshot \in Snapshot \cup {NoRow}
  BY <1>1 DEF PartnerEvent
<1>3. QED
  BY <1>1, <1>2 DEF PartnerEvent

(* What a step of this module does to the tables of ClientCashSettlement:   *)
(* it is a step of that module, or leaves them alone, or is one of these.   *)
FundedEnd(s) == FundedReplay(s) \/ FundedRefuse(s) \/ FundedPost(s) \/ FundedFail(s)

LEMMA CashSteps ==
  ASSUME [PartnerNext]_allVars
  PROVE  \/ [Next]_vars
         \/ \E s \in Cashiers : FundedEnd(s)
         \/ \E i \in Events, k \in UndoKeys : UndoEvent(i, k)
<1>1. CASE UNCHANGED allVars
  BY <1>1 DEF allVars
<1>2. CASE ObligationsNext /\ UNCHANGED <<cashVars, partnerVars>>
  BY <1>2 DEF Next
<1>3. ASSUME NEW s \in Cashiers, FundedStep(s) PROVE [Next]_vars \/ FundedEnd(s)
  <2>1. ASSUME NEW e \in Entities, NEW partner \in Partners, NEW a \in Amounts,
               NEW d \in Dates, FundedPreview(s, e, partner, a, d)
        PROVE  CashierStep(s)
    <3>1. Preview(s, e, "JJ_TO_CLIENT", a, d) /\ "JJ_TO_CLIENT" \in Directions
      BY <2>1 DEF FundedPreview, Directions
    <3>2. QED
      BY <3>1 DEF CashierStep
  <2>2. ASSUME NEW k \in FundKeys, FundedCall(s, k) PROVE CashierStep(s)
    BY <2>2, PartnerAssumption DEF FundedCall, CashierStep
  <2>3. CASE FundedLock(s) \/ FundedAccept(s) \/ FundedAbort(s)
    BY <2>3 DEF FundedLock, FundedAccept, FundedAbort, CashierStep, Next
  <2>4. CASE FundedWalk(s)
    BY <2>4 DEF FundedWalk
  <2>5. QED
    BY <1>3, <2>1, <2>2, <2>3, <2>4 DEF FundedStep, FundedEnd, Next
<1>4. ASSUME NEW s \in Cashiers, OwnStep(s) PROVE [Next]_vars
  <2>1. ASSUME OwnPreview(s) PROVE CashierStep(s)
    BY <2>1 DEF OwnPreview, CashierStep
  <2>2. ASSUME NEW k \in ExecKeys \ FundKeys, ExecuteCall(s, k) PROVE CashierStep(s)
    BY <2>2 DEF CashierStep
  <2>3. QED
    BY <1>4, <2>1, <2>2 DEF OwnStep, CashierStep, Next
<1>5. ASSUME NEW t \in Payers, NEW partner \in Partners, NEW a \in Amounts, NEW d \in Dates,
             NEW k \in ReimburseKeys, ReimburseCheck(t, partner, a, d, k)
      PROVE  UNCHANGED vars
  BY <1>5 DEF ReimburseCheck
<1>6. ASSUME NEW t \in Payers, ReimbursePost(t) \/ ReimburseAbort(t) PROVE UNCHANGED vars
  BY <1>6 DEF ReimbursePost, ReimburseAbort
<1>7. ASSUME NEW i \in Rows, NEW k \in ReversalKeys \ UndoKeys, ReverseOwn(i, k) PROVE Next
  BY <1>7 DEF ReverseOwn, Next
<1>8. QED
  BY <1>1, <1>2, <1>3, <1>4, <1>5, <1>6, <1>7 DEF PartnerNext, PartnerStep

LEMMA FundedRowTyped ==
  ASSUME PartnerTyped, NEW s \in Cashiers, FundedPost(s)
  PROVE  [key |-> key[s], snapshot |-> preview[s], cash |-> preview[s].amount,
          signed |-> Slices(walk[s]), reversalOf |-> 0] \in ExecutionRow
<1>1. preview[s] \in Snapshot /\ key[s] \in ExecKeys
  BY SubmittedType DEF FundedPost, PartnerTyped
<1>2. walk[s] \in Snapshot
  BY DEF FundedPost, PartnerTyped, PartnerTypeOK
<1>3. Slices(walk[s]) \in [Lines -> Int] /\ preview[s].amount \in Nat
  BY <1>1, <1>2, SlicesType
<1>4. QED
  BY <1>1, <1>3 DEF ExecutionRow

(* A reversal of a funded payment finds the row that posted it.             *)
LEMMA FundedRowFound ==
  ASSUME PartnerInv, NEW i \in Events, event[i].kind = "funding"
  PROVE  /\ event[i].key \in FundKeys
         /\ RowOf(event[i].key) \in Rows
         /\ execution[RowOf(event[i].key)].key = event[i].key
<1>1. event[i].key \in FundKeys
  BY DEF PartnerInv, LinksInv, FundingsHaveFundKeys
<1>2. \E r \in Rows : execution[r].key = event[i].key
  BY <1>1 DEF PartnerInv, LinksInv, FundingsArePosted
<1>3. QED
  BY <1>1, <1>2 DEF RowOf

LEMMA TypedAlways ==
  ASSUME PartnerInv, [PartnerNext]_allVars
  PROVE  Typed'
<1>1. Typed
  BY DEF PartnerInv, PartnerTyped
<1>2. CASE [Next]_vars
  BY <1>1, <1>2, TypedStep
<1>3. ASSUME NEW s \in Cashiers, FundedReplay(s) PROVE Typed'
  <2>1. RowOf(key[s]) \in Rows
    BY <1>3 DEF FundedReplay, UsedKey, RowOf
  <2>2. RowOf(key[s]) \in Nat
    BY <1>1, <2>1, RowsTyped DEF Typed
  <2>3. QED
    BY <1>1, <1>3, <2>2, EndCallTyped DEF FundedReplay, Typed, TypeOK
<1>4. ASSUME NEW s \in Cashiers, FundedRefuse(s) \/ FundedFail(s) PROVE Typed'
  BY <1>1, <1>4, EndCallTyped DEF FundedRefuse, FundedFail, Typed, TypeOK
<1>5. ASSUME NEW s \in Cashiers, FundedPost(s) PROVE Typed'
  <2>1. execution' \in Seq(ExecutionRow)
    <3>1. /\ execution \in Seq(ExecutionRow)
          /\ [key |-> key[s], snapshot |-> preview[s], cash |-> preview[s].amount,
              signed |-> Slices(walk[s]), reversalOf |-> 0] \in ExecutionRow
      BY <1>5, FundedRowTyped DEF Typed, TypeOK, PartnerInv, PartnerTyped
    <3>2. QED
      BY <1>5, <3>1 DEF FundedPost
  <2>2. Len(execution) + 1 \in Nat
    BY <1>1, RowsTyped DEF Typed
  <2>3. QED
    BY <1>1, <1>5, <2>1, <2>2, EndCallTyped DEF FundedPost
<1>6. ASSUME NEW i \in Events, NEW k \in UndoKeys, UndoEvent(i, k) PROVE Typed'
  <2>1. execution' \in Seq(ExecutionRow)
    <3>1. CASE UndoReimbursement(i)
      BY <1>1, <3>1 DEF UndoReimbursement, Typed, TypeOK
    <3>2. CASE UndoFunding(i, k)
      <4> DEFINE r == RowOf(event[i].key)
                 row == [key |-> k, snapshot |-> execution[r].snapshot,
                         cash |-> -execution[r].cash,
                         signed |-> [l \in Lines |-> -execution[r].signed[l]],
                         reversalOf |-> r]
      <4>1. r \in Rows
        BY <3>2, FundedRowFound DEF UndoFunding
      <4>2. k \in ReversalKeys
        BY PartnerAssumption
      <4> HIDE DEF r
      <4>3. row \in ExecutionRow
        BY <1>1, <4>1, <4>2, ReversingRow
      <4>4. execution' = Append(execution, row)
        BY <3>2 DEF UndoFunding, r
      <4> HIDE DEF row
      <4>5. QED
        BY <1>1, <4>3, <4>4 DEF Typed, TypeOK
    <3>3. QED
      BY <1>6, <3>1, <3>2 DEF UndoEvent
  <2>2. QED
    BY <1>1, <1>6, <2>1 DEF UndoEvent, Typed, TypeOK, ObligationsTypeOK, CallsSubmit,
       obligationVars
<1>7. QED
  BY <1>2, <1>3, <1>4, <1>5, <1>6, CashSteps DEF FundedEnd

LEMMA PartnerTypeStep ==
  ASSUME PartnerInv, [PartnerNext]_allVars
  PROVE  PartnerTypeOK'
<1>1. PartnerTypeOK /\ PartnerTyped
  BY DEF PartnerInv, PartnerTyped
<1> USE DEF PartnerTypeOK
<1>2. CASE UNCHANGED partnerVars
  BY <1>1, <1>2 DEF partnerVars
<1>3. ASSUME NEW s \in Cashiers, NEW e \in Entities, NEW partner \in Partners,
             NEW a \in Amounts, NEW d \in Dates, FundedPreview(s, e, partner, a, d)
      PROVE  PartnerTypeOK'
  BY <1>1, <1>3, BalanceInt DEF FundedPreview
<1>4. ASSUME NEW s \in Cashiers, FundedWalk(s) PROVE PartnerTypeOK'
  <2>1. preview[s] \in Snapshot
    BY <1>1, <1>4, SubmittedType DEF FundedWalk, PartnerTyped
  <2>2. /\ preview[s].entity \in Entities /\ preview[s].direction \in Directions
        /\ preview[s].amount \in Amounts /\ preview[s].date \in Dates
    BY <2>1 DEF Snapshot
  <2>3. SnapshotNow(preview[s].entity, preview[s].direction, preview[s].amount,
                    preview[s].date) \in Snapshot
    BY <1>1, <2>2, SnapshotNowType DEF PartnerTyped, Typed
  <2>4. QED
    BY <1>1, <1>4, <2>3 DEF FundedWalk
<1>5. ASSUME NEW s \in Cashiers, FundedPost(s) PROVE PartnerTypeOK'
  <2>1. Funded(s) /\ step[s] # "idle" /\ key[s] \in FundKeys
    BY <1>5 DEF FundedPost, PartnerInv, CallsFit, CallsAreFunded
  <2>2. event' \in Seq(PartnerEvent)
    BY <1>1, <1>5, <2>1, FundedEvent DEF FundedPost
  <2>3. QED
    BY <1>1, <1>5, <2>2 DEF FundedPost
<1>6. ASSUME NEW s \in Cashiers, FundedFail(s) \/ FundedAbort(s) PROVE PartnerTypeOK'
  BY <1>1, <1>6 DEF FundedFail, FundedAbort
<1>7. ASSUME NEW s \in Cashiers, OwnPreview(s) PROVE PartnerTypeOK'
  BY <1>1, <1>7 DEF OwnPreview
<1>8. ASSUME NEW t \in Payers, NEW partner \in Partners, NEW a \in Amounts, NEW d \in Dates,
             NEW k \in ReimburseKeys, ReimburseCheck(t, partner, a, d, k)
      PROVE  PartnerTypeOK'
  <2>1. [key |-> k, partner |-> partner, amount |-> a, date |-> d,
         shown |-> BalanceAsOf(partner, d)] \in Reimbursement
    BY <1>1, BalanceInt DEF Reimbursement
  <2>2. QED
    BY <1>1, <1>8, <2>1 DEF ReimburseCheck
<1>9. ASSUME NEW t \in Payers, ReimbursePost(t) PROVE PartnerTypeOK'
  <2> DEFINE c == reimbursing[t]
  <2>1. c \in Reimbursement
    BY <1>1, <1>9 DEF ReimbursePost
  <2> HIDE DEF c
  <2>5. /\ c.key \in ReimburseKeys /\ c.partner \in Partners /\ c.date \in Dates
        /\ c.amount \in Amounts /\ c.shown \in Int
    BY <2>1 DEF Reimbursement
  <2>6. c.amount \in Nat
    BY <2>5, CashAssumption
  <2>2. /\ c.key \in ReimburseKeys /\ c.partner \in Partners /\ c.date \in Dates
        /\ -c.amount \in Int /\ c.shown \in Int
    BY <2>5, <2>6
  <2>3. [key |-> c.key, kind |-> "reimbursement", partner |-> c.partner, date |-> c.date,
         entry |-> -c.amount, snapshot |-> NoRow, shown |-> c.shown, reversalOf |-> 0]
           \in PartnerEvent
    BY <2>2 DEF PartnerEvent
  <2>4. QED
    BY <1>1, <1>9, <2>3 DEF ReimbursePost, c
<1>10. ASSUME NEW t \in Payers, ReimburseAbort(t) PROVE PartnerTypeOK'
  BY <1>1, <1>10 DEF ReimburseAbort
<1>11. ASSUME NEW i \in Events, NEW k \in UndoKeys, UndoEvent(i, k) PROVE PartnerTypeOK'
  <2>1. event' \in Seq(PartnerEvent)
    BY <1>1, <1>11, ReversingEvent DEF UndoEvent
  <2>2. QED
    BY <1>1, <1>11, <2>1 DEF UndoEvent
<1>12. ASSUME NEW s \in Cashiers, FundedStep(s) PROVE PartnerTypeOK'
  <2>1. CASE \/ \E k \in FundKeys : FundedCall(s, k)
             \/ FundedLock(s) \/ FundedReplay(s) \/ FundedRefuse(s) \/ FundedAccept(s)
    BY <1>2, <2>1 DEF FundedCall, FundedLock, FundedReplay, FundedRefuse, FundedAccept
  <2>2. QED
    BY <1>3, <1>4, <1>5, <1>6, <1>12, <2>1 DEF FundedStep
<1>13. ASSUME NEW s \in Cashiers, OwnStep(s) PROVE PartnerTypeOK'
  BY <1>2, <1>7, <1>13 DEF OwnStep
<1>14. CASE ObligationsNext /\ UNCHANGED <<cashVars, partnerVars>>
  BY <1>2, <1>14
<1>15. ASSUME NEW i \in Rows, NEW k \in ReversalKeys \ UndoKeys, ReverseOwn(i, k)
       PROVE  PartnerTypeOK'
  BY <1>2, <1>15 DEF ReverseOwn
<1>16. QED
  BY <1>2, <1>8, <1>9, <1>10, <1>11, <1>12, <1>13, <1>14, <1>15
     DEF PartnerNext, PartnerStep, allVars

-----------------------------------------------------------------------------
(* Calls.                                                                  *)

(* An end of the call of s leaves the other calls alone.                    *)
LEMMA EndedCallFits ==
  ASSUME PartnerInv, NEW s \in Cashiers, NEW row, EndCall(s, row),
         UNCHANGED funder,
         walk' = [walk EXCEPT ![s] = NoRow] \/ (walk[s] = NoRow /\ UNCHANGED walk)
  PROVE  CallsFit'
<1>1. /\ step \in [Cashiers -> {"idle", "waiting", "locking", "posting"}]
      /\ walk \in [Cashiers -> Snapshot \cup {NoRow}]
  BY DEF PartnerInv, PartnerTyped, Typed, TypeOK, PartnerTypeOK
<1>2. /\ step' = [step EXCEPT ![s] = "idle"]
      /\ UNCHANGED <<preview, key, funder>>
  BY DEF EndCall
<1>3. walk'[s] = NoRow /\ \A t \in Cashiers : t # s => walk'[t] = walk[t]
  BY <1>1
<1>4. step'[s] = "idle" /\ \A t \in Cashiers : t # s => step'[t] = step[t]
  BY <1>1, <1>2
<1>5. CallsAreFunded'
  BY <1>2, <1>4 DEF CallsAreFunded, Funded, PartnerInv, CallsFit
<1>6. WalksAreOfPostings'
  BY <1>2, <1>3, <1>4 DEF WalksAreOfPostings, Funded, PartnerInv, CallsFit
<1>7. QED
  BY <1>5, <1>6 DEF CallsFit

LEMMA CallsStep ==
  ASSUME PartnerInv, [PartnerNext]_allVars
  PROVE  CallsFit'
<1>1. /\ step \in [Cashiers -> {"idle", "waiting", "locking", "posting"}]
      /\ preview \in [Cashiers -> Snapshot \cup {NoRow}]
      /\ key \in [Cashiers -> ExecKeys \cup {NoKey}]
      /\ funder \in [Cashiers -> Partners \cup {NoPartner}]
      /\ walk \in [Cashiers -> Snapshot \cup {NoRow}]
      /\ CallsAreFunded /\ WalksAreOfPostings
  BY DEF PartnerInv, PartnerTyped, Typed, TypeOK, PartnerTypeOK, CallsFit
<1> USE DEF CallsFit, CallsAreFunded, WalksAreOfPostings, Funded
<1>2. CASE UNCHANGED <<step, preview, key, funder, walk>>
  BY <1>1, <1>2
<1>3. ASSUME NEW s \in Cashiers, NEW e \in Entities, NEW d \in Directions,
             NEW a \in Amounts, NEW date \in Dates, Preview(s, e, d, a, date),
             UNCHANGED walk, NEW partner, funder' = [funder EXCEPT ![s] = partner]
      PROVE  CallsFit'
  <2>1. step[s] = "idle" /\ walk[s] = NoRow /\ UNCHANGED step
    BY <1>1, <1>3 DEF Preview
  <2>2. \A t \in Cashiers : t # s =>
           preview'[t] = preview[t] /\ key'[t] = key[t] /\ funder'[t] = funder[t]
    BY <1>1, <1>3 DEF Preview
  <2>3. QED
    BY <1>1, <1>3, <2>1, <2>2
<1>4. ASSUME NEW s \in Cashiers, NEW k \in ExecKeys, ExecuteCall(s, k), UNCHANGED <<walk, funder>>,
             Funded(s) <=> k \in FundKeys
      PROVE  CallsFit'
  <2>1. /\ step[s] = "idle" /\ walk[s] = NoRow /\ UNCHANGED preview
        /\ key'[s] = k
        /\ \A t \in Cashiers : t # s => step'[t] = step[t] /\ key'[t] = key[t]
    BY <1>1, <1>4 DEF ExecuteCall
  <2>2. QED
    BY <1>1, <1>4, <2>1
<1>5. ASSUME NEW s \in Cashiers, ExecuteLock(s) \/ ExecuteAccept(s), UNCHANGED <<walk, funder>>
      PROVE  CallsFit'
  <2>1. /\ step[s] \in {"waiting", "locking"} /\ walk[s] = NoRow
        /\ UNCHANGED <<preview, key>>
        /\ \A t \in Cashiers : t # s => step'[t] = step[t]
    BY <1>1, <1>5 DEF ExecuteLock, ExecuteAccept
  <2>2. QED
    BY <1>1, <1>5, <2>1
<1>6. ASSUME NEW s \in Cashiers, FundedReplay(s) \/ FundedRefuse(s) PROVE CallsFit'
  <2>1. walk[s] = NoRow /\ UNCHANGED <<walk, funder>> /\ \E row : EndCall(s, row)
    BY <1>1, <1>6 DEF FundedReplay, FundedRefuse, partnerVars
  <2>2. QED
    BY <2>1, EndedCallFits
<1>7. ASSUME NEW s \in Cashiers, FundedPost(s) \/ FundedFail(s) \/ FundedAbort(s)
      PROVE  CallsFit'
  <2>1. UNCHANGED funder /\ walk' = [walk EXCEPT ![s] = NoRow] /\ \E row : EndCall(s, row)
    BY <1>7 DEF FundedPost, FundedFail, FundedAbort, ExecuteAbort
  <2>2. QED
    BY <2>1, EndedCallFits
<1>8. ASSUME NEW s \in Cashiers, FundedWalk(s) PROVE CallsFit'
  <2> DEFINE now == SnapshotNow(preview[s].entity, preview[s].direction,
                                preview[s].amount, preview[s].date)
  <2>1. now.amount = preview[s].amount /\ now.direction = preview[s].direction
    BY DEF SnapshotNow
  <2> HIDE DEF now
  <2>2. /\ walk' = [walk EXCEPT ![s] = now]
        /\ Funded(s) /\ step[s] = "posting"
        /\ UNCHANGED <<step, preview, key, funder>>
    BY <1>8 DEF FundedWalk, now, vars, cashVars
  <2>3. QED
    BY <1>1, <2>1, <2>2
<1>9. ASSUME NEW s \in Cashiers, OwnPreview(s) PROVE CallsFit'
  <2>1. PICK e \in Entities, d \in Directions, a \in Amounts, date \in Dates :
           Preview(s, e, d, a, date)
    BY <1>9 DEF OwnPreview
  <2>2. QED
    BY <1>3, <1>9, <2>1 DEF OwnPreview
<1>10. ASSUME NEW s \in Cashiers, OwnStep(s) PROVE CallsFit'
  <2>1. CASE OwnPreview(s)
    BY <1>9, <2>1
  <2>2. ASSUME ~Funded(s), UNCHANGED partnerVars
        PROVE  walk[s] = NoRow /\ UNCHANGED <<walk, funder>>
    BY <1>1, <2>2 DEF partnerVars
  <2>3. ASSUME NEW k \in ExecKeys \ FundKeys, ExecuteCall(s, k), ~Funded(s),
               UNCHANGED partnerVars
        PROVE  CallsFit'
    BY <1>4, <2>2, <2>3
  <2>4. ASSUME ~Funded(s), UNCHANGED partnerVars, ExecuteLock(s) \/ ExecuteAccept(s)
        PROVE  CallsFit'
    BY <1>5, <2>2, <2>4
  <2>5. ASSUME ~Funded(s), UNCHANGED partnerVars,
               ExecuteReplay(s) \/ ExecuteRefuse(s) \/ ExecutePost(s) \/ ExecuteFail(s)
                 \/ ExecuteAbort(s)
        PROVE  CallsFit'
    <3>1. \E row : EndCall(s, row)
      BY <2>5 DEF ExecuteReplay, ExecuteRefuse, ExecutePost, ExecuteFail, ExecuteAbort
    <3>2. QED
      BY <2>2, <2>5, <3>1, EndedCallFits
  <2>6. QED
    BY <1>10, <2>1, <2>3, <2>4, <2>5 DEF OwnStep
<1>11. ASSUME NEW s \in Cashiers, FundedStep(s) PROVE CallsFit'
  <2>1. ASSUME NEW e \in Entities, NEW partner \in Partners, NEW a \in Amounts,
               NEW date \in Dates, FundedPreview(s, e, partner, a, date)
        PROVE  CallsFit'
    BY <1>3, <2>1 DEF FundedPreview, Directions
  <2>2. ASSUME NEW k \in FundKeys, FundedCall(s, k) PROVE CallsFit'
    BY <1>4, <2>2, PartnerAssumption DEF FundedCall, partnerVars
  <2>3. ASSUME FundedLock(s) \/ FundedAccept(s) PROVE CallsFit'
    BY <1>5, <2>3 DEF FundedLock, FundedAccept, partnerVars
  <2>4. QED
    BY <1>6, <1>7, <1>8, <1>11, <2>1, <2>2, <2>3 DEF FundedStep
<1>12. CASE ObligationsNext /\ UNCHANGED <<cashVars, partnerVars>>
  BY <1>2, <1>12 DEF cashVars, partnerVars
<1>13. ASSUME NEW t \in Payers, NEW partner \in Partners, NEW a \in Amounts, NEW d \in Dates,
              NEW k \in ReimburseKeys, ReimburseCheck(t, partner, a, d, k)
       PROVE  CallsFit'
  BY <1>2, <1>13 DEF ReimburseCheck, vars, cashVars
<1>14. ASSUME NEW t \in Payers, ReimbursePost(t) \/ ReimburseAbort(t) PROVE CallsFit'
  BY <1>2, <1>14 DEF ReimbursePost, ReimburseAbort, vars, cashVars
<1>15. ASSUME NEW i \in Events, NEW k \in UndoKeys, UndoEvent(i, k) PROVE CallsFit'
  BY <1>2, <1>15 DEF UndoEvent
<1>16. ASSUME NEW i \in Rows, NEW k \in ReversalKeys \ UndoKeys, ReverseOwn(i, k)
       PROVE  CallsFit'
  BY <1>2, <1>16 DEF ReverseOwn, Reverse, partnerVars
<1>17. CASE UNCHANGED allVars
  BY <1>2, <1>17 DEF allVars, vars, cashVars, partnerVars
<1>18. QED
  BY <1>10, <1>11, <1>12, <1>13, <1>14, <1>15, <1>16, <1>17 DEF PartnerNext, PartnerStep

-----------------------------------------------------------------------------
(* Links between the two tables.                                           *)

AppendsEvent(new) == event' = Append(event, new)

(* The last entry of a table that has grown, or any of its old ones.        *)
LEMMA GrownEvents ==
  ASSUME PartnerTyped, NEW new, AppendsEvent(new)
  PROVE  /\ Len(event) \in Nat /\ Events = 1..Len(event)
         /\ Len(event') = Len(event) + 1 /\ event'[Len(event) + 1] = new
         /\ Events' = 1..(Len(event) + 1)
         /\ \A i \in Events' : \/ i \in Events /\ event'[i] = event[i]
                               \/ i = Len(event) + 1 /\ event'[i] = new
         /\ \A i \in Events : i \in Events' /\ event'[i] = event[i]
BY EventsTyped, AppendedEvents DEF PartnerTyped, AppendsEvent

LEMMA GrownRows ==
  ASSUME PartnerTyped, NEW row, AppendsRow(row)
  PROVE  /\ Len(execution) \in Nat /\ Rows = 1..Len(execution)
         /\ Len(execution') = Len(execution) + 1 /\ execution'[Len(execution) + 1] = row
         /\ Rows' = 1..(Len(execution) + 1)
         /\ \A r \in Rows' : \/ r \in Rows /\ execution'[r] = execution[r]
                             \/ r = Len(execution) + 1 /\ execution'[r] = row
         /\ \A r \in Rows : r \in Rows' /\ execution'[r] = execution[r]
BY RowsTyped, AppendedRows DEF PartnerTyped, Typed, AppendsRow

(* A payment or a reversal of the company's own cash.                       *)
LEMMA RowLinks ==
  ASSUME PartnerInv, NEW row, AppendsRow(row), UNCHANGED event,
         row.key \notin FundKeys, row.reversalOf \in 0..Len(execution)
  PROVE  LinksInv'
<1>1. PartnerTyped /\ LinksInv /\ Events' = Events
  BY DEF PartnerInv, Events
<1>2. /\ Len(execution) \in Nat
      /\ \A r \in Rows' : \/ r \in Rows /\ execution'[r] = execution[r]
                          \/ r = Len(execution) + 1 /\ execution'[r] = row
      /\ \A r \in Rows : r \in Rows' /\ execution'[r] = execution[r]
  BY <1>1, GrownRows
<1>3. ReversalsComeLater'
  BY <1>1, <1>2 DEF LinksInv, ReversalsComeLater
<1>4. FundingsHaveFundKeys' /\ FundKeysNameEvents'
  BY <1>1 DEF LinksInv, FundingsHaveFundKeys, FundKeysNameEvents
<1>5. FundingsArePosted'
  BY <1>1, <1>2 DEF LinksInv, FundingsArePosted
<1>6. PostingsAreFunded'
  BY <1>1, <1>2 DEF LinksInv, PostingsAreFunded
<1>7. FundingsMatch'
  BY <1>1, <1>2 DEF LinksInv, FundingsMatch
<1>8. QED
  BY <1>3, <1>4, <1>5, <1>6, <1>7 DEF LinksInv

(* A reimbursement or the reversal of one.                                  *)
LEMMA EventLinks ==
  ASSUME PartnerInv, NEW new, AppendsEvent(new), UNCHANGED execution,
         new.key \notin FundKeys, new.kind # "funding", new.reversalOf \in 0..Len(event)
  PROVE  LinksInv'
<1>1. PartnerTyped /\ LinksInv /\ Rows' = Rows
  BY DEF PartnerInv, Rows
<1>2. /\ Len(event) \in Nat
      /\ \A i \in Events' : \/ i \in Events /\ event'[i] = event[i]
                            \/ i = Len(event) + 1 /\ event'[i] = new
      /\ \A i \in Events : i \in Events' /\ event'[i] = event[i]
  BY <1>1, GrownEvents
<1>3. ReversalsComeLater'
  BY <1>1, <1>2 DEF LinksInv, ReversalsComeLater
<1>4. FundingsHaveFundKeys' /\ FundKeysNameEvents'
  BY <1>1, <1>2 DEF LinksInv, FundingsHaveFundKeys, FundKeysNameEvents
<1>5. FundingsArePosted'
  BY <1>1, <1>2 DEF LinksInv, FundingsArePosted
<1>6. PostingsAreFunded'
  BY <1>1, <1>2 DEF LinksInv, PostingsAreFunded
<1>7. FundingsMatch'
  BY <1>1, <1>2 DEF LinksInv, FundingsMatch
<1>8. QED
  BY <1>3, <1>4, <1>5, <1>6, <1>7 DEF LinksInv

(* A funded payment or its reversal.                                        *)
FundedPair(new, row) ==
    /\ new.kind = "funding" /\ new.key \in FundKeys /\ ~UsedKey(new.key)
    /\ row.reversalOf = 0 /\ row.cash = new.entry /\ row.snapshot.date = new.date

LEMMA PairLinks ==
  ASSUME PartnerInv, NEW new, AppendsEvent(new),
         NEW row, AppendsRow(row),
         new.key = row.key,
         new.reversalOf \in 0..Len(event), row.reversalOf \in 0..Len(execution),
         FundedPair(new, row) \/ (new.kind # "funding" /\ new.key \notin FundKeys)
  PROVE  LinksInv'
<1>1. PartnerTyped /\ LinksInv
  BY DEF PartnerInv
<1>2. /\ Len(event) \in Nat
      /\ Len(event) + 1 \in Events' /\ event'[Len(event) + 1] = new
      /\ \A i \in Events' : \/ i \in Events /\ event'[i] = event[i]
                            \/ i = Len(event) + 1 /\ event'[i] = new
      /\ \A i \in Events : i \in Events' /\ event'[i] = event[i]
  BY <1>1, GrownEvents
<1>3. /\ Len(execution) \in Nat
      /\ Len(execution) + 1 \in Rows' /\ execution'[Len(execution) + 1] = row
      /\ \A r \in Rows' : \/ r \in Rows /\ execution'[r] = execution[r]
                          \/ r = Len(execution) + 1 /\ execution'[r] = row
      /\ \A r \in Rows : r \in Rows' /\ execution'[r] = execution[r]
  BY <1>1, GrownRows
<1>4. new.key \in FundKeys => /\ \A r \in Rows : execution[r].key # new.key
                              /\ \A i \in Events : event[i].key # new.key
  BY <1>1 DEF LinksInv, FundedPair, UsedKey, FundingsArePosted
<1>5. ReversalsComeLater'
  BY <1>1, <1>2, <1>3 DEF LinksInv, ReversalsComeLater
<1>6. FundingsHaveFundKeys'
  BY <1>1, <1>2 DEF LinksInv, FundingsHaveFundKeys, FundedPair
<1>7. FundKeysNameEvents'
  BY <1>1, <1>2, <1>4 DEF LinksInv, FundKeysNameEvents
<1>8. FundingsArePosted'
  BY <1>1, <1>2, <1>3 DEF LinksInv, FundingsArePosted
<1>9. PostingsAreFunded'
  BY <1>1, <1>2, <1>3 DEF LinksInv, PostingsAreFunded
<1>10. FundingsMatch'
  BY <1>1, <1>2, <1>3, <1>4 DEF LinksInv, FundingsMatch, FundedPair
<1>11. QED
  BY <1>5, <1>6, <1>7, <1>8, <1>9, <1>10 DEF LinksInv

-----------------------------------------------------------------------------
(* Credits.                                                                *)

EntryAt(i, partner, date) ==
    IF FundingEntry(i) /\ event[i].partner = partner /\ event[i].date <= date
    THEN event[i].entry ELSE 0

CashAt(r, partner, date) ==
    IF PaidBy(r, partner) /\ execution[r].snapshot.date <= date
    THEN execution[r].cash ELSE 0

CreditsTo(partner, date) ==
    SumTo([i \in Events |-> EntryAt(i, partner, date)], Len(event))

CashOf(partner, date) ==
    SumTo([r \in Rows |-> CashAt(r, partner, date)], Len(execution))

LEMMA SumGrows ==
  ASSUME NEW f, NEW g, NEW n \in Nat, \A i \in 1..n : g[i] = f[i]
  PROVE  SumTo(g, n+1) = SumTo(f, n) + g[n+1]
<1>1. SumTo(g, n) = SumTo(f, n)
  <2>1. \A i \in 1..n : g[i] = f[i]
    OBVIOUS
  <2>2. QED
    BY <2>1, SumToAgree
<1>2. n+1 \in Nat /\ n+1 # 0 /\ (n+1)-1 = n
  OBVIOUS
<1>3. SumTo(g, n+1) = IF n+1 = 0 THEN 0 ELSE SumTo(g, (n+1)-1) + g[n+1]
  BY <1>2, SumToStep
<1>4. QED
  BY <1>1, <1>2, <1>3

(* What a new event adds to the credits.                                    *)
LEMMA CreditsGrow ==
  ASSUME PartnerInv, NEW new, AppendsEvent(new),
         new.reversalOf \in 0..Len(event), NEW partner, NEW date
  PROVE  CreditsTo(partner, date)' = CreditsTo(partner, date)
           + (IF /\ \/ new.kind = "funding"
                    \/ new.reversalOf # 0 /\ event[new.reversalOf].kind = "funding"
                 /\ new.partner = partner /\ new.date <= date
              THEN new.entry ELSE 0)
<1> DEFINE n == Len(event)
           f == [i \in Events |-> EntryAt(i, partner, date)]
           g == [i \in 1..(n+1) |->
                   IF /\ \/ event'[i].kind = "funding"
                         \/ /\ event'[i].reversalOf # 0
                            /\ event'[event'[i].reversalOf].kind = "funding"
                      /\ event'[i].partner = partner /\ event'[i].date <= date
                   THEN event'[i].entry ELSE 0]
<1>1. /\ n \in Nat /\ Events = 1..n /\ Events' = 1..(n+1) /\ Len(event') = n+1
      /\ \A i \in Events : event'[i] = event[i]
      /\ event'[n+1] = new
  BY GrownEvents DEF PartnerInv
<1>2. CreditsTo(partner, date)' = SumTo(g, n+1)
  BY <1>1 DEF CreditsTo, EntryAt, FundingEntry
<1>3. \A i \in 1..n : g[i] = f[i]
  <2>1. SUFFICES ASSUME NEW i \in 1..n PROVE g[i] = f[i]
    OBVIOUS
  <2>2. event'[i] = event[i] /\ event[i].reversalOf \in 0..(i-1)
    BY <1>1, <2>1 DEF PartnerInv, LinksInv, ReversalsComeLater
  <2>3. event[i].reversalOf # 0 => event'[event[i].reversalOf] = event[event[i].reversalOf]
    BY <1>1, <2>1, <2>2
  <2>4. QED
    BY <1>1, <2>1, <2>2, <2>3 DEF EntryAt, FundingEntry
<1>4. g[n+1] = IF /\ \/ new.kind = "funding"
                     \/ new.reversalOf # 0 /\ event[new.reversalOf].kind = "funding"
                  /\ new.partner = partner /\ new.date <= date
               THEN new.entry ELSE 0
  <2>1. new.reversalOf # 0 => event'[new.reversalOf] = event[new.reversalOf]
    BY <1>1
  <2>2. QED
    BY <1>1, <2>1
<1>5. CreditsTo(partner, date) = SumTo(f, n)
  BY DEF CreditsTo
<1> HIDE DEF f, g
<1>6. n \in Nat
  BY <1>1
<1> HIDE DEF n
<1>7. SumTo(g, n+1) = SumTo(f, n) + g[n+1]
  BY <1>3, <1>6, SumGrows
<1>8. QED
  BY <1>2, <1>4, <1>5, <1>7

(* Whose payment a row is, said by any event that has its key.              *)
LEMMA PaidByEvent ==
  ASSUME LinksInv, NEW r \in Rows, NEW i \in Events, NEW partner,
         Origin(execution[r]) = event[i].key, event[i].key \in FundKeys
  PROVE  PaidBy(r, partner) <=> event[i].partner = partner
<1> DEFINE j == CHOOSE x \in Events : event[x].key = Origin(execution[r])
<1>1. j \in Events /\ event[j].key = Origin(execution[r])
  OBVIOUS
<1>2. j = i
  BY <1>1 DEF LinksInv, FundKeysNameEvents
<1>3. QED
  BY <1>2 DEF PaidBy, EventOf

LEMMA PaidByEventNext ==
  ASSUME LinksInv', NEW r \in Rows', NEW i \in Events', NEW partner,
         Origin(execution[r])' = event'[i].key, event'[i].key \in FundKeys
  PROVE  PaidBy(r, partner)' <=> event'[i].partner = partner
<1> DEFINE j == CHOOSE x \in Events' : event'[x].key = Origin(execution[r])'
<1>1. j \in Events' /\ event'[j].key = Origin(execution[r])'
  OBVIOUS
<1>2. j = i
  BY <1>1 DEF LinksInv, FundKeysNameEvents
<1>3. QED
  BY <1>2 DEF PaidBy, EventOf

(* The events and rows that there were are still there.                     *)
EventsStay == \A i \in Events : i \in Events' /\ event'[i] = event[i]
RowsStay == \A r \in Rows : r \in Rows' /\ execution'[r] = execution[r]

LEMMA PaidStays ==
  ASSUME PartnerInv, LinksInv', EventsStay, RowsStay, NEW r \in Rows, NEW partner
  PROVE  PaidBy(r, partner)' <=> PaidBy(r, partner)
<1> DEFINE target == execution[r].reversalOf
<1>1. Rows = 1..Len(execution) /\ Len(execution) \in Nat /\ target \in 0..(r-1)
  BY RowsTyped DEF PartnerInv, PartnerTyped, Typed, LinksInv, ReversalsComeLater
<1>2. target # 0 => target \in Rows
  BY <1>1
<1>3. /\ execution'[r] = execution[r]
      /\ target # 0 => execution'[target] = execution[target]
  BY <1>2 DEF RowsStay
<1>4. Origin(execution[r])' = Origin(execution[r])
  BY <1>3 DEF Origin
<1>5. CASE Origin(execution[r]) \notin FundKeys
  BY <1>4, <1>5 DEF PaidBy
<1>6. CASE Origin(execution[r]) \in FundKeys
  <2>1. \E i \in Events : event[i].key = Origin(execution[r])
    BY <1>2, <1>6 DEF PartnerInv, LinksInv, PostingsAreFunded, Origin
  <2>2. PICK i \in Events : event[i].key = Origin(execution[r])
    BY <2>1
  <2>3. PaidBy(r, partner) <=> event[i].partner = partner
    BY <1>6, <2>2, PaidByEvent DEF PartnerInv
  <2>4. i \in Events' /\ event'[i] = event[i] /\ r \in Rows'
    BY DEF EventsStay, RowsStay
  <2>5. Origin(execution[r])' = event'[i].key /\ event'[i].key \in FundKeys
    BY <1>4, <1>6, <2>2, <2>4
  <2>6. PaidBy(r, partner)' <=> event'[i].partner = partner
    BY <2>4, <2>5, PaidByEventNext
  <2>7. QED
    BY <2>3, <2>4, <2>6
<1>7. QED
  BY <1>5, <1>6

LEMMA CreditsStay ==
  ASSUME UNCHANGED event, NEW partner, NEW date
  PROVE  CreditsTo(partner, date)' = CreditsTo(partner, date)
BY DEF CreditsTo, EntryAt, FundingEntry, Events

LEMMA CashStays ==
  ASSUME PartnerInv, LinksInv', EventsStay, UNCHANGED execution, NEW partner, NEW date
  PROVE  CashOf(partner, date)' = CashOf(partner, date)
<1> DEFINE f == [r \in Rows |-> CashAt(r, partner, date)]
           g == [r \in Rows' |-> CashAt(r, partner, date)']
<1>1. Rows' = Rows /\ Rows = 1..Len(execution) /\ Len(execution) \in Nat
  BY RowsTyped DEF PartnerInv, PartnerTyped, Typed, Rows
<1>2. RowsStay
  BY <1>1 DEF RowsStay
<1>3. \A r \in 1..Len(execution) : g[r] = f[r]
  <2>1. SUFFICES ASSUME NEW r \in Rows PROVE CashAt(r, partner, date)' = CashAt(r, partner, date)
    BY <1>1
  <2>2. PaidBy(r, partner)' <=> PaidBy(r, partner)
    BY <1>2, PaidStays
  <2>3. QED
    BY <2>2 DEF CashAt
<1>4. CashOf(partner, date)' = SumTo(g, Len(execution)) /\ CashOf(partner, date) = SumTo(f, Len(execution))
  BY DEF CashOf
<1> HIDE DEF f, g
<1>5. QED
  BY <1>1, <1>3, <1>4, SumToAgree

LEMMA CashGrows ==
  ASSUME PartnerInv, LinksInv', EventsStay, NEW row, AppendsRow(row), NEW partner, NEW date,
         NEW n \in Nat, n = Len(execution)
  PROVE  CashOf(partner, date)' = CashOf(partner, date) + CashAt(n+1, partner, date)'
<1> DEFINE f == [r \in Rows |-> CashAt(r, partner, date)]
           g == [r \in Rows' |-> CashAt(r, partner, date)']
<1>1. Rows = 1..n /\ Rows' = 1..(n+1) /\ Len(execution') = n+1 /\ RowsStay
  BY GrownRows DEF PartnerInv, RowsStay
<1>2. \A r \in 1..n : g[r] = f[r]
  <2>1. SUFFICES ASSUME NEW r \in Rows PROVE CashAt(r, partner, date)' = CashAt(r, partner, date)
    BY <1>1
  <2>2. PaidBy(r, partner)' <=> PaidBy(r, partner)
    BY <1>1, PaidStays
  <2>3. execution'[r] = execution[r]
    BY <1>1 DEF RowsStay
  <2>4. QED
    BY <2>2, <2>3 DEF CashAt
<1>3. g[n+1] = CashAt(n+1, partner, date)'
  BY <1>1
<1>4. CashOf(partner, date)' = SumTo(g, n+1) /\ CashOf(partner, date) = SumTo(f, n)
  BY <1>1 DEF CashOf
<1> HIDE DEF f, g
<1>5. SumTo(g, n+1) = SumTo(f, n) + g[n+1]
  BY <1>2, SumGrows
<1>6. QED
  BY <1>3, <1>4, <1>5

-----------------------------------------------------------------------------
(* Each kind of step keeps the links and the balance of the two sums.       *)

Balanced == \A partner \in Partners, date \in Dates : CreditsTo(partner, date) = CashOf(partner, date)

LEMMA SumsAreInt ==
  ASSUME PartnerTyped, NEW partner, NEW date
  PROVE  CreditsTo(partner, date) \in Int /\ CashOf(partner, date) \in Int
<1> DEFINE f == [i \in Events |-> EntryAt(i, partner, date)]
           g == [r \in Rows |-> CashAt(r, partner, date)]
<1>1. Len(event) \in Nat /\ \A i \in 1..Len(event) : f[i] \in Int
  BY EventsTyped DEF EntryAt, PartnerTyped
<1>2. Len(execution) \in Nat /\ \A r \in 1..Len(execution) : g[r] \in Int
  BY RowsTyped DEF CashAt, PartnerTyped, Typed
<1> HIDE DEF f, g
<1>3. SumTo(f, Len(event)) \in Int /\ SumTo(g, Len(execution)) \in Int
  BY <1>1, <1>2, SumToInt
<1>4. QED
  BY <1>3 DEF CreditsTo, CashOf, f, g

LEMMA QuietStep ==
  ASSUME PartnerInv, Balanced, UNCHANGED <<event, execution>>
  PROVE  LinksInv' /\ Balanced'
<1>1. LinksInv' /\ EventsStay
  BY DEF PartnerInv, LinksInv, ReversalsComeLater, FundingsHaveFundKeys, FundKeysNameEvents,
     FundingsArePosted, PostingsAreFunded, FundingsMatch, Events, Rows, EventsStay
<1>2. \A partner \in Partners, date \in Dates :
         /\ CreditsTo(partner, date)' = CreditsTo(partner, date)
         /\ CashOf(partner, date)' = CashOf(partner, date)
  BY <1>1, CreditsStay, CashStays
<1>3. QED
  BY <1>1, <1>2 DEF Balanced

(* The company's own cash adds to neither sum.                              *)
LEMMA OwnRowStep ==
  ASSUME PartnerInv, Balanced, NEW row, AppendsRow(row), UNCHANGED event,
         row.key \notin FundKeys, row.reversalOf \in 0..Len(execution),
         row.reversalOf # 0 => execution[row.reversalOf].key \notin FundKeys
  PROVE  LinksInv' /\ Balanced'
<1>1. LinksInv' /\ EventsStay
  BY RowLinks DEF EventsStay, Events
<1>2. PICK n \in Nat : n = Len(execution)
  BY GrownRows DEF PartnerInv
<1>3. /\ execution'[n+1] = row
      /\ row.reversalOf # 0 => execution'[row.reversalOf] = execution[row.reversalOf]
  BY <1>2, GrownRows DEF PartnerInv
<1>4. Origin(execution[n+1])' \notin FundKeys
  BY <1>3 DEF Origin
<1>5. \A partner, date : CashAt(n+1, partner, date)' = 0
  BY <1>4 DEF CashAt, PaidBy
<1>6. \A partner \in Partners, date \in Dates :
         /\ CreditsTo(partner, date)' = CreditsTo(partner, date)
         /\ CashOf(partner, date)' = CashOf(partner, date) + CashAt(n+1, partner, date)'
  BY <1>1, <1>2, CreditsStay, CashGrows
<1>7. \A partner \in Partners, date \in Dates : CashOf(partner, date) \in Int
  BY SumsAreInt DEF PartnerInv
<1>8. QED
  BY <1>1, <1>5, <1>6, <1>7 DEF Balanced

(* Reimbursements and their reversals add to neither sum.                   *)
LEMMA ReimbursementStep ==
  ASSUME PartnerInv, Balanced, NEW new, AppendsEvent(new), UNCHANGED execution,
         new.key \notin FundKeys, new.kind # "funding", new.reversalOf \in 0..Len(event),
         new.reversalOf # 0 => event[new.reversalOf].kind # "funding"
  PROVE  LinksInv' /\ Balanced'
<1>1. LinksInv' /\ EventsStay
  BY EventLinks, GrownEvents DEF EventsStay, PartnerInv
<1>2. \A partner \in Partners, date \in Dates :
         /\ CreditsTo(partner, date)' = CreditsTo(partner, date) + 0
         /\ CashOf(partner, date)' = CashOf(partner, date)
  BY <1>1, CreditsGrow, CashStays
<1>3. \A partner \in Partners, date \in Dates : CreditsTo(partner, date) \in Int
  BY SumsAreInt DEF PartnerInv
<1>4. QED
  BY <1>1, <1>2, <1>3 DEF Balanced

(* An event and its row, for the same partner and date and the same amount, *)
(* add the same to both sums.                                               *)
LEMMA PairStep ==
  ASSUME PartnerInv, Balanced, LinksInv',
         NEW new, AppendsEvent(new), NEW row, AppendsRow(row),
         new.reversalOf \in 0..Len(event),
         new.kind = "funding" \/ (new.reversalOf # 0 /\ event[new.reversalOf].kind = "funding"),
         row.snapshot.date = new.date, row.cash = new.entry,
         NEW n \in Nat, n = Len(execution),
         \A partner : PaidBy(n+1, partner)' <=> new.partner = partner
  PROVE  Balanced'
<1>1. EventsStay
  BY GrownEvents DEF EventsStay, PartnerInv
<1>2. n = Len(execution)
  OBVIOUS
<1>3. execution'[n+1] = row /\ Len(execution') = n+1
  BY <1>2, GrownRows DEF PartnerInv
<1>4. ASSUME NEW partner \in Partners, NEW date \in Dates
      PROVE  CashAt(n+1, partner, date)'
               = IF new.partner = partner /\ new.date <= date THEN new.entry ELSE 0
  <2>1. PaidBy(n+1, partner)' <=> new.partner = partner
    BY <1>3
  <2>2. QED
    BY <1>3, <2>1 DEF CashAt
<1>5. ASSUME NEW partner \in Partners, NEW date \in Dates
      PROVE  CreditsTo(partner, date)' = CreditsTo(partner, date)
               + (IF new.partner = partner /\ new.date <= date THEN new.entry ELSE 0)
  BY CreditsGrow
<1>6. \A partner \in Partners, date \in Dates :
         CashOf(partner, date)' = CashOf(partner, date) + CashAt(n+1, partner, date)'
  BY <1>1, <1>2, CashGrows
<1>7. ASSUME NEW partner \in Partners, NEW date \in Dates
      PROVE  CreditsTo(partner, date)' = CashOf(partner, date)'
  BY <1>4, <1>5, <1>6 DEF Balanced
<1>8. QED
  BY <1>7 DEF Balanced

LEMMA FundedPostStep ==
  ASSUME PartnerInv, Balanced, NEW s \in Cashiers, FundedPost(s)
  PROVE  LinksInv' /\ Balanced'
<1> DEFINE row == [key |-> key[s], snapshot |-> preview[s], cash |-> preview[s].amount,
                   signed |-> Slices(walk[s]), reversalOf |-> 0]
           new == [key |-> key[s], kind |-> "funding", partner |-> funder[s],
                   date |-> preview[s].date, entry |-> preview[s].amount,
                   snapshot |-> preview[s], shown |-> shown[s], reversalOf |-> 0]
<1>1. AppendsEvent(new) /\ AppendsRow(row) /\ ~UsedKey(key[s])
  BY DEF FundedPost, AppendsEvent, AppendsRow
<1>2. key[s] \in FundKeys
  BY DEF FundedPost, PartnerInv, CallsFit, CallsAreFunded
<1>3. /\ FundedPair(new, row) /\ new.key = row.key /\ new.key \in FundKeys
      /\ new.kind = "funding" /\ new.reversalOf = 0 /\ row.reversalOf = 0
      /\ row.snapshot.date = new.date /\ row.cash = new.entry
  BY <1>1, <1>2 DEF FundedPair
<1> HIDE DEF row, new
<1>4. /\ Len(event) \in Nat /\ Len(event) + 1 \in Events' /\ event'[Len(event) + 1] = new
      /\ Len(execution) \in Nat /\ Len(execution') = Len(execution) + 1
      /\ Len(execution) + 1 \in Rows' /\ execution'[Len(execution) + 1] = row
  BY <1>1, GrownEvents, GrownRows DEF PartnerInv
<1>5. LinksInv'
  BY <1>1, <1>3, <1>4, PairLinks
<1>8. PICK n \in Nat : n = Len(execution)
  BY <1>4
<1>6. \A partner : PaidBy(n+1, partner)' <=> new.partner = partner
  <2>1. PICK r \in Rows' : r = n+1
    BY <1>4, <1>8
  <2>2. PICK i \in Events' : event'[i] = new
    BY <1>4
  <2>3. Origin(execution[r])' = event'[i].key /\ event'[i].key \in FundKeys
    BY <1>3, <1>4, <1>8, <2>1, <2>2 DEF Origin
  <2>4. \A partner : PaidBy(r, partner)' <=> event'[i].partner = partner
    BY <1>5, <2>3, PaidByEventNext
  <2>5. QED
    BY <2>1, <2>2, <2>4
<1>7. QED
  BY <1>1, <1>3, <1>4, <1>5, <1>6, <1>8, PairStep

LEMMA UndoFundingStep ==
  ASSUME PartnerInv, Balanced, NEW i \in Events, NEW k \in UndoKeys, UndoEvent(i, k),
         UndoFunding(i, k)
  PROVE  LinksInv' /\ Balanced'
<1> DEFINE v == RowOf(event[i].key)
           row == [key |-> k, snapshot |-> execution[v].snapshot,
                   cash |-> -execution[v].cash,
                   signed |-> [l \in Lines |-> -execution[v].signed[l]], reversalOf |-> v]
           new == [key |-> k, kind |-> "reversal", partner |-> event[i].partner,
                   date |-> event[i].date, entry |-> -event[i].entry,
                   snapshot |-> event[i].snapshot, shown |-> event[i].shown, reversalOf |-> i]
<1>1. AppendsEvent(new) /\ AppendsRow(row) /\ event[i].kind = "funding"
  BY DEF UndoEvent, UndoFunding, AppendsEvent, AppendsRow
<1>2. /\ event[i].key \in FundKeys /\ v \in Rows /\ execution[v].key = event[i].key
  BY <1>1, FundedRowFound
<1>3. k \notin FundKeys
  BY PartnerAssumption
<1>4. /\ execution[v].reversalOf = 0 /\ execution[v].cash = event[i].entry
      /\ execution[v].snapshot.date = event[i].date
  BY <1>2 DEF PartnerInv, LinksInv, FundingsMatch
<1> HIDE DEF v
<1>5. /\ new.key = k /\ row.key = k /\ new.kind # "funding"
      /\ new.reversalOf = i /\ row.reversalOf = v
      /\ row.snapshot.date = new.date /\ row.cash = new.entry
      /\ new.partner = event[i].partner
  BY <1>4
<1> HIDE DEF row, new
<1>6. /\ Len(event) \in Nat /\ Events = 1..Len(event) /\ i \in Events' /\ event'[i] = event[i]
      /\ Len(execution) \in Nat /\ Rows = 1..Len(execution)
      /\ Len(execution') = Len(execution) + 1
      /\ Len(execution) + 1 \in Rows' /\ execution'[Len(execution) + 1] = row
      /\ execution'[v] = execution[v]
  BY <1>1, <1>2, GrownEvents, GrownRows DEF PartnerInv
<1>7. /\ new.reversalOf \in 0..Len(event) /\ new.reversalOf # 0
      /\ row.reversalOf \in 0..Len(execution) /\ row.reversalOf # 0
  BY <1>2, <1>5, <1>6
<1>8. LinksInv'
  BY <1>1, <1>3, <1>5, <1>7, PairLinks
<1>11. PICK n \in Nat : n = Len(execution)
  BY <1>6
<1>9. \A partner : PaidBy(n+1, partner)' <=> new.partner = partner
  <2>1. PICK r \in Rows' : r = n+1
    BY <1>6, <1>11
  <2>2. Origin(execution[r])' = event'[i].key /\ event'[i].key \in FundKeys
    BY <1>2, <1>5, <1>6, <1>7, <1>11, <2>1 DEF Origin
  <2>3. \A partner : PaidBy(r, partner)' <=> event'[i].partner = partner
    BY <1>6, <1>8, <2>2, PaidByEventNext
  <2>4. QED
    BY <1>5, <1>6, <2>1, <2>3
<1>10. QED
  BY <1>1, <1>5, <1>7, <1>8, <1>9, <1>11, PairStep

LEMMA BalancedStep ==
  ASSUME PartnerInv, Balanced, [PartnerNext]_allVars
  PROVE  LinksInv' /\ Balanced'
<1>1. CASE UNCHANGED <<event, execution>>
  BY <1>1, QuietStep
<1>2. ASSUME NEW s \in Cashiers, ExecutePost(s), ~Funded(s), UNCHANGED partnerVars
      PROVE  LinksInv' /\ Balanced'
  <2> DEFINE row == [key |-> key[s], snapshot |-> preview[s], cash |-> preview[s].amount,
                     signed |-> Slices(preview[s]), reversalOf |-> 0]
  <2>1. AppendsRow(row) /\ UNCHANGED event
    BY <1>2 DEF ExecutePost, AppendsRow, partnerVars
  <2>2. key[s] \notin FundKeys
    BY <1>2 DEF ExecutePost, PartnerInv, CallsFit, CallsAreFunded
  <2>3. Len(execution) \in Nat
    BY RowsTyped DEF PartnerInv, PartnerTyped, Typed
  <2>4. row.key \notin FundKeys /\ row.reversalOf = 0
    BY <2>2
  <2> HIDE DEF row
  <2>5. row.reversalOf \in 0..Len(execution)
    BY <2>3, <2>4
  <2>6. QED
    BY <2>1, <2>4, <2>5, OwnRowStep
<1>3. ASSUME NEW i \in Rows, NEW k \in ReversalKeys \ UndoKeys, ReverseOwn(i, k)
      PROVE  LinksInv' /\ Balanced'
  <2> DEFINE row == [key |-> k, snapshot |-> execution[i].snapshot, cash |-> -execution[i].cash,
                     signed |-> [l \in Lines |-> -execution[i].signed[l]], reversalOf |-> i]
  <2>1. AppendsRow(row) /\ UNCHANGED event
    BY <1>3 DEF ReverseOwn, Reverse, AppendsRow, partnerVars
  <2>2. k \notin FundKeys /\ execution[i].key \notin FundKeys
    BY <1>3, PartnerAssumption DEF ReverseOwn, FundedRow
  <2>3. i \in 0..Len(execution)
    BY RowsTyped DEF PartnerInv, PartnerTyped, Typed
  <2>4. row.key \notin FundKeys /\ row.reversalOf = i
    BY <2>2
  <2> HIDE DEF row
  <2>5. /\ row.reversalOf \in 0..Len(execution)
        /\ row.reversalOf # 0 => execution[row.reversalOf].key \notin FundKeys
    BY <2>2, <2>3, <2>4
  <2>6. QED
    BY <2>1, <2>4, <2>5, OwnRowStep
<1>4. ASSUME NEW t \in Payers, ReimbursePost(t)
      PROVE  LinksInv' /\ Balanced'
  <2> DEFINE c == reimbursing[t]
             new == [key |-> c.key, kind |-> "reimbursement", partner |-> c.partner,
                     date |-> c.date, entry |-> -c.amount, snapshot |-> NoRow,
                     shown |-> c.shown, reversalOf |-> 0]
  <2>1. AppendsEvent(new) /\ UNCHANGED execution /\ c # NoRow
    BY <1>4 DEF ReimbursePost, AppendsEvent, vars, cashVars
  <2>2. c.key \notin FundKeys
    <3>1. c \in Reimbursement
      BY <2>1 DEF PartnerInv, PartnerTyped, PartnerTypeOK
    <3> HIDE DEF c
    <3>2. c.key \in ReimburseKeys
      BY <3>1 DEF Reimbursement
    <3>3. QED
      BY <3>2, PartnerAssumption
  <2>3. Len(event) \in Nat
    BY EventsTyped DEF PartnerInv, PartnerTyped
  <2>4. new.key \notin FundKeys /\ new.kind # "funding" /\ new.reversalOf = 0
    BY <2>2
  <2> HIDE DEF new
  <2>5. new.reversalOf \in 0..Len(event)
    BY <2>3, <2>4
  <2>6. QED
    BY <2>1, <2>4, <2>5, ReimbursementStep
<1>5. ASSUME NEW i \in Events, NEW k \in UndoKeys, UndoEvent(i, k), UndoReimbursement(i)
      PROVE  LinksInv' /\ Balanced'
  <2> DEFINE new == [key |-> k, kind |-> "reversal", partner |-> event[i].partner,
                     date |-> event[i].date, entry |-> -event[i].entry,
                     snapshot |-> event[i].snapshot, shown |-> event[i].shown,
                     reversalOf |-> i]
  <2>1. AppendsEvent(new) /\ UNCHANGED execution /\ event[i].kind = "reimbursement"
    BY <1>5 DEF UndoEvent, UndoReimbursement, AppendsEvent
  <2>2. k \notin FundKeys
    BY PartnerAssumption
  <2>3. i \in 0..Len(event)
    BY EventsTyped DEF PartnerInv, PartnerTyped
  <2>4. new.key \notin FundKeys /\ new.kind # "funding" /\ new.reversalOf = i
    BY <2>2
  <2> HIDE DEF new
  <2>5. /\ new.reversalOf \in 0..Len(event)
        /\ new.reversalOf # 0 => event[new.reversalOf].kind # "funding"
    BY <2>1, <2>3, <2>4
  <2>6. QED
    BY <2>1, <2>4, <2>5, ReimbursementStep
<1>6. ASSUME NEW i \in Events, NEW k \in UndoKeys, UndoEvent(i, k)
      PROVE  LinksInv' /\ Balanced'
  BY <1>5, <1>6, UndoFundingStep DEF UndoEvent
<1>7. ASSUME NEW s \in Cashiers, FundedStep(s) PROVE LinksInv' /\ Balanced'
  <2>1. CASE FundedPost(s)
    BY <2>1, FundedPostStep
  <2>2. ASSUME NEW e \in Entities, NEW partner \in Partners, NEW a \in Amounts,
               NEW d \in Dates, FundedPreview(s, e, partner, a, d)
        PROVE  UNCHANGED <<event, execution>>
    BY <2>2 DEF FundedPreview, Preview
  <2>3. ASSUME NEW k \in FundKeys, FundedCall(s, k) PROVE UNCHANGED <<event, execution>>
    BY <2>3 DEF FundedCall, ExecuteCall, partnerVars
  <2>4. CASE FundedLock(s) \/ FundedReplay(s) \/ FundedRefuse(s) \/ FundedAccept(s)
    BY <1>1, <2>4 DEF FundedLock, FundedReplay, FundedRefuse, FundedAccept, ExecuteLock,
       ExecuteAccept, partnerVars
  <2>5. CASE FundedWalk(s) \/ FundedFail(s) \/ FundedAbort(s)
    BY <1>1, <2>5 DEF FundedWalk, FundedFail, FundedAbort, ExecuteAbort, vars, cashVars
  <2>6. QED
    BY <1>1, <1>7, <2>1, <2>2, <2>3, <2>4, <2>5 DEF FundedStep
<1>8. ASSUME NEW s \in Cashiers, OwnStep(s) PROVE LinksInv' /\ Balanced'
  <2>1. CASE OwnPreview(s)
    BY <1>1, <2>1 DEF OwnPreview, Preview
  <2>2. CASE UNCHANGED <<execution, partnerVars>>
    BY <1>1, <2>2 DEF partnerVars
  <2>3. ASSUME \/ \E k \in ExecKeys \ FundKeys : ExecuteCall(s, k)
               \/ ExecuteLock(s) \/ ExecuteReplay(s) \/ ExecuteRefuse(s)
               \/ ExecuteAccept(s) \/ ExecuteFail(s) \/ ExecuteAbort(s)
        PROVE  UNCHANGED execution
    BY <2>3 DEF ExecuteCall, ExecuteLock, ExecuteReplay, ExecuteRefuse, ExecuteAccept,
       ExecuteFail, ExecuteAbort
  <2>4. QED
    BY <1>2, <1>8, <2>1, <2>2, <2>3 DEF OwnStep
<1>9. CASE ObligationsNext /\ UNCHANGED <<cashVars, partnerVars>>
  BY <1>1, <1>9 DEF cashVars, partnerVars
<1>10. ASSUME NEW t \in Payers, NEW partner \in Partners, NEW a \in Amounts, NEW d \in Dates,
              NEW k \in ReimburseKeys, ReimburseCheck(t, partner, a, d, k)
       PROVE  LinksInv' /\ Balanced'
  BY <1>1, <1>10 DEF ReimburseCheck, vars, cashVars
<1>11. ASSUME NEW t \in Payers, ReimburseAbort(t) PROVE LinksInv' /\ Balanced'
  BY <1>1, <1>11 DEF ReimburseAbort, vars, cashVars
<1>12. CASE UNCHANGED allVars
  BY <1>1, <1>12 DEF allVars, vars, cashVars, partnerVars
<1>13. QED
  BY <1>3, <1>4, <1>6, <1>7, <1>8, <1>9, <1>10, <1>11, <1>12 DEF PartnerNext, PartnerStep

-----------------------------------------------------------------------------
(* The theorems.                                                           *)

LEMMA PartnerStepInv ==
  PartnerInv /\ Balanced /\ [PartnerNext]_allVars => PartnerInv' /\ Balanced'
<1> SUFFICES ASSUME PartnerInv, Balanced, [PartnerNext]_allVars
             PROVE  PartnerInv' /\ Balanced'
  OBVIOUS
<1>1. PartnerTyped'
  BY TypedAlways, PartnerTypeStep DEF PartnerTyped
<1>2. CallsFit' /\ LinksInv' /\ Balanced'
  BY CallsStep, BalancedStep
<1>3. QED
  BY <1>1, <1>2 DEF PartnerInv

LEMMA PartnerInitInv == Init /\ PartnerInit => PartnerInv /\ Balanced
<1> SUFFICES ASSUME Init, PartnerInit PROVE PartnerInv /\ Balanced
  OBVIOUS
<1>1. PartnerTyped
  BY InitTyped DEF PartnerInit, PartnerTyped, PartnerTypeOK
<1>2. /\ Rows = {} /\ Len(execution) = 0
      /\ Events = {} /\ Len(event) = 0
  BY DEF Init, CashInit, PartnerInit, Rows, Events
<1>3. CallsFit
  BY DEF Init, CashInit, PartnerInit, CallsFit, CallsAreFunded, WalksAreOfPostings
<1>4. LinksInv
  BY <1>2 DEF LinksInv, ReversalsComeLater, FundingsHaveFundKeys, FundKeysNameEvents,
     FundingsArePosted, PostingsAreFunded, FundingsMatch
<1>5. \A f : SumTo(f, 0) = 0
  BY SumToStep
<1>6. Balanced
  BY <1>2, <1>5 DEF Balanced, CreditsTo, CashOf
<1>7. QED
  BY <1>1, <1>3, <1>4, <1>6 DEF PartnerInv

(* Every reachable state has its type, partners included.                  *)
THEOREM PartnerTypeCorrect == PartnerSpec => []PartnerTypeOK
<1>1. PartnerInv => PartnerTypeOK
  BY DEF PartnerInv, PartnerTyped
<1>2. QED
  BY <1>1, PartnerInitInv, PartnerStepInv, PTL DEF PartnerSpec

(* What a partner is credited for his payments is the cash that the rows   *)
(* of the clients' ledger say he paid, on every date.                      *)
THEOREM CreditsMatchFundedCash == PartnerSpec => []CreditsAreFundedCash
<1>1. Balanced => CreditsAreFundedCash
  BY DEF Balanced, CreditsAreFundedCash, CreditsTo, CashOf, EntryAt, CashAt
<1>2. QED
  BY <1>1, PartnerInitInv, PartnerStepInv, PTL DEF PartnerSpec

-----------------------------------------------------------------------------
(* Slices.  A funded posting writes those of the walk it read again, not   *)
(* of the preview that was checked.                                        *)

LEMMA RowAddsUp ==
  ASSUME PartnerTyped, SlicesAreTheCash, NEW row, AppendsRow(row),
         SumTo(row.signed, NumLines) = Sign(row.snapshot.direction) * row.cash
  PROVE  SlicesAreTheCash'
<1>1. \A r \in Rows' : \/ r \in Rows /\ execution'[r] = execution[r]
                       \/ execution'[r] = row
  BY GrownRows
<1>2. QED
  BY <1>1 DEF SlicesAreTheCash

LEMMA SlicesStep ==
  ASSUME PartnerInv, SlicesAreTheCash, PostingSettles, [PartnerNext]_allVars
  PROVE  SlicesAreTheCash' /\ PostingSettles'
<1>1. PartnerTyped /\ Typed
  BY DEF PartnerInv, PartnerTyped
<1>2. ASSUME NEW s \in Cashiers, NEW row, EndCall(s, row) PROVE PostingSettles'
  BY <1>1, <1>2 DEF EndCall, PostingSettles, Typed, TypeOK, Settles, OpenAmounts
<1>3. CASE UNCHANGED execution /\ PostingSettles'
  BY <1>3 DEF SlicesAreTheCash, Rows
<1>4. CASE [Next]_vars
  <2>1. PostingSettles'
    BY <1>1, <1>4, SettlesAtPosting
  <2>2. ASSUME NEW s \in Cashiers, ExecutePost(s) PROVE SlicesAreTheCash'
    <3> DEFINE p == preview[s]
               row == [key |-> key[s], snapshot |-> p, cash |-> p.amount,
                       signed |-> Slices(p), reversalOf |-> 0]
    <3>1. /\ AppendsRow(row) /\ p \in Snapshot
          /\ Unapplied(OpenAmounts(p), p.amount, NumLines) = 0
      BY <1>1, <2>2, SubmittedType DEF ExecutePost, AppendsRow, PostingSettles, Settles
    <3>2. SumTo(row.signed, NumLines) = Sign(row.snapshot.direction) * row.cash
      BY <3>1, SettledSlices
    <3> HIDE DEF row, p
    <3>3. QED
      BY <1>1, <3>1, <3>2, RowAddsUp
  <2>3. ASSUME NEW v \in Rows, NEW k \in ReversalKeys, Reverse(v, k) PROVE SlicesAreTheCash'
    <3> DEFINE row == [key |-> k, snapshot |-> execution[v].snapshot,
                       cash |-> -execution[v].cash,
                       signed |-> [l \in Lines |-> -execution[v].signed[l]],
                       reversalOf |-> v]
    <3>1. AppendsRow(row)
      BY <2>3 DEF Reverse, AppendsRow
    <3>2. SumTo(row.signed, NumLines) = Sign(row.snapshot.direction) * row.cash
      BY <1>1, MirroredSlices
    <3> HIDE DEF row
    <3>3. QED
      BY <1>1, <3>1, <3>2, RowAddsUp
  <2>4. UNCHANGED execution \/ (\E s \in Cashiers : ExecutePost(s))
           \/ (\E v \in Rows, k \in ReversalKeys : Reverse(v, k))
    <3>1. ASSUME NEW s \in Cashiers, CashierStep(s), execution' # execution
          PROVE  ExecutePost(s)
      BY <3>1 DEF CashierStep, Preview, ExecuteCall, ExecuteLock, ExecuteReplay,
         ExecuteRefuse, ExecuteAccept, ExecuteFail, ExecuteAbort
    <3>2. QED
      BY <1>4, <3>1 DEF Next, vars, cashVars
  <2>5. QED
    BY <1>3, <2>1, <2>2, <2>3, <2>4
<1>5. ASSUME NEW s \in Cashiers, FundedReplay(s) \/ FundedRefuse(s) \/ FundedFail(s)
      PROVE  SlicesAreTheCash' /\ PostingSettles'
  <2>1. UNCHANGED execution /\ \E row : EndCall(s, row)
    BY <1>5 DEF FundedReplay, FundedRefuse, FundedFail
  <2>2. QED
    BY <1>2, <1>3, <2>1
<1>6. ASSUME NEW s \in Cashiers, FundedPost(s) PROVE SlicesAreTheCash' /\ PostingSettles'
  <2> DEFINE w == walk[s]
             row == [key |-> key[s], snapshot |-> preview[s], cash |-> preview[s].amount,
                     signed |-> Slices(w), reversalOf |-> 0]
  <2>1. /\ AppendsRow(row) /\ EndCall(s, Len(execution) + 1)
        /\ Unapplied(OpenAmounts(w), w.amount, NumLines) = 0
        /\ w # NoRow
    BY <1>6 DEF FundedPost, FullyWalked, AppendsRow
  <2>2. /\ w \in Snapshot
        /\ w.amount = preview[s].amount /\ w.direction = preview[s].direction
    BY <2>1 DEF PartnerInv, PartnerTyped, PartnerTypeOK, CallsFit, WalksAreOfPostings
  <2> HIDE DEF w
  <2>3. SumTo(row.signed, NumLines) = Sign(row.snapshot.direction) * row.cash
    BY <2>1, <2>2, SettledSlices
  <2> HIDE DEF row
  <2>4. QED
    BY <1>1, <1>2, <2>1, <2>3, RowAddsUp
<1>7. ASSUME NEW i \in Events, NEW k \in UndoKeys, UndoEvent(i, k)
      PROVE  SlicesAreTheCash' /\ PostingSettles'
  <2>1. PostingSettles'
    BY <1>7 DEF UndoEvent, PostingSettles, Settles, OpenAmounts
  <2>2. CASE UndoReimbursement(i)
    BY <1>3, <2>1, <2>2 DEF UndoReimbursement
  <2>3. CASE UndoFunding(i, k)
    <3> DEFINE v == RowOf(event[i].key)
               row == [key |-> k, snapshot |-> execution[v].snapshot,
                       cash |-> -execution[v].cash,
                       signed |-> [l \in Lines |-> -execution[v].signed[l]],
                       reversalOf |-> v]
    <3>1. v \in Rows /\ AppendsRow(row)
      BY <2>3, FundedRowFound DEF UndoFunding, AppendsRow
    <3> HIDE DEF v
    <3>2. SumTo(row.signed, NumLines) = Sign(row.snapshot.direction) * row.cash
      BY <1>1, <3>1, MirroredSlices
    <3> HIDE DEF row
    <3>3. QED
      BY <1>1, <2>1, <3>1, <3>2, RowAddsUp
  <2>4. QED
    BY <1>7, <2>2, <2>3 DEF UndoEvent
<1>8. QED
  BY <1>4, <1>5, <1>6, <1>7, CashSteps DEF FundedEnd

(* The slices of every row add up to the cash it moves, though the slices  *)
(* of a partner's payment are read after its amount was checked and a      *)
(* reversal may have changed them in between.                              *)
THEOREM FundedSlicesAddUpToCash == PartnerSpec => []SlicesAreTheCash
<1>1. Init /\ PartnerInit => SlicesAreTheCash /\ PostingSettles
  <2>1. Init => Rows = {} /\ PostingSettles
    BY DEF Init, CashInit, Rows, PostingSettles
  <2>2. QED
    BY <2>1 DEF SlicesAreTheCash
<1>2. PartnerInv /\ SlicesAreTheCash /\ PostingSettles /\ [PartnerNext]_allVars
        => SlicesAreTheCash' /\ PostingSettles'
  BY SlicesStep
<1>3. QED
  BY <1>1, <1>2, PartnerInitInv, PartnerStepInv, PTL DEF PartnerSpec

-----------------------------------------------------------------------------
(* No obligation is overpaid.  Inv, which says so for ClientCashSettlement, *)
(* does not hold here: a reversal of a partner's payment waits for no lock  *)
(* of the client, so what is posted need not be what remains.  It is never *)
(* more than what remains, because such a reversal only gives back.         *)

PostingsFit ==
    \A s \in Cashiers, l \in Lines :
        step[s] = "posting" /\ preview[s].remaining[l] # 0
           => Within(Remaining(l), preview[s].remaining[l])

WalksFit ==
    \A s \in Cashiers : walk[s] # NoRow =>
        /\ walk[s].entity = preview[s].entity
        /\ \A l \in Lines : walk[s].remaining[l] # 0 =>
              /\ EntityOf[HeaderOf[l]] = preview[s].entity
              /\ Within(Remaining(l), walk[s].remaining[l])

(* The row of a funded payment is reversed together with its event.         *)
ReversalsAreOfEvents ==
    \A i \in Events, r \in Rows :
        event[i].key = execution[r].key /\ event[i].key \in FundKeys /\ IsReversed(r)
           => EventReversed(i)

MoneyCalls == PreviewsStayWithClient /\ OneHolder /\ PostingsFit /\ WalksFit

MoneyInv == RowsInv /\ MoneyCalls /\ ReversalsAreOfEvents

LEMMA RemainingInt ==
  ASSUME Typed, NEW l \in Lines
  PROVE  Remaining(l) \in Int /\ Within(Remaining(l), Remaining(l))
<1>1. Remaining(l) \in Int
  BY AllocatedInt, LineAssumption DEF Typed, Remaining, NettedRemaining
<1>2. QED
  BY <1>1 DEF Within

LEMMA CallTypes ==
  ASSUME PartnerInv
  PROVE  /\ step \in [Cashiers -> {"idle", "waiting", "locking", "posting"}]
         /\ preview \in [Cashiers -> Snapshot \cup {NoRow}]
         /\ walk \in [Cashiers -> Snapshot \cup {NoRow}]
         /\ \A s \in Cashiers : step[s] # "idle" => preview[s] \in Snapshot /\ preview[s] # NoRow
         /\ \A s \in Cashiers : walk[s] # NoRow => step[s] = "posting"
BY DEF PartnerInv, PartnerTyped, PartnerTypeOK, Typed, TypeOK, CallsSubmit, CallsFit,
   WalksAreOfPostings

LEMMA StillMoney ==
  ASSUME MoneyCalls, UNCHANGED <<execution, step, preview, walk>>
  PROVE  MoneyCalls'
<1>1. PreviewsStayWithClient' /\ OneHolder'
  BY DEF MoneyCalls, PreviewsStayWithClient, OneHolder
<1>2. PostingsFit'
  BY QuietRemaining DEF MoneyCalls, PostingsFit
<1>3. WalksFit'
  BY QuietRemaining DEF MoneyCalls, WalksFit
<1>4. QED
  BY <1>1, <1>2, <1>3 DEF MoneyCalls

LEMMA PreviewMoney ==
  ASSUME PartnerInv, MoneyCalls, NEW s \in Cashiers, NEW e \in Entities,
         NEW d \in Directions, NEW a \in Amounts, NEW date \in Dates,
         Preview(s, e, d, a, date), UNCHANGED walk
  PROVE  MoneyCalls'
<1> DEFINE now == SnapshotNow(e, d, a, date)
<1>1. /\ step' = step /\ step[s] = "idle" /\ UNCHANGED execution
      /\ preview' = [preview EXCEPT ![s] = now]
  BY DEF Preview
<1>2. /\ now.entity = e
      /\ \A l \in Lines : now.remaining[l] # 0 => EntityOf[HeaderOf[l]] = e
  BY SnapshotShows, SnapshotEntity
<1> HIDE DEF now
<1>3. /\ preview'[s] = now
      /\ \A u \in Cashiers : u # s => preview'[u] = preview[u]
      /\ walk[s] = NoRow
  BY <1>1, CallTypes
<1>4. PreviewsStayWithClient'
  BY <1>2, <1>3 DEF MoneyCalls, PreviewsStayWithClient
<1>5. OneHolder'
  BY <1>1, <1>3 DEF MoneyCalls, OneHolder
<1>6. PostingsFit'
  BY <1>1, <1>3, QuietRemaining DEF MoneyCalls, PostingsFit
<1>7. WalksFit'
  BY <1>1, <1>3, QuietRemaining DEF MoneyCalls, WalksFit
<1>8. QED
  BY <1>4, <1>5, <1>6, <1>7 DEF MoneyCalls

(* A call that moves on to a step before the posting.                       *)
LEMMA AdvanceMoney ==
  ASSUME PartnerInv, MoneyCalls, NEW s \in Cashiers,
         (\E k \in ExecKeys : ExecuteCall(s, k)) \/ ExecuteLock(s), UNCHANGED walk
  PROVE  MoneyCalls'
<1>1. /\ preview' = preview /\ UNCHANGED execution
      /\ \/ step' = [step EXCEPT ![s] = "waiting"]
         \/ step' = [step EXCEPT ![s] = "locking"] /\ EntityFree(preview[s].entity)
  BY DEF ExecuteCall, ExecuteLock
<1>2. PreviewsStayWithClient'
  BY <1>1 DEF MoneyCalls, PreviewsStayWithClient
<1>3. OneHolder'
  BY <1>1, CallTypes DEF MoneyCalls, OneHolder, EntityFree, HoldsEntity
<1>4. PostingsFit'
  BY <1>1, CallTypes, QuietRemaining DEF MoneyCalls, PostingsFit
<1>5. WalksFit'
  BY <1>1, QuietRemaining DEF MoneyCalls, WalksFit
<1>6. QED
  BY <1>2, <1>3, <1>4, <1>5 DEF MoneyCalls

LEMMA AcceptMoney ==
  ASSUME PartnerInv, MoneyCalls, NEW s \in Cashiers, ExecuteAccept(s),
         UNCHANGED walk
  PROVE  MoneyCalls'
<1>1. /\ step[s] = "locking" /\ UNCHANGED <<execution, preview>>
      /\ step' = [step EXCEPT ![s] = "posting"]
  BY DEF ExecuteAccept
<1>2. PreviewsStayWithClient'
  BY <1>1 DEF MoneyCalls, PreviewsStayWithClient
<1>3. OneHolder'
  BY <1>1, CallTypes DEF MoneyCalls, OneHolder
<1>4. PostingsFit'
  <2>1. SUFFICES ASSUME NEW u \in Cashiers, NEW l \in Lines, step'[u] = "posting",
                        preview[u].remaining[l] # 0
                 PROVE  Within(Remaining(l), preview[u].remaining[l])
    BY <1>1, QuietRemaining DEF PostingsFit
  <2>2. CASE u = s
    <3>1. preview[s].entity \in Entities
      BY <1>1, CallTypes DEF Snapshot
    <3>2. SnapshotNow(preview[s].entity, preview[s].direction, preview[s].amount,
                      preview[s].date) = preview[s]
      BY DEF ExecuteAccept, StillCurrent
    <3>3. preview[s].remaining[l] = Remaining(l)
      BY <2>1, <2>2, <3>1, <3>2, SnapshotShows
    <3>4. QED
      BY <2>2, <3>3, RemainingInt DEF PartnerInv, PartnerTyped
  <2>3. CASE u # s
    BY <1>1, <2>1, <2>3, CallTypes DEF MoneyCalls, PostingsFit
  <2>4. QED
    BY <2>2, <2>3
<1>5. WalksFit'
  BY <1>1, QuietRemaining DEF MoneyCalls, WalksFit
<1>6. QED
  BY <1>2, <1>3, <1>4, <1>5 DEF MoneyCalls

LEMMA EndMoney ==
  ASSUME PartnerInv, MoneyCalls, NEW s \in Cashiers, NEW row, EndCall(s, row),
         UNCHANGED execution, walk' = [walk EXCEPT ![s] = NoRow] \/ UNCHANGED walk
  PROVE  MoneyCalls'
<1>1. preview' = preview /\ step' = [step EXCEPT ![s] = "idle"]
  BY DEF EndCall
<1>2. PreviewsStayWithClient'
  BY <1>1 DEF MoneyCalls, PreviewsStayWithClient
<1>3. OneHolder'
  BY <1>1, CallTypes DEF MoneyCalls, OneHolder
<1>4. PostingsFit'
  BY <1>1, CallTypes, QuietRemaining DEF MoneyCalls, PostingsFit
<1>5. \A u \in Cashiers : walk'[u] = NoRow \/ walk'[u] = walk[u]
  BY CallTypes
<1>6. WalksFit'
  BY <1>1, <1>5, QuietRemaining DEF MoneyCalls, WalksFit
<1>7. QED
  BY <1>2, <1>3, <1>4, <1>6 DEF MoneyCalls

LEMMA WalkMoney ==
  ASSUME PartnerInv, MoneyCalls, NEW s \in Cashiers, FundedWalk(s)
  PROVE  MoneyCalls'
<1> DEFINE p == preview[s]
           now == SnapshotNow(p.entity, p.direction, p.amount, p.date)
<1>1. /\ walk' = [walk EXCEPT ![s] = now] /\ step[s] = "posting"
      /\ UNCHANGED <<execution, step, preview>>
  BY DEF FundedWalk, vars, cashVars
<1>2. p.entity \in Entities
  BY <1>1, CallTypes DEF Snapshot
<1>3. /\ now.entity = p.entity
      /\ \A l \in Lines : now.remaining[l] # 0 =>
            EntityOf[HeaderOf[l]] = p.entity /\ now.remaining[l] = Remaining(l)
  BY <1>2, SnapshotShows, SnapshotEntity
<1> HIDE DEF now
<1>4. \A l \in Lines : now.remaining[l] # 0 =>
         EntityOf[HeaderOf[l]] = p.entity /\ Within(Remaining(l), now.remaining[l])
  BY <1>3, RemainingInt DEF PartnerInv, PartnerTyped
<1>5. walk'[s] = now /\ \A u \in Cashiers : u # s => walk'[u] = walk[u]
  BY <1>1, CallTypes
<1>6. WalksFit'
  BY <1>1, <1>3, <1>4, <1>5, QuietRemaining DEF MoneyCalls, WalksFit
<1>7. PreviewsStayWithClient' /\ OneHolder'
  BY <1>1 DEF MoneyCalls, PreviewsStayWithClient, OneHolder
<1>8. PostingsFit'
  BY <1>1, QuietRemaining DEF MoneyCalls, PostingsFit
<1>9. QED
  BY <1>6, <1>7, <1>8 DEF MoneyCalls

(* A posting of one client leaves the others as they were.                  *)
LEMMA PostMoney ==
  ASSUME PartnerInv, MoneyCalls, NEW s \in Cashiers, step[s] = "posting",
         NEW row, AppendsRow(row), NEW answered, EndCall(s, answered),
         \A l \in Lines : row.signed[l] # 0 => EntityOf[HeaderOf[l]] = preview[s].entity,
         walk' = [walk EXCEPT ![s] = NoRow] \/ (walk[s] = NoRow /\ UNCHANGED walk)
  PROVE  MoneyCalls'
<1>1. /\ preview' = preview /\ step' = [step EXCEPT ![s] = "idle"]
      /\ step[s] = "posting"
  BY DEF EndCall
<1>2. /\ walk'[s] = NoRow
      /\ \A u \in Cashiers : u # s => walk'[u] = walk[u]
      /\ \A u \in Cashiers : walk'[u] # NoRow => u # s /\ step[u] = "posting"
  BY CallTypes
<1>3. ASSUME NEW u \in Cashiers, u # s, step[u] = "posting", NEW l \in Lines,
             EntityOf[HeaderOf[l]] = preview[u].entity
      PROVE  Remaining(l)' = Remaining(l)
  <2>1. preview[u].entity # preview[s].entity
    BY <1>1, <1>3 DEF MoneyCalls, OneHolder
  <2>2. row.signed[l] = 0
    BY <1>3, <2>1
  <2>3. Allocated(l)' = Allocated(l) + row.signed[l]
    BY AppendAllocated DEF AppendsRow, PartnerInv, PartnerTyped
  <2>4. Allocated(l) \in Int
    BY AllocatedInt DEF PartnerInv, PartnerTyped, Typed
  <2>5. QED
    BY <2>2, <2>3, <2>4 DEF Remaining, NettedRemaining
<1>4. PreviewsStayWithClient'
  BY <1>1 DEF MoneyCalls, PreviewsStayWithClient
<1>5. OneHolder'
  BY <1>1, CallTypes DEF MoneyCalls, OneHolder
<1>6. PostingsFit'
  <2>1. SUFFICES ASSUME NEW u \in Cashiers, NEW l \in Lines, step'[u] = "posting",
                        preview[u].remaining[l] # 0
                 PROVE  Within(Remaining(l)', preview[u].remaining[l])
    BY <1>1 DEF PostingsFit
  <2>2. u # s /\ step[u] = "posting" /\ preview[u] # NoRow
    BY <1>1, <2>1, CallTypes
  <2>3. EntityOf[HeaderOf[l]] = preview[u].entity
    BY <2>1, <2>2 DEF MoneyCalls, PreviewsStayWithClient
  <2>4. Remaining(l)' = Remaining(l)
    BY <1>3, <2>2, <2>3
  <2>5. QED
    BY <2>1, <2>2, <2>4 DEF MoneyCalls, PostingsFit
<1>7. WalksFit'
  <2>1. SUFFICES ASSUME NEW u \in Cashiers, walk'[u] # NoRow
                 PROVE  /\ walk'[u].entity = preview[u].entity
                        /\ \A l \in Lines : walk'[u].remaining[l] # 0 =>
                              /\ EntityOf[HeaderOf[l]] = preview[u].entity
                              /\ Within(Remaining(l)', walk'[u].remaining[l])
    BY <1>1 DEF WalksFit
  <2>2. u # s /\ step[u] = "posting" /\ walk'[u] = walk[u] /\ walk[u] # NoRow
    BY <1>2, <2>1
  <2>3. /\ walk[u].entity = preview[u].entity
        /\ \A l \in Lines : walk[u].remaining[l] # 0 =>
              /\ EntityOf[HeaderOf[l]] = preview[u].entity
              /\ Within(Remaining(l), walk[u].remaining[l])
    BY <2>2 DEF MoneyCalls, WalksFit
  <2>4. \A l \in Lines : walk[u].remaining[l] # 0 =>
           Remaining(l)' = Remaining(l)
    BY <1>3, <2>2, <2>3
  <2>5. QED
    BY <2>2, <2>3, <2>4
<1>8. QED
  BY <1>4, <1>5, <1>6, <1>7 DEF MoneyCalls

(* What fitted still fits when a payment is taken back.                     *)
LEMMA RemainingGrows ==
  ASSUME Typed, RowsInv, NEW r \in Rows, NEW row, AppendsRow(row),
         execution[r].reversalOf = 0, TakesBack(row, r),
         NEW l \in Lines, NEW x \in Int, Within(Remaining(l), x)
  PROVE  Within(Remaining(l)', x)
<1> DEFINE o == Original[l]
           a == Allocated(l)
           y == execution[r].signed[l]
<1>1. o \in Int /\ a \in Int /\ y \in Int
  BY AllocatedInt, RowsTyped, LineAssumption DEF Typed
<1>2. Lowers(o, y) /\ (NettedRegister => Within(o, o + a))
  BY DEF RowsInv, PaymentsLower, NettingFits, NoOverAllocation
<1>3. row.signed[l] = -y
  BY DEF TakesBack
<1>4. Allocated(l)' = a + row.signed[l]
  BY AppendAllocated DEF AppendsRow
<1>5. CASE HeaderOf[l] \in OwnerLevel \/ ~NettedRegister
  <2>1. Remaining(l)' = Remaining(l)
    BY <1>5 DEF Remaining, NettedRemaining
  <2>2. QED
    BY <2>1
<1>6. CASE HeaderOf[l] \notin OwnerLevel /\ NettedRegister
  <2>1. Within(o + a, x)
    BY <1>6 DEF Remaining, NettedRemaining
  <2>2. Remaining(l)' = o + (a + -y)
    BY <1>3, <1>4, <1>6 DEF Remaining, NettedRemaining
  <2>3. Within(o, o + a)
    BY <1>2, <1>6
  <2> HIDE DEF o, a, y
  <2>4. Within(o + (a + -y), x)
    BY <1>1, <1>2, <2>1, <2>3 DEF Within, Lowers
  <2>5. QED
    BY <2>2, <2>4
<1>7. QED
  BY <1>5, <1>6

LEMMA ReversalMoney ==
  ASSUME PartnerInv, RowsInv, MoneyCalls, NEW r \in Rows, NEW row, AppendsRow(row),
         execution[r].reversalOf = 0, TakesBack(row, r), UNCHANGED <<step, preview, walk>>
  PROVE  MoneyCalls'
<1>1. Typed
  BY DEF PartnerInv, PartnerTyped
<1>2. PreviewsStayWithClient' /\ OneHolder'
  BY DEF MoneyCalls, PreviewsStayWithClient, OneHolder
<1>3. PostingsFit'
  <2>1. SUFFICES ASSUME NEW u \in Cashiers, NEW l \in Lines, step[u] = "posting",
                        preview[u].remaining[l] # 0
                 PROVE  Within(Remaining(l)', preview[u].remaining[l])
    BY DEF PostingsFit
  <2>2. preview[u].remaining[l] \in Int
    BY <2>1, CallTypes DEF Snapshot
  <2>3. Within(Remaining(l), preview[u].remaining[l])
    BY <2>1 DEF MoneyCalls, PostingsFit
  <2>4. QED
    BY <1>1, <2>2, <2>3, RemainingGrows
<1>4. WalksFit'
  <2>1. SUFFICES ASSUME NEW u \in Cashiers, walk[u] # NoRow, NEW l \in Lines,
                        walk[u].remaining[l] # 0
                 PROVE  Within(Remaining(l)', walk[u].remaining[l])
    BY DEF MoneyCalls, WalksFit
  <2>2. walk[u].remaining[l] \in Int
    BY <2>1, CallTypes DEF Snapshot
  <2>3. Within(Remaining(l), walk[u].remaining[l])
    BY <2>1 DEF MoneyCalls, WalksFit
  <2>4. QED
    BY <1>1, <2>2, <2>3, RemainingGrows
<1>5. QED
  BY <1>2, <1>3, <1>4 DEF MoneyCalls

(* Reversals and their events.                                              *)
LEMMA ReversalsFollow ==
  ASSUME PartnerInv, ReversalsAreOfEvents, EventsStay, NEW row,
         \/ UNCHANGED execution
         \/ /\ AppendsRow(row)
            /\ row.reversalOf \in 0..Len(execution)
            /\ row.key \in FundKeys => ~UsedKey(row.key)
            /\ row.reversalOf # 0 /\ execution[row.reversalOf].key \in FundKeys =>
                  \E i \in Events : /\ event[i].key = execution[row.reversalOf].key
                                    /\ EventReversed(i)',
         \A i \in Events' : i \in Events \/ (event'[i].key \in FundKeys => ~UsedKey(event'[i].key)),
         LinksInv'
  PROVE  ReversalsAreOfEvents'
<1>1. \A i \in Events : EventReversed(i) => EventReversed(i)'
  BY DEF EventReversed, EventsStay
<1>2. PartnerTyped /\ LinksInv /\ Len(execution) \in Nat /\ Rows = 1..Len(execution)
  BY RowsTyped DEF PartnerInv, PartnerTyped, Typed
<1>3. SUFFICES ASSUME NEW i \in Events', NEW r \in Rows', event'[i].key = execution'[r].key,
                      event'[i].key \in FundKeys, IsReversed(r)'
               PROVE  EventReversed(i)'
  BY DEF ReversalsAreOfEvents
<1>4. \A m \in Rows : m \in Rows' /\ execution'[m] = execution[m]
  BY <1>2, GrownRows DEF Rows
<1>5. r \in Rows
  <2>1. CASE UNCHANGED execution
    BY <2>1 DEF Rows
  <2>2. CASE AppendsRow(row)
    <3>1. /\ Rows' = 1..(Len(execution) + 1)
          /\ \A m \in Rows' : execution'[m].reversalOf \in 0..(m-1)
      BY <1>2, <2>2, GrownRows DEF LinksInv, ReversalsComeLater
    <3>2. PICK m \in Rows' : execution'[m].reversalOf = r
      BY <1>3 DEF IsReversed
    <3>3. m \in 1..(Len(execution) + 1) /\ r \in 1..(Len(execution) + 1) /\ r \in 0..(m-1)
      BY <3>1, <3>2
    <3>4. r \in 1..Len(execution)
      BY <1>2, <3>3
    <3>5. QED
      BY <1>2, <3>4
  <2>3. QED
    BY <2>1, <2>2
<1>6. execution'[r] = execution[r] /\ UsedKey(execution[r].key)
  BY <1>4, <1>5 DEF UsedKey
<1>7. i \in Events /\ event'[i] = event[i]
  BY <1>3, <1>6 DEF EventsStay
<1>8. CASE IsReversed(r)
  BY <1>1, <1>3, <1>5, <1>6, <1>7, <1>8 DEF ReversalsAreOfEvents
<1>9. CASE ~IsReversed(r)
  <2>1. PICK m \in Rows' : execution'[m].reversalOf = r
    BY <1>3 DEF IsReversed
  <2>2. CASE UNCHANGED execution
    BY <1>9, <2>1, <2>2 DEF IsReversed, Rows
  <2>3. CASE /\ AppendsRow(row)
             /\ row.reversalOf # 0 /\ execution[row.reversalOf].key \in FundKeys =>
                  \E j \in Events : /\ event[j].key = execution[row.reversalOf].key
                                    /\ EventReversed(j)'
    <3>1. execution'[m] = row
      BY <1>2, <1>9, <2>1, <2>3, GrownRows DEF IsReversed
    <3>2. row.reversalOf = r /\ r # 0
      BY <1>2, <1>5, <2>1, <3>1
    <3>3. execution[r].key \in FundKeys
      BY <1>3, <1>6
    <3>4. PICK j \in Events : event[j].key = execution[r].key /\ EventReversed(j)'
      BY <2>3, <3>2, <3>3
    <3>5. event[i].key = event[j].key /\ event[i].key \in FundKeys
      BY <1>3, <1>6, <1>7, <3>4
    <3>6. i = j
      BY <1>2, <1>7, <3>5 DEF LinksInv, FundKeysNameEvents
    <3>7. QED
      BY <3>4, <3>6
  <2>4. QED
    BY <2>2, <2>3
<1>10. QED
  BY <1>8, <1>9

(* The rows: a posting stays within what remains, a reversal gives back.    *)
LEMMA OwnPostMoney ==
  ASSUME PartnerInv, MoneyInv, LinksInv', NEW s \in Cashiers, ExecutePost(s), ~Funded(s),
         UNCHANGED partnerVars
  PROVE  MoneyInv'
<1> DEFINE p == preview[s]
           row == [key |-> key[s], snapshot |-> p, cash |-> p.amount,
                   signed |-> Slices(p), reversalOf |-> 0]
<1>1. /\ AppendsRow(row) /\ step[s] = "posting" /\ Postable(p) /\ ~UsedKey(key[s])
      /\ EndCall(s, Len(execution) + 1) /\ UNCHANGED <<event, walk>>
  BY DEF ExecutePost, AppendsRow, partnerVars
<1>2. p \in Snapshot /\ walk[s] = NoRow
  BY <1>1, CallTypes DEF PartnerInv, CallsFit, WalksAreOfPostings
<1>3. Typed /\ RowsInv /\ NettingFits
  BY DEF PartnerInv, PartnerTyped, MoneyInv, RowsInv
<1>4. /\ row.signed = Slices(p) /\ row.reversalOf = 0 /\ row.snapshot = p
      /\ row.key = key[s]
  OBVIOUS
<1>5. \A l \in Lines :
         /\ row.signed[l] \in Int
         /\ row.signed[l] # 0 => EntityOf[HeaderOf[l]] = row.snapshot.entity
         /\ Lowers(Original[l], row.signed[l])
         /\ Within(Original[l], Original[l] + row.signed[l])
         /\ NettedRegister => Within(Original[l], Original[l] + (Allocated(l) + row.signed[l]))
  <2>1. \A l \in Lines : p.remaining[l] # 0 =>
           EntityOf[HeaderOf[l]] = p.entity /\ Within(Remaining(l), p.remaining[l])
    BY <1>1, CallTypes DEF MoneyInv, MoneyCalls, PostingsFit, PreviewsStayWithClient
  <2>2. QED
    BY <1>1, <1>2, <1>3, <1>4, <2>1, WalkEffect
<1> HIDE DEF row
<1>6. RowsInv'
  BY <1>1, <1>3, <1>4, <1>5, PostedRows DEF AppendsRow
<1>7. MoneyCalls'
  BY <1>1, <1>2, <1>4, <1>5, PostMoney DEF MoneyInv
<1>8. ReversalsAreOfEvents'
  <2>1. /\ EventsStay /\ row.reversalOf \in 0..Len(execution)
        /\ \A i \in Events' : i \in Events
    BY <1>1, <1>3, <1>4, RowsTyped DEF EventsStay, Events, Typed
  <2>2. QED
    BY <1>1, <1>4, <2>1, ReversalsFollow DEF MoneyInv
<1>9. QED
  BY <1>6, <1>7, <1>8 DEF MoneyInv

LEMMA FundedPostMoney ==
  ASSUME PartnerInv, MoneyInv, LinksInv', NEW s \in Cashiers, FundedPost(s)
  PROVE  MoneyInv'
<1> DEFINE p == preview[s]
           w == walk[s]
           row == [key |-> key[s], snapshot |-> p, cash |-> p.amount,
                   signed |-> Slices(w), reversalOf |-> 0]
           new == [key |-> key[s], kind |-> "funding", partner |-> funder[s],
                   date |-> p.date, entry |-> p.amount,
                   snapshot |-> p, shown |-> shown[s], reversalOf |-> 0]
<1>1. /\ AppendsRow(row) /\ AppendsEvent(new)
      /\ step[s] = "posting" /\ Postable(w) /\ ~UsedKey(key[s]) /\ w # NoRow
      /\ EndCall(s, Len(execution) + 1) /\ walk' = [walk EXCEPT ![s] = NoRow]
  BY DEF FundedPost, AppendsRow, AppendsEvent
<1>2. w \in Snapshot
  BY <1>1, CallTypes
<1>3. Typed /\ RowsInv /\ NettingFits /\ PartnerTyped
  BY DEF PartnerInv, PartnerTyped, MoneyInv, RowsInv
<1>4. /\ row.signed = Slices(w) /\ row.reversalOf = 0 /\ row.snapshot = p
      /\ row.key = key[s] /\ new.key = key[s]
  OBVIOUS
<1>5. \A l \in Lines :
         /\ row.signed[l] \in Int
         /\ row.signed[l] # 0 => EntityOf[HeaderOf[l]] = row.snapshot.entity
         /\ Lowers(Original[l], row.signed[l])
         /\ Within(Original[l], Original[l] + row.signed[l])
         /\ NettedRegister => Within(Original[l], Original[l] + (Allocated(l) + row.signed[l]))
  <2>1. /\ w.entity = p.entity
        /\ \A l \in Lines : w.remaining[l] # 0 =>
              EntityOf[HeaderOf[l]] = w.entity /\ Within(Remaining(l), w.remaining[l])
    BY <1>1 DEF MoneyInv, MoneyCalls, WalksFit
  <2>2. QED
    BY <1>1, <1>2, <1>3, <1>4, <2>1, WalkEffect
<1> HIDE DEF row, new
<1>6. RowsInv'
  BY <1>1, <1>3, <1>4, <1>5, PostedRows DEF AppendsRow
<1>7. MoneyCalls'
  BY <1>1, <1>4, <1>5, PostMoney DEF MoneyInv
<1>8. ReversalsAreOfEvents'
  <2>1. /\ EventsStay /\ row.reversalOf \in 0..Len(execution)
        /\ \A i \in Events' : i \in Events \/ event'[i] = new
    BY <1>1, <1>3, <1>4, RowsTyped, GrownEvents DEF EventsStay, Typed
  <2>2. \A i \in Events' : i \in Events \/ (event'[i].key \in FundKeys => ~UsedKey(event'[i].key))
    BY <1>1, <1>4, <2>1
  <2>3. QED
    BY <1>1, <1>4, <2>1, <2>2, ReversalsFollow DEF MoneyInv
<1>9. QED
  BY <1>6, <1>7, <1>8 DEF MoneyInv

LEMMA ReverseOwnMoney ==
  ASSUME PartnerInv, MoneyInv, LinksInv', Typed', NEW r \in Rows,
         NEW k \in ReversalKeys \ UndoKeys, ReverseOwn(r, k)
  PROVE  MoneyInv'
<1> DEFINE row == [key |-> k, snapshot |-> execution[r].snapshot,
                   cash |-> -execution[r].cash,
                   signed |-> [l \in Lines |-> -execution[r].signed[l]], reversalOf |-> r]
<1>1. /\ AppendsRow(row) /\ execution[r].reversalOf = 0 /\ ~IsReversed(r)
      /\ UNCHANGED <<event, step, preview, walk>>
  BY DEF ReverseOwn, Reverse, AppendsRow, partnerVars
<1>2. k \notin FundKeys /\ execution[r].key \notin FundKeys
  BY PartnerAssumption DEF ReverseOwn, FundedRow
<1>3. Typed /\ RowsInv /\ r \in 0..Len(execution)
  BY RowsTyped DEF PartnerInv, PartnerTyped, MoneyInv, Typed
<1>4. TakesBack(row, r) /\ row.reversalOf = r /\ row.key = k
  BY DEF TakesBack
<1> HIDE DEF row
<1>5. RowsInv'
  BY <1>1, <1>3, <1>4, ReversedRows
<1>6. MoneyCalls'
  BY <1>1, <1>3, <1>4, ReversalMoney DEF MoneyInv
<1>7. ReversalsAreOfEvents'
  <2>1. EventsStay /\ \A i \in Events' : i \in Events
    BY <1>1 DEF EventsStay, Events
  <2>2. QED
    BY <1>1, <1>2, <1>3, <1>4, <2>1, ReversalsFollow DEF MoneyInv
<1>8. QED
  BY <1>5, <1>6, <1>7 DEF MoneyInv

LEMMA UndoFundingMoney ==
  ASSUME PartnerInv, MoneyInv, LinksInv', Typed', NEW i \in Events, NEW k \in UndoKeys,
         UndoEvent(i, k), UndoFunding(i, k)
  PROVE  MoneyInv'
<1> DEFINE v == RowOf(event[i].key)
           row == [key |-> k, snapshot |-> execution[v].snapshot,
                   cash |-> -execution[v].cash,
                   signed |-> [l \in Lines |-> -execution[v].signed[l]], reversalOf |-> v]
           new == [key |-> k, kind |-> "reversal", partner |-> event[i].partner,
                   date |-> event[i].date, entry |-> -event[i].entry,
                   snapshot |-> event[i].snapshot, shown |-> event[i].shown, reversalOf |-> i]
<1>1. /\ AppendsRow(row) /\ AppendsEvent(new) /\ event[i].kind = "funding"
      /\ ~EventReversed(i) /\ UNCHANGED <<step, preview, walk>>
  BY DEF UndoEvent, UndoFunding, AppendsEvent, AppendsRow
<1>2. event[i].key \in FundKeys /\ v \in Rows /\ execution[v].key = event[i].key
  BY <1>1, FundedRowFound
<1>3. execution[v].reversalOf = 0 /\ ~IsReversed(v)
  BY <1>1, <1>2 DEF PartnerInv, LinksInv, FundingsMatch, MoneyInv, ReversalsAreOfEvents
<1>4. k \notin FundKeys
  BY PartnerAssumption
<1> HIDE DEF v
<1>5. /\ TakesBack(row, v) /\ row.reversalOf = v /\ row.key = k
      /\ new.key = k /\ new.reversalOf = i
  BY DEF TakesBack
<1> HIDE DEF row, new
<1>6. Typed /\ RowsInv /\ v \in 0..Len(execution) /\ PartnerTyped
  BY <1>2, RowsTyped DEF PartnerInv, PartnerTyped, MoneyInv, Typed
<1>7. RowsInv'
  BY <1>1, <1>2, <1>3, <1>5, <1>6, ReversedRows
<1>8. MoneyCalls'
  BY <1>1, <1>2, <1>3, <1>5, <1>6, ReversalMoney DEF MoneyInv
<1>9. ReversalsAreOfEvents'
  <2>1. /\ EventsStay
        /\ \A m \in Events' : m \in Events \/ event'[m] = new
        /\ Len(event) + 1 \in Events' /\ event'[Len(event) + 1] = new
    BY <1>1, <1>6, GrownEvents DEF EventsStay
  <2>2. EventReversed(i)'
    BY <1>5, <2>1 DEF EventReversed
  <2>3. \A m \in Events' : m \in Events \/ (event'[m].key \in FundKeys => ~UsedKey(event'[m].key))
    BY <1>4, <1>5, <2>1
  <2>4. \E m \in Events : event[m].key = execution[row.reversalOf].key /\ EventReversed(m)'
    BY <1>2, <1>5, <2>2
  <2>5. QED
    BY <1>1, <1>4, <1>5, <1>6, <2>1, <2>3, <2>4, ReversalsFollow DEF MoneyInv
<1>10. QED
  BY <1>7, <1>8, <1>9 DEF MoneyInv

(* An entry of the partner that moves no cash of a client.                  *)
LEMMA EntryMoney ==
  ASSUME PartnerInv, MoneyInv, LinksInv', NEW new, AppendsEvent(new), new.key \notin FundKeys,
         UNCHANGED <<execution, step, preview, walk>>
  PROVE  MoneyInv'
<1>1. RowsInv' /\ MoneyCalls'
  BY QuietRows, StillMoney DEF MoneyInv
<1>2. EventsStay /\ \A m \in Events' : m \in Events \/ event'[m] = new
  BY GrownEvents DEF EventsStay, PartnerInv
<1>3. \A m \in Events' : m \in Events \/ (event'[m].key \in FundKeys => ~UsedKey(event'[m].key))
  BY <1>2
<1>4. ReversalsAreOfEvents'
  BY <1>2, <1>3, ReversalsFollow DEF MoneyInv
<1>5. QED
  BY <1>1, <1>4 DEF MoneyInv

LEMMA MoneyStep ==
  ASSUME PartnerInv, MoneyInv, LinksInv', Typed', [PartnerNext]_allVars
  PROVE  MoneyInv'
<1>1. ASSUME UNCHANGED <<event, execution>>, MoneyCalls' PROVE MoneyInv'
  <2>1. RowsInv' /\ ReversalsAreOfEvents'
    BY <1>1, QuietRows DEF MoneyInv, ReversalsAreOfEvents, IsReversed, EventReversed, Rows, Events
  <2>2. QED
    BY <1>1, <2>1 DEF MoneyInv
<1>2. ASSUME UNCHANGED <<event, execution, step, preview, walk>> PROVE MoneyInv'
  BY <1>1, <1>2, StillMoney DEF MoneyInv
<1>3. ASSUME NEW s \in Cashiers, NEW e \in Entities, NEW d \in Directions, NEW a \in Amounts,
             NEW date \in Dates, Preview(s, e, d, a, date), UNCHANGED <<event, walk>>
      PROVE  MoneyInv'
  <2>1. UNCHANGED execution
    BY <1>3 DEF Preview
  <2>2. MoneyCalls'
    BY <1>3, PreviewMoney DEF MoneyInv
  <2>3. QED
    BY <1>1, <1>3, <2>1, <2>2
<1>4. ASSUME NEW s \in Cashiers,
             (\E k \in ExecKeys : ExecuteCall(s, k)) \/ ExecuteLock(s) \/ ExecuteAccept(s),
             UNCHANGED partnerVars
      PROVE  MoneyInv'
  <2>1. UNCHANGED <<event, execution, walk>>
    BY <1>4 DEF ExecuteCall, ExecuteLock, ExecuteAccept, partnerVars
  <2>2. MoneyCalls'
    BY <1>4, <2>1, AdvanceMoney, AcceptMoney DEF MoneyInv
  <2>3. QED
    BY <1>1, <2>1, <2>2
<1>5. ASSUME NEW s \in Cashiers, NEW row, EndCall(s, row), UNCHANGED <<event, execution>>,
             walk' = [walk EXCEPT ![s] = NoRow] \/ UNCHANGED walk
      PROVE  MoneyInv'
  BY <1>1, <1>5, EndMoney DEF MoneyInv
<1>6. ASSUME NEW s \in Cashiers, OwnStep(s) PROVE MoneyInv'
  <2>1. ASSUME OwnPreview(s) PROVE MoneyInv'
    BY <1>3, <2>1 DEF OwnPreview
  <2>2. ASSUME NEW k \in ExecKeys \ FundKeys, ExecuteCall(s, k), UNCHANGED partnerVars
        PROVE  MoneyInv'
    BY <1>4, <2>2
  <2>3. ASSUME ExecuteReplay(s) \/ ExecuteRefuse(s) \/ ExecuteFail(s) \/ ExecuteAbort(s),
               UNCHANGED partnerVars
        PROVE  MoneyInv'
    <3>1. /\ UNCHANGED <<event, execution, walk>>
          /\ \E row : EndCall(s, row)
      BY <2>3 DEF ExecuteReplay, ExecuteRefuse, ExecuteFail, ExecuteAbort, partnerVars
    <3>2. QED
      BY <1>5, <3>1
  <2>4. QED
    BY <1>4, <1>6, <2>1, <2>2, <2>3, OwnPostMoney DEF OwnStep
<1>7. ASSUME NEW s \in Cashiers, FundedStep(s) PROVE MoneyInv'
  <2>1. ASSUME NEW e \in Entities, NEW partner \in Partners, NEW a \in Amounts,
               NEW date \in Dates, FundedPreview(s, e, partner, a, date)
        PROVE  MoneyInv'
    BY <1>3, <2>1 DEF FundedPreview, Directions
  <2>2. ASSUME NEW k \in FundKeys, FundedCall(s, k) PROVE MoneyInv'
    BY <1>4, <2>2, PartnerAssumption DEF FundedCall
  <2>3. ASSUME FundedLock(s) \/ FundedAccept(s) PROVE MoneyInv'
    BY <1>4, <2>3 DEF FundedLock, FundedAccept
  <2>4. ASSUME FundedReplay(s) \/ FundedRefuse(s) \/ FundedFail(s) \/ FundedAbort(s)
        PROVE  MoneyInv'
    <3>1. /\ UNCHANGED <<event, execution>>
          /\ walk' = [walk EXCEPT ![s] = NoRow] \/ UNCHANGED walk
          /\ \E row : EndCall(s, row)
      BY <2>4 DEF FundedReplay, FundedRefuse, FundedFail, FundedAbort, ExecuteAbort, partnerVars
    <3>2. QED
      BY <1>5, <3>1
  <2>5. ASSUME FundedWalk(s) PROVE MoneyInv'
    <3>1. UNCHANGED <<event, execution>>
      BY <2>5 DEF FundedWalk, vars, cashVars
    <3>2. QED
      BY <1>1, <2>5, <3>1, WalkMoney DEF MoneyInv
  <2>6. QED
    BY <1>7, <2>1, <2>2, <2>3, <2>4, <2>5, FundedPostMoney DEF FundedStep
<1>8. ASSUME NEW t \in Payers, ReimbursePost(t) PROVE MoneyInv'
  <2> DEFINE c == reimbursing[t]
             new == [key |-> c.key, kind |-> "reimbursement", partner |-> c.partner,
                     date |-> c.date, entry |-> -c.amount, snapshot |-> NoRow,
                     shown |-> c.shown, reversalOf |-> 0]
  <2>1. AppendsEvent(new) /\ UNCHANGED <<execution, step, preview, walk>> /\ c # NoRow
    BY <1>8 DEF ReimbursePost, AppendsEvent, vars, cashVars
  <2>2. c.key \in ReimburseKeys
    <3>1. c \in Reimbursement
      BY <2>1 DEF PartnerInv, PartnerTyped, PartnerTypeOK
    <3> HIDE DEF c
    <3>2. QED
      BY <3>1 DEF Reimbursement
  <2>3. new.key \notin FundKeys
    BY <2>2, PartnerAssumption
  <2> HIDE DEF new
  <2>4. QED
    BY <2>1, <2>3, EntryMoney
<1>9. ASSUME NEW i \in Events, NEW k \in UndoKeys, UndoEvent(i, k) PROVE MoneyInv'
  <2>1. CASE UndoFunding(i, k)
    BY <1>9, <2>1, UndoFundingMoney
  <2>2. CASE UndoReimbursement(i)
    <3> DEFINE new == [key |-> k, kind |-> "reversal", partner |-> event[i].partner,
                       date |-> event[i].date, entry |-> -event[i].entry,
                       snapshot |-> event[i].snapshot, shown |-> event[i].shown,
                       reversalOf |-> i]
    <3>1. AppendsEvent(new) /\ UNCHANGED <<execution, step, preview, walk>>
      BY <1>9, <2>2 DEF UndoEvent, UndoReimbursement, AppendsEvent
    <3>2. new.key \notin FundKeys
      BY PartnerAssumption
    <3> HIDE DEF new
    <3>3. QED
      BY <3>1, <3>2, EntryMoney
  <2>3. QED
    BY <1>9, <2>1, <2>2 DEF UndoEvent
<1>10. CASE ObligationsNext /\ UNCHANGED <<cashVars, partnerVars>>
  BY <1>2, <1>10 DEF cashVars, partnerVars
<1>11. ASSUME NEW t \in Payers, NEW partner \in Partners, NEW a \in Amounts, NEW d \in Dates,
              NEW k \in ReimburseKeys, ReimburseCheck(t, partner, a, d, k)
       PROVE  MoneyInv'
  BY <1>2, <1>11 DEF ReimburseCheck, vars, cashVars
<1>12. ASSUME NEW t \in Payers, ReimburseAbort(t) PROVE MoneyInv'
  BY <1>2, <1>12 DEF ReimburseAbort, vars, cashVars
<1>13. CASE UNCHANGED allVars
  BY <1>2, <1>13 DEF allVars, vars, cashVars, partnerVars
<1>14. QED
  BY <1>6, <1>7, <1>8, <1>9, <1>10, <1>11, <1>12, <1>13, ReverseOwnMoney
     DEF PartnerNext, PartnerStep

LEMMA MoneyInitInv == Init /\ PartnerInit => MoneyInv
<1> SUFFICES ASSUME Init, PartnerInit PROVE MoneyInv
  OBVIOUS
<1>1. RowsInv /\ PreviewsStayWithClient /\ OneHolder
  BY InitInv DEF Inv, RowsInv
<1>2. PostingsFit /\ WalksFit
  BY DEF Init, CashInit, PartnerInit, PostingsFit, WalksFit
<1>3. ReversalsAreOfEvents
  BY DEF PartnerInit, ReversalsAreOfEvents, Events
<1>4. QED
  BY <1>1, <1>2, <1>3 DEF MoneyInv, MoneyCalls

(* Nothing is overpaid but by two payments that stand, and not by them if   *)
(* the register nets, though payments out of a partner's pocket are walked  *)
(* twice and reversals of them commit between the check of any payment and  *)
(* its slices.                                                              *)
THEOREM FundedObligationsAreNotOverpaid == PartnerSpec => []OverpaymentTakesTwo
<1>1. PartnerInv /\ MoneyInv => OverpaymentTakesTwo
  <2>1. PartnerInv /\ MoneyInv => Typed /\ RowsInv
    BY DEF PartnerInv, PartnerTyped, MoneyInv
  <2>2. QED
    BY <2>1, AllocationFits DEF OverpaymentTakesTwo
<1>2. PartnerInv /\ Balanced /\ MoneyInv /\ [PartnerNext]_allVars => MoneyInv'
  BY PartnerStepInv, MoneyStep DEF PartnerInv, PartnerTyped
<1>3. QED
  BY <1>1, <1>2, MoneyInitInv, PartnerInitInv, PartnerStepInv, PTL DEF PartnerSpec

-----------------------------------------------------------------------------
(* Reimbursements.  The balance is checked as of one date, and under the    *)
(* lock of the partner it can only rise until the entry is written; on      *)
(* later dates it is not lower, since what is entered there are payments    *)
(* that stand and reimbursements taken back.                                *)

(* An entry that takes from the partner is a reimbursement, or takes back   *)
(* one of his payments.                                                     *)
EntriesFit ==
    \A i \in Events :
        /\ event[i].kind = "reimbursement" => event[i].entry <= 0
        /\ event[i].kind # "reimbursement" /\ event[i].entry < 0 =>
              \E j \in Events : /\ event[i].reversalOf = j
                                /\ event[j].kind = "funding"
                                /\ event[j].partner = event[i].partner

OneReimbursement ==
    \A t, u \in Payers :
        reimbursing[t] # NoRow /\ reimbursing[u] # NoRow /\ t # u
           => reimbursing[t].partner # reimbursing[u].partner

PendingCovered ==
    \A t \in Payers : reimbursing[t] # NoRow /\ FundingStands(reimbursing[t].partner) =>
        BalanceAsOf(reimbursing[t].partner, reimbursing[t].date) >= reimbursing[t].amount

PayersFit == EntriesFit /\ OneReimbursement /\ PendingCovered

(* What a new event adds to a balance.                                      *)
LEMMA BalanceGrows ==
  ASSUME PartnerTyped, NEW new, AppendsEvent(new), NEW partner, NEW date
  PROVE  BalanceAsOf(partner, date)' = BalanceAsOf(partner, date)
           + (IF new.partner = partner /\ new.date <= date THEN new.entry ELSE 0)
<1> DEFINE n == Len(event)
           f == [i \in Events |-> IF event[i].partner = partner /\ event[i].date <= date
                                  THEN event[i].entry ELSE 0]
           g == [i \in 1..(n+1) |-> IF event'[i].partner = partner /\ event'[i].date <= date
                                    THEN event'[i].entry ELSE 0]
<1>1. /\ n \in Nat /\ Events = 1..n /\ Events' = 1..(n+1) /\ Len(event') = n+1
      /\ \A i \in Events : event'[i] = event[i]
      /\ event'[n+1] = new
  BY GrownEvents
<1>2. BalanceAsOf(partner, date)' = SumTo(g, n+1)
  BY <1>1 DEF BalanceAsOf
<1>3. BalanceAsOf(partner, date) = SumTo(f, n)
  BY DEF BalanceAsOf
<1>4. /\ \A i \in 1..n : g[i] = f[i]
      /\ g[n+1] = IF new.partner = partner /\ new.date <= date THEN new.entry ELSE 0
  BY <1>1
<1> HIDE DEF f, g
<1>5. n \in Nat
  BY <1>1
<1> HIDE DEF n
<1>6. SumTo(g, n+1) = SumTo(f, n) + g[n+1]
  BY <1>4, <1>5, SumGrows
<1>7. QED
  BY <1>2, <1>3, <1>4, <1>6

(* What is said of the past held in the past.                               *)
LEMMA PastStands ==
  ASSUME PartnerTyped, NEW new, AppendsEvent(new), NEW partner
  PROVE  /\ FundingStands(partner)' => FundingStands(partner)
         /\ ReimbursedInDateOrder(partner)' => ReimbursedInDateOrder(partner)
<1>1. \A i \in Events : i \in Events' /\ event'[i] = event[i]
  BY GrownEvents
<1>2. FundingStands(partner)' => FundingStands(partner)
  BY <1>1 DEF FundingStands, EventReversed
<1>3. ReimbursedInDateOrder(partner)' => ReimbursedInDateOrder(partner)
  BY <1>1 DEF ReimbursedInDateOrder
<1>4. QED
  BY <1>2, <1>3

(* While the payments of a partner stand, his other events are in his       *)
(* favour.                                                                  *)
LEMMA StandingCredits ==
  ASSUME PartnerTyped, EntriesFit, NEW partner, FundingStands(partner), NEW i \in Events,
         event[i].partner = partner, event[i].kind # "reimbursement"
  PROVE  event[i].entry >= 0
<1>1. event[i].entry \in Int
  BY EventsTyped DEF PartnerTyped
<1>2. CASE event[i].entry < 0
  <2>1. PICK j \in Events : /\ event[i].reversalOf = j
                            /\ event[j].kind = "funding"
                            /\ event[j].partner = event[i].partner
    BY <1>2 DEF EntriesFit
  <2>2. EventReversed(j)
    BY <2>1 DEF EventReversed
  <2>3. QED
    BY <2>1, <2>2 DEF FundingStands
<1>3. QED
  BY <1>1, <1>2

(* After the last reimbursement the balance does not fall.                  *)
LEMMA LaterBalance ==
  ASSUME PartnerTyped, EntriesFit, NEW partner, FundingStands(partner),
         NEW day \in Dates, NEW date \in Dates, day <= date,
         \A i \in Events : event[i].partner = partner /\ event[i].kind = "reimbursement"
                              => event[i].date <= day
  PROVE  BalanceAsOf(partner, day) <= BalanceAsOf(partner, date)
<1> DEFINE n == Len(event)
           f == [i \in Events |-> IF event[i].partner = partner /\ event[i].date <= day
                                  THEN event[i].entry ELSE 0]
           g == [i \in Events |-> IF event[i].partner = partner /\ event[i].date <= date
                                  THEN event[i].entry ELSE 0]
<1>1. n \in Nat /\ Events = 1..n
  BY EventsTyped DEF PartnerTyped
<1>2. ASSUME NEW i \in Events PROVE f[i] \in Int /\ g[i] \in Int /\ f[i] <= g[i]
  <2>1. event[i].entry \in Int /\ event[i].date \in Nat /\ day \in Nat /\ date \in Nat
    BY EventsTyped, CashAssumption DEF PartnerTyped
  <2>2. CASE event[i].partner = partner /\ event[i].kind # "reimbursement"
    BY <2>1, <2>2, StandingCredits
  <2>3. CASE event[i].partner = partner /\ event[i].kind = "reimbursement"
    BY <2>1, <2>3
  <2>4. QED
    BY <2>1, <2>2, <2>3
<1>3. BalanceAsOf(partner, day) = SumTo(f, n) /\ BalanceAsOf(partner, date) = SumTo(g, n)
  BY DEF BalanceAsOf
<1> HIDE DEF f, g
<1>4. SumTo(f, n) <= SumTo(g, n)
  BY <1>1, <1>2, SumToAtMost
<1>5. QED
  BY <1>3, <1>4

(* An event other than a reimbursement: the balance of a partner whose      *)
(* payments still stand does not fall.                                      *)
LEMMA CreditStep ==
  ASSUME PartnerTyped, PartnerTyped', PayersFit, ReimbursementsAreCovered,
         NEW new, AppendsEvent(new), UNCHANGED reimbursing,
         new.kind # "reimbursement",
         new.entry < 0 => \E j \in Events : /\ new.reversalOf = j
                                            /\ event[j].kind = "funding"
                                            /\ event[j].partner = new.partner
  PROVE  PayersFit' /\ ReimbursementsAreCovered'
<1>1. /\ Len(event) + 1 \in Events' /\ event'[Len(event) + 1] = new
      /\ \A i \in Events' : (i \in Events /\ event'[i] = event[i]) \/ event'[i] = new
      /\ \A i \in Events : i \in Events' /\ event'[i] = event[i]
  BY GrownEvents
<1>2. new.entry \in Int /\ new.date \in Nat
  <2>1. event' \in Seq(PartnerEvent)
    BY DEF PartnerTyped, PartnerTypeOK
  <2>2. new \in PartnerEvent
    BY <1>1, <2>1 DEF Events
  <2>3. QED
    BY <2>2, CashAssumption DEF PartnerEvent
<1>3. EntriesFit'
  BY <1>1 DEF PayersFit, EntriesFit
<1>4. ASSUME NEW partner, FundingStands(partner)', new.partner = partner PROVE new.entry >= 0
  <2>1. CASE new.entry < 0
    <3>1. PICK j \in Events : /\ new.reversalOf = j
                              /\ event[j].kind = "funding"
                              /\ event[j].partner = partner
      BY <1>4, <2>1
    <3>2. EventReversed(j)' /\ j \in Events' /\ event'[j] = event[j]
      BY <1>1, <3>1 DEF EventReversed
    <3>3. QED
      BY <1>4, <3>1, <3>2 DEF FundingStands
  <2>2. QED
    BY <1>2, <2>1
<1>5. ASSUME NEW partner, FundingStands(partner)', NEW date
      PROVE  /\ FundingStands(partner)
             /\ BalanceAsOf(partner, date) \in Int
             /\ BalanceAsOf(partner, date)' \in Int
             /\ BalanceAsOf(partner, date)' >= BalanceAsOf(partner, date)
  <2>1. BalanceAsOf(partner, date)' = BalanceAsOf(partner, date)
           + (IF new.partner = partner /\ new.date <= date THEN new.entry ELSE 0)
    BY BalanceGrows
  <2>2. BalanceAsOf(partner, date) \in Int
    BY BalanceInt DEF PartnerTyped
  <2>3. QED
    BY <1>2, <1>4, <1>5, <2>1, <2>2, PastStands
<1>6. OneReimbursement'
  BY DEF PayersFit, OneReimbursement
<1>7. PendingCovered'
  <2>1. SUFFICES ASSUME NEW t \in Payers, reimbursing[t] # NoRow,
                        FundingStands(reimbursing[t].partner)'
                 PROVE  BalanceAsOf(reimbursing[t].partner, reimbursing[t].date)'
                           >= reimbursing[t].amount
    BY DEF PendingCovered
  <2> DEFINE c == reimbursing[t]
  <2>2. c.amount \in Nat
    <3>1. c \in Reimbursement
      BY <2>1 DEF PartnerTyped, PartnerTypeOK
    <3> HIDE DEF c
    <3>2. c.amount \in Amounts
      BY <3>1 DEF Reimbursement
    <3>3. QED
      BY <3>2, CashAssumption
  <2>3. /\ FundingStands(c.partner)
        /\ BalanceAsOf(c.partner, c.date) \in Int
        /\ BalanceAsOf(c.partner, c.date)' \in Int
        /\ BalanceAsOf(c.partner, c.date)' >= BalanceAsOf(c.partner, c.date)
    BY <1>5, <2>1
  <2>4. BalanceAsOf(c.partner, c.date) >= c.amount
    BY <2>1, <2>3 DEF PayersFit, PendingCovered
  <2>5. QED
    BY <2>2, <2>3, <2>4
<1>8. ReimbursementsAreCovered'
  <2>1. SUFFICES ASSUME NEW partner \in Partners, NEW date \in Dates,
                        FundingStands(partner)', ReimbursedInDateOrder(partner)'
                 PROVE  BalanceAsOf(partner, date)' >= 0
    BY DEF ReimbursementsAreCovered
  <2>2. ReimbursedInDateOrder(partner)
    BY <2>1, PastStands
  <2>3. QED
    BY <1>5, <2>1, <2>2 DEF ReimbursementsAreCovered
<1>9. QED
  BY <1>3, <1>6, <1>7, <1>8 DEF PayersFit

(* The check and the entry of a reimbursement, and its rollback.            *)
LEMMA CheckStep ==
  ASSUME PartnerTyped, PayersFit, NEW t \in Payers, NEW partner \in Partners,
         NEW a \in Amounts, NEW d \in Dates, NEW k \in ReimburseKeys,
         ReimburseCheck(t, partner, a, d, k)
  PROVE  PayersFit'
<1> DEFINE c == [key |-> k, partner |-> partner, amount |-> a, date |-> d,
                 shown |-> BalanceAsOf(partner, d)]
<1>1. /\ UNCHANGED event
      /\ BalanceAsOf(partner, d) >= a
      /\ \A u \in Payers : reimbursing[u] # NoRow => reimbursing[u].partner # partner
      /\ \A u \in Payers : reimbursing'[u] = IF u = t THEN c ELSE reimbursing[u]
  BY DEF ReimburseCheck, PartnerFree, PartnerTyped, PartnerTypeOK
<1>2. c.partner = partner /\ c.date = d /\ c.amount = a
  OBVIOUS
<1> HIDE DEF c
<1>3. /\ EntriesFit'
      /\ \A p, date : BalanceAsOf(p, date)' = BalanceAsOf(p, date)
      /\ \A p : FundingStands(p)' = FundingStands(p)
  BY <1>1 DEF PayersFit, EntriesFit, Events, BalanceAsOf, FundingStands, EventReversed
<1>4. OneReimbursement'
  BY <1>1, <1>2 DEF PayersFit, OneReimbursement
<1>5. PendingCovered'
  BY <1>1, <1>2, <1>3 DEF PayersFit, PendingCovered
<1>6. QED
  BY <1>3, <1>4, <1>5 DEF PayersFit

LEMMA PostStep ==
  ASSUME PartnerTyped, PartnerTyped', PayersFit, ReimbursementsAreCovered,
         NEW t \in Payers, ReimbursePost(t)
  PROVE  PayersFit' /\ ReimbursementsAreCovered'
<1> DEFINE c == reimbursing[t]
           new == [key |-> c.key, kind |-> "reimbursement", partner |-> c.partner,
                   date |-> c.date, entry |-> -c.amount, snapshot |-> NoRow,
                   shown |-> c.shown, reversalOf |-> 0]
<1>1. /\ c # NoRow
      /\ AppendsEvent(new)
      /\ \A u \in Payers : reimbursing'[u] = IF u = t THEN NoRow ELSE reimbursing[u]
  BY DEF ReimbursePost, AppendsEvent, PartnerTyped, PartnerTypeOK
<1>2. c.amount \in Nat /\ c.date \in Dates /\ c.date \in Nat /\ c.partner \in Partners
  <2>1. c \in Reimbursement
    BY <1>1 DEF PartnerTyped, PartnerTypeOK
  <2> HIDE DEF c
  <2>2. QED
    BY <2>1, CashAssumption DEF Reimbursement
<1>3. /\ new.kind = "reimbursement" /\ new.partner = c.partner /\ new.date = c.date
      /\ new.entry = -c.amount
  OBVIOUS
<1> HIDE DEF new
<1>4. /\ Len(event) + 1 \in Events' /\ event'[Len(event) + 1] = new
      /\ \A i \in Events' : (i \in Events /\ event'[i] = event[i]) \/ event'[i] = new
      /\ \A i \in Events : i \in Events' /\ event'[i] = event[i] /\ i < Len(event) + 1
  BY <1>1, GrownEvents
<1>5. EntriesFit'
  BY <1>2, <1>3, <1>4 DEF PayersFit, EntriesFit
<1>6. ASSUME NEW partner, NEW date
      PROVE  /\ BalanceAsOf(partner, date) \in Int
             /\ BalanceAsOf(partner, date)' = BalanceAsOf(partner, date)
                   - (IF c.partner = partner /\ c.date <= date THEN c.amount ELSE 0)
  <2>1. BalanceAsOf(partner, date)' = BalanceAsOf(partner, date)
           + (IF new.partner = partner /\ new.date <= date THEN new.entry ELSE 0)
    BY <1>1, BalanceGrows
  <2>2. BalanceAsOf(partner, date) \in Int
    BY BalanceInt DEF PartnerTyped
  <2> HIDE DEF c
  <2>3. QED
    BY <1>2, <1>3, <2>1, <2>2
<1>7. OneReimbursement'
  BY <1>1 DEF PayersFit, OneReimbursement
<1>8. PendingCovered'
  <2>1. SUFFICES ASSUME NEW u \in Payers, u # t, reimbursing[u] # NoRow,
                        NEW p, NEW d, p = reimbursing[u].partner, d = reimbursing[u].date,
                        FundingStands(p)'
                 PROVE  BalanceAsOf(p, d)' >= reimbursing[u].amount
    BY <1>1 DEF PendingCovered
  <2>2. p # c.partner
    BY <1>1, <2>1 DEF PayersFit, OneReimbursement
  <2>3. FundingStands(p)
    BY <1>1, <2>1, PastStands
  <2>4. BalanceAsOf(p, d) >= reimbursing[u].amount
    BY <2>1, <2>3 DEF PayersFit, PendingCovered
  <2>5. BalanceAsOf(p, d)' = BalanceAsOf(p, d)
    BY <1>6, <2>2
  <2>6. QED
    BY <2>4, <2>5
<1>9. ReimbursementsAreCovered'
  <2>1. SUFFICES ASSUME NEW partner \in Partners, NEW date \in Dates,
                        FundingStands(partner)', ReimbursedInDateOrder(partner)'
                 PROVE  BalanceAsOf(partner, date)' >= 0
    BY DEF ReimbursementsAreCovered
  <2>2. FundingStands(partner) /\ ReimbursedInDateOrder(partner)
    BY <1>1, <2>1, PastStands
  <2>3. BalanceAsOf(partner, date) >= 0
    BY <2>2 DEF ReimbursementsAreCovered
  <2>4. CASE c.partner = partner /\ c.date <= date
    <3>1. BalanceAsOf(partner, c.date) >= c.amount
      BY <1>1, <2>2, <2>4 DEF PayersFit, PendingCovered
    <3>2. \A i \in Events : event[i].partner = partner /\ event[i].kind = "reimbursement"
                               => event[i].date <= c.date
      BY <1>3, <1>4, <2>1, <2>4 DEF ReimbursedInDateOrder
    <3>3. BalanceAsOf(partner, c.date) <= BalanceAsOf(partner, date)
      BY <1>2, <2>2, <2>4, <3>2, LaterBalance DEF PayersFit
    <3>4. /\ BalanceAsOf(partner, c.date) \in Int /\ BalanceAsOf(partner, date) \in Int
          /\ BalanceAsOf(partner, date)' = BalanceAsOf(partner, date) - c.amount
      BY <1>6, <2>4
    <3> HIDE DEF c
    <3>5. QED
      BY <1>2, <3>1, <3>3, <3>4
  <2>5. QED
    BY <1>6, <2>3, <2>4
<1>10. QED
  BY <1>5, <1>7, <1>8, <1>9 DEF PayersFit

LEMMA RollbackStep ==
  ASSUME PartnerTyped, PayersFit, NEW t \in Payers, ReimburseAbort(t)
  PROVE  PayersFit'
<1>1. /\ UNCHANGED event
      /\ \A u \in Payers : reimbursing'[u] = IF u = t THEN NoRow ELSE reimbursing[u]
  BY DEF ReimburseAbort, PartnerTyped, PartnerTypeOK
<1>2. /\ EntriesFit'
      /\ \A p, date : BalanceAsOf(p, date)' = BalanceAsOf(p, date)
      /\ \A p : FundingStands(p)' = FundingStands(p)
  BY <1>1 DEF PayersFit, EntriesFit, Events, BalanceAsOf, FundingStands, EventReversed
<1>3. OneReimbursement'
  BY <1>1 DEF PayersFit, OneReimbursement
<1>4. PendingCovered'
  BY <1>1, <1>2 DEF PayersFit, PendingCovered
<1>5. QED
  BY <1>2, <1>3, <1>4 DEF PayersFit

(* The balance is a matter of the events.                                   *)
LEMMA SameEvents ==
  ASSUME UNCHANGED event, ReimbursementsAreCovered
  PROVE  ReimbursementsAreCovered'
BY DEF ReimbursementsAreCovered, BalanceAsOf, Events, FundingStands, EventReversed,
   ReimbursedInDateOrder

LEMMA PayersStep ==
  ASSUME PartnerInv, PartnerTyped', PayersFit, ReimbursementsAreCovered,
         [PartnerNext]_allVars
  PROVE  PayersFit' /\ ReimbursementsAreCovered'
<1> USE DEF PartnerInv
<1>1. ASSUME UNCHANGED <<event, reimbursing>>
      PROVE  PayersFit' /\ ReimbursementsAreCovered'
  <2>1. PayersFit'
    BY <1>1 DEF PayersFit, EntriesFit, OneReimbursement, PendingCovered, Events, BalanceAsOf,
       FundingStands, EventReversed
  <2>2. QED
    BY <1>1, <2>1, SameEvents
<1>2. ASSUME NEW s \in Cashiers, FundedPost(s)
      PROVE  PayersFit' /\ ReimbursementsAreCovered'
  <2> DEFINE new == [key |-> key[s], kind |-> "funding", partner |-> funder[s],
                     date |-> preview[s].date, entry |-> preview[s].amount,
                     snapshot |-> preview[s], shown |-> shown[s], reversalOf |-> 0]
  <2>1. AppendsEvent(new) /\ UNCHANGED reimbursing
    BY <1>2 DEF FundedPost, AppendsEvent
  <2>2. preview[s].amount \in Nat
    <3>1. step[s] = "posting"
      BY <1>2 DEF FundedPost
    <3>2. preview[s] \in Snapshot
      BY <3>1, SubmittedType DEF PartnerTyped
    <3>3. QED
      BY <3>2, CashAssumption DEF Snapshot
  <2>3. new.kind # "reimbursement" /\ ~(new.entry < 0)
    BY <2>2
  <2> HIDE DEF new
  <2>4. QED
    BY <2>1, <2>3, CreditStep
<1>3. ASSUME NEW i \in Events, NEW k \in UndoKeys, UndoEvent(i, k)
      PROVE  PayersFit' /\ ReimbursementsAreCovered'
  <2> DEFINE new == [key |-> k, kind |-> "reversal", partner |-> event[i].partner,
                     date |-> event[i].date, entry |-> -event[i].entry,
                     snapshot |-> event[i].snapshot, shown |-> event[i].shown,
                     reversalOf |-> i]
  <2>1. AppendsEvent(new) /\ UNCHANGED reimbursing
    BY <1>3 DEF UndoEvent, AppendsEvent
  <2>2. event[i].entry \in Int
    BY EventsTyped DEF PartnerTyped
  <2>3. event[i].kind = "funding" \/ event[i].kind = "reimbursement"
    BY <1>3 DEF UndoEvent, UndoFunding, UndoReimbursement
  <2>4. event[i].kind = "reimbursement" => event[i].entry <= 0
    BY DEF PayersFit, EntriesFit
  <2>5. /\ new.kind # "reimbursement" /\ new.entry = -event[i].entry
        /\ new.reversalOf = i /\ new.partner = event[i].partner
    OBVIOUS
  <2> HIDE DEF new
  <2>6. new.entry < 0 => \E j \in Events : /\ new.reversalOf = j
                                           /\ event[j].kind = "funding"
                                           /\ event[j].partner = new.partner
    BY <2>2, <2>3, <2>4, <2>5
  <2>7. QED
    BY <2>1, <2>5, <2>6, CreditStep
<1>4. ASSUME NEW s \in Cashiers, FundedStep(s)
      PROVE  PayersFit' /\ ReimbursementsAreCovered'
  <2>1. ASSUME NEW e \in Entities, NEW partner \in Partners, NEW a \in Amounts,
               NEW d \in Dates, FundedPreview(s, e, partner, a, d)
        PROVE  UNCHANGED <<event, reimbursing>>
    BY <2>1 DEF FundedPreview
  <2>2. ASSUME NEW k \in FundKeys, FundedCall(s, k) PROVE UNCHANGED <<event, reimbursing>>
    BY <2>2 DEF FundedCall, partnerVars
  <2>3. ASSUME \/ FundedLock(s) \/ FundedReplay(s) \/ FundedRefuse(s) \/ FundedAccept(s)
               \/ FundedWalk(s) \/ FundedFail(s) \/ FundedAbort(s)
        PROVE  UNCHANGED <<event, reimbursing>>
    BY <2>3 DEF FundedLock, FundedReplay, FundedRefuse, FundedAccept, FundedWalk, FundedFail,
       FundedAbort, partnerVars
  <2>4. QED
    BY <1>1, <1>2, <1>4, <2>1, <2>2, <2>3 DEF FundedStep
<1>5. ASSUME NEW s \in Cashiers, OwnStep(s)
      PROVE  PayersFit' /\ ReimbursementsAreCovered'
  BY <1>1, <1>5 DEF OwnStep, OwnPreview, partnerVars
<1>6. ASSUME NEW i \in Rows, NEW k \in ReversalKeys \ UndoKeys, ReverseOwn(i, k)
      PROVE  PayersFit' /\ ReimbursementsAreCovered'
  BY <1>1, <1>6 DEF ReverseOwn, partnerVars
<1>7. ASSUME NEW t \in Payers, NEW partner \in Partners, NEW a \in Amounts, NEW d \in Dates,
             NEW k \in ReimburseKeys, ReimburseCheck(t, partner, a, d, k)
      PROVE  PayersFit' /\ ReimbursementsAreCovered'
  <2>1. UNCHANGED event
    BY <1>7 DEF ReimburseCheck
  <2>2. QED
    BY <1>7, <2>1, CheckStep, SameEvents
<1>8. ASSUME NEW t \in Payers, ReimburseAbort(t)
      PROVE  PayersFit' /\ ReimbursementsAreCovered'
  <2>1. UNCHANGED event
    BY <1>8 DEF ReimburseAbort
  <2>2. QED
    BY <1>8, <2>1, RollbackStep, SameEvents
<1>9. CASE ObligationsNext /\ UNCHANGED <<cashVars, partnerVars>>
  BY <1>1, <1>9 DEF partnerVars
<1>10. CASE UNCHANGED allVars
  BY <1>1, <1>10 DEF allVars, partnerVars
<1>11. ASSUME NEW t \in Payers, ReimbursePost(t)
       PROVE  PayersFit' /\ ReimbursementsAreCovered'
  BY <1>11, PostStep
<1>12. CASE PartnerStep
  BY <1>3, <1>4, <1>5, <1>6, <1>7, <1>8, <1>11, <1>12 DEF PartnerStep
<1>13. QED
  BY <1>9, <1>10, <1>12 DEF PartnerNext

(* A partner whose payments stand and whose reimbursements are entered in  *)
(* the order of their dates is never, on any date, paid back more than he  *)
(* paid, however many members of staff reimburse him at once.              *)
THEOREM PartnersAreNotOverpaid == PartnerSpec => []ReimbursementsAreCovered
<1>1. Init /\ PartnerInit => PayersFit /\ ReimbursementsAreCovered
  <2>1. SUFFICES ASSUME PartnerInit PROVE PayersFit /\ ReimbursementsAreCovered
    OBVIOUS
  <2>2. Events = {} /\ Len(event) = 0 /\ \A t \in Payers : reimbursing[t] = NoRow
    BY <2>1 DEF PartnerInit, Events
  <2>3. \A f : SumTo(f, 0) = 0
    BY SumToStep
  <2>4. QED
    BY <2>2, <2>3 DEF PayersFit, EntriesFit, OneReimbursement, PendingCovered,
       ReimbursementsAreCovered, BalanceAsOf
<1>2. PartnerInv /\ Balanced /\ PayersFit /\ ReimbursementsAreCovered /\ [PartnerNext]_allVars
        => PayersFit' /\ ReimbursementsAreCovered'
  BY PartnerStepInv, PayersStep DEF PartnerInv
<1>3. QED
  BY <1>1, <1>2, PartnerInitInv, PartnerStepInv, PTL DEF PartnerSpec
=============================================================================
