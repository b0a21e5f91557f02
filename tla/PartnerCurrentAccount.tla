------------------------ MODULE PartnerCurrentAccount ------------------------
(***************************************************************************)
(* The current account between the company and a partner who pays clients  *)
(* from his own pocket.  A payment funded by a partner is a cash           *)
(* settlement like any other, and credits the partner in the same          *)
(* transaction; a reimbursement pays him back; either can be reversed.     *)
(*                                                                         *)
(* A funded call goes through the steps of ClientCashSettlement: the same  *)
(* locks, the same rows.  What differs is said here: its preview also      *)
(* shows the balance of the partner, and the walk is read once more after  *)
(* the check, by a later statement.  A reimbursement is checked and        *)
(* written under a lock of the partner.  A reversal takes the lock of the  *)
(* event it reverses and no other: neither of the client nor of the        *)
(* partner, so it can commit in the middle of all of these.                *)
(***************************************************************************)
EXTENDS ClientCashSettlement

CONSTANTS
    Partners,
    Payers,        \* members of staff who reimburse partners
    FundKeys,      \* idempotency keys of funded executions
    ReimburseKeys, \* of reimbursements
    UndoKeys,      \* of reversals of either
    NoPartner

(* Keys of funded executions and their reversals carry the prefix pf-cash: *)
(* in the table of executions; staff get a fresh key for each call.        *)
ASSUME PartnerAssumption ==
    /\ FundKeys \subseteq ExecKeys
    /\ UndoKeys \subseteq ReversalKeys
    /\ ReimburseKeys \cap (ExecKeys \cup ReversalKeys) = {}
    /\ ExecKeys \cap ReversalKeys = {}
    /\ NoPartner \notin Partners

VARIABLES
    event,       \* partner_funding_events in commit order, each with its entry
    funder,      \* the partner each cashier's preview names, or NoPartner
    shown,       \* the balance of the partner in that preview
    walk,        \* the walk a posting call has read again
    reimbursing  \* the reimbursement each payer is writing

partnerVars == <<event, funder, shown, walk, reimbursing>>
allVars == <<vars, partnerVars>>

Events == DOMAIN event

NullBalance(partner, date) ==   \* fault: no entry is NULL and not 0
    IF \A i \in Events : event[i].partner # partner \/ event[i].date > date THEN NoRow
    ELSE SumTo([i \in Events |-> IF event[i].partner = partner /\ event[i].date <= date
                                 THEN event[i].entry ELSE 0], Len(event))

(* partner_ca_balance: positive is what the company owes the partner.      *)
BalanceAsOf(partner, date) ==
    SumTo([i \in Events |-> IF event[i].partner = partner /\ event[i].date <= date
                            THEN event[i].entry ELSE 0], Len(event))

EventOf(k) == event[CHOOSE i \in Events : event[i].key = k]

EventKeyUsed(k) == \E i \in Events : event[i].key = k

NoEventReversed(i) == FALSE   \* fault: earlier reversals are not looked for

EventReversed(i) == \E j \in Events : event[j].reversalOf = i

PartnerInit ==
    /\ event = <<>>
    /\ funder = [s \in Cashiers |-> NoPartner]
    /\ shown = [s \in Cashiers |-> 0]
    /\ walk = [s \in Cashiers |-> NoRow]
    /\ reimbursing = [t \in Payers |-> NoRow]

-----------------------------------------------------------------------------
(* A call of execute_partner_funded_client_settlement.                     *)

Funded(s) == funder[s] # NoPartner

FundedPreview(s, entity, partner, amount, date) ==
    /\ Preview(s, entity, "JJ_TO_CLIENT", amount, date)
    /\ funder' = [funder EXCEPT ![s] = partner]
    /\ shown' = [shown EXCEPT ![s] = BalanceAsOf(partner, date)]
    /\ UNCHANGED <<event, walk, reimbursing>>

FundedCall(s, k) ==
    /\ Funded(s)
    /\ k \in FundKeys
    /\ ExecuteCall(s, k)
    /\ UNCHANGED partnerVars

(* The lock of the key, before that of the client.                         *)
KeyFree(s) ==
    \A t \in Cashiers \ {s} : HoldsEntity(t, preview[t].entity) => key[t] # key[s]

FundedLock(s) ==
    /\ Funded(s)
    /\ step[s] = "waiting"
    /\ KeyFree(s)
    /\ ExecuteLock(s)
    /\ UNCHANGED partnerVars

(* The hash of the preview covers the partner and his balance too.         *)
SameFunding(s) ==
    LET row == EventOf(key[s]) IN
    /\ row.snapshot = preview[s]
    /\ row.partner = funder[s]
    /\ row.shown = shown[s]

BalanceIsShown(s) == BalanceAsOf(funder[s], preview[s].date) = shown[s]

FundedReplay(s) ==
    /\ Funded(s)
    /\ step[s] = "locking"
    /\ UsedKey(key[s])
    /\ SameFunding(s)
    /\ EndCall(s, RowOf(key[s]))
    /\ UNCHANGED <<execution, partnerVars>>

FundedRefuse(s) ==
    /\ Funded(s)
    /\ step[s] = "locking"
    /\ IF UsedKey(key[s]) THEN ~SameFunding(s)
       ELSE ~StillCurrent(preview[s]) \/ ~BalanceIsShown(s) \/ ~Settles(preview[s])
    /\ EndCall(s, 0)
    /\ UNCHANGED <<execution, partnerVars>>

FundedAccept(s) ==
    /\ Funded(s)
    /\ ExecuteAccept(s)
    /\ BalanceIsShown(s)
    /\ UNCHANGED partnerVars

(* v_fifo: the walk whose slices are written is read after the check.      *)
FundedWalk(s) ==
    LET p == preview[s] IN
    /\ Funded(s)
    /\ step[s] = "posting"
    /\ walk[s] = NoRow
    /\ walk' = [walk EXCEPT ![s] = SnapshotNow(p.entity, p.direction, p.amount, p.date)]
    /\ UNCHANGED <<vars, event, funder, shown, reimbursing>>

AnyWalk(p) == TRUE   \* fault: the sum of the slices is not compared with the amount

(* v_sum = p_amount.  That the second walk is blocked for another reason   *)
(* is not looked at.                                                       *)
FullyWalked(p) == Unapplied(OpenAmounts(p), p.amount, NumLines) = 0

(* The event, the cash transaction, the execution, its slices and the      *)
(* entry of the partner are inserted and committed.                        *)
FundedPost(s) ==
    LET p == preview[s] IN
    /\ Funded(s)
    /\ step[s] = "posting"
    /\ walk[s] # NoRow
    /\ FullyWalked(walk[s])
    /\ Postable(walk[s])
    /\ PaidLines(walk[s]) \cap LockedLines = {}
    /\ ~UsedKey(key[s])
    /\ execution' = Append(execution,
          [key |-> key[s], snapshot |-> p, cash |-> p.amount,
           signed |-> Slices(walk[s]), reversalOf |-> 0])
    /\ event' = Append(event,
          [key |-> key[s], kind |-> "funding", partner |-> funder[s], date |-> p.date,
           entry |-> p.amount, snapshot |-> p, shown |-> shown[s], reversalOf |-> 0])
    /\ EndCall(s, Len(execution) + 1)
    /\ walk' = [walk EXCEPT ![s] = NoRow]
    /\ UNCHANGED <<funder, shown, reimbursing>>

(* An exception of the loop or a refused insert, or a dropped connection:  *)
(* everything is rolled back.                                              *)
FundedFail(s) ==
    /\ Funded(s)
    /\ step[s] = "posting"
    /\ walk[s] # NoRow
    /\ UsedKey(key[s]) \/ ~FullyWalked(walk[s]) \/ ~Postable(walk[s])
    /\ EndCall(s, 0)
    /\ walk' = [walk EXCEPT ![s] = NoRow]
    /\ UNCHANGED <<execution, event, funder, shown, reimbursing>>

FundedAbort(s) ==
    /\ Funded(s)
    /\ ExecuteAbort(s)
    /\ walk' = [walk EXCEPT ![s] = NoRow]
    /\ UNCHANGED <<event, funder, shown, reimbursing>>

FundedStep(s) ==
    \/ \E entity \in Entities, partner \in Partners, amount \in Amounts, date \in Dates :
          FundedPreview(s, entity, partner, amount, date)
    \/ \E k \in FundKeys : FundedCall(s, k)
    \/ FundedLock(s)
    \/ FundedReplay(s)
    \/ FundedRefuse(s)
    \/ FundedAccept(s)
    \/ FundedWalk(s)
    \/ FundedPost(s)
    \/ FundedFail(s)
    \/ FundedAbort(s)

(* A cashier who pays out of the cash of the company.                      *)
OwnPreview(s) ==
    /\ \E entity \in Entities, direction \in Directions, amount \in Amounts, date \in Dates :
          Preview(s, entity, direction, amount, date)
    /\ funder' = [funder EXCEPT ![s] = NoPartner]
    /\ shown' = [shown EXCEPT ![s] = 0]
    /\ UNCHANGED <<event, walk, reimbursing>>

OwnStep(s) ==
    \/ OwnPreview(s)
    \/ /\ ~Funded(s)
       /\ \/ \E k \in ExecKeys \ FundKeys : ExecuteCall(s, k)
          \/ ExecuteLock(s)
          \/ ExecuteReplay(s)
          \/ ExecuteRefuse(s)
          \/ ExecuteAccept(s)
          \/ ExecutePost(s)
          \/ ExecuteFail(s)
          \/ ExecuteAbort(s)
       /\ UNCHANGED partnerVars

-----------------------------------------------------------------------------
(* execute_partner_reimbursement.  A preview that does not show the live   *)
(* balance is refused, so the balance previewed is the balance checked.    *)
NoPartnerLock(partner) == TRUE   \* fault: the lock of the partner is not taken

PartnerFree(partner) ==
    \A t \in Payers : reimbursing[t] # NoRow => reimbursing[t].partner # partner

ReimburseKeyFree(k) ==
    \A t \in Payers : reimbursing[t] # NoRow => reimbursing[t].key # k

ReimburseCheck(t, partner, amount, date, k) ==
    /\ reimbursing[t] = NoRow
    /\ ReimburseKeyFree(k)
    /\ PartnerFree(partner)
    /\ ~EventKeyUsed(k)
    /\ BalanceAsOf(partner, date) >= amount
    /\ reimbursing' = [reimbursing EXCEPT ![t] =
          [key |-> k, partner |-> partner, amount |-> amount, date |-> date,
           shown |-> BalanceAsOf(partner, date)]]
    /\ UNCHANGED <<vars, event, funder, shown, walk>>

ReimbursePost(t) ==
    LET call == reimbursing[t] IN
    /\ call # NoRow
    /\ event' = Append(event,
          [key |-> call.key, kind |-> "reimbursement", partner |-> call.partner,
           date |-> call.date, entry |-> -call.amount, snapshot |-> NoRow,
           shown |-> call.shown, reversalOf |-> 0])
    /\ reimbursing' = [reimbursing EXCEPT ![t] = NoRow]
    /\ UNCHANGED <<vars, funder, shown, walk>>

ReimburseAbort(t) ==
    /\ reimbursing[t] # NoRow
    /\ reimbursing' = [reimbursing EXCEPT ![t] = NoRow]
    /\ UNCHANGED <<vars, event, funder, shown, walk>>

-----------------------------------------------------------------------------
(* reverse_partner_funding_event: the entry is taken back on the date of   *)
(* the event and, if the event is a payment, its slices with it.  Nothing  *)
(* is asked of the balance.                                                *)
UndoFunding(i, k) ==
    LET r == RowOf(event[i].key)
        row == execution[r]
    IN
    /\ event[i].kind = "funding"
    /\ {l \in Lines : row.signed[l] # 0} \cap LockedLines = {}
    /\ execution' = Append(execution,
          [key |-> k, snapshot |-> row.snapshot, cash |-> -row.cash,
           signed |-> [l \in Lines |-> -row.signed[l]], reversalOf |-> r])

UndoReimbursement(i) == event[i].kind = "reimbursement" /\ UNCHANGED execution

UndoEvent(i, k) ==
    /\ ~EventKeyUsed(k)
    /\ ~EventReversed(i)
    /\ UndoFunding(i, k) \/ UndoReimbursement(i)
    /\ event' = Append(event,
          [key |-> k, kind |-> "reversal", partner |-> event[i].partner,
           date |-> event[i].date, entry |-> -event[i].entry,
           snapshot |-> event[i].snapshot, shown |-> event[i].shown, reversalOf |-> i])
    /\ UNCHANGED <<obligationVars, step, scanned, preview, key, answer,
                   funder, shown, walk, reimbursing>>

NeverFunded(i) == FALSE   \* fault: the guard on funded rows is missing

FundedRow(i) == execution[i].key \in FundKeys \cup UndoKeys

(* reverse_client_cash_settlement refuses rows of a partner.               *)
ReverseOwn(i, k) ==
    /\ ~FundedRow(i)
    /\ Reverse(i, k)
    /\ UNCHANGED partnerVars

PartnerStep ==
    \/ \E s \in Cashiers : FundedStep(s) \/ OwnStep(s)
    \/ \E t \in Payers :
          \/ \E partner \in Partners, amount \in Amounts, date \in Dates, k \in ReimburseKeys :
                ReimburseCheck(t, partner, amount, date, k)
          \/ ReimbursePost(t)
          \/ ReimburseAbort(t)
    \/ \E i \in Events, k \in UndoKeys : UndoEvent(i, k)
    \/ \E i \in Rows, k \in ReversalKeys \ UndoKeys : ReverseOwn(i, k)

PartnerNext ==
    \/ ObligationsNext /\ UNCHANGED <<cashVars, partnerVars>>
    \/ PartnerStep

PartnerSpec == Init /\ PartnerInit /\ [][PartnerNext]_allVars

-----------------------------------------------------------------------------
PartnerEvent ==
    [key : FundKeys \cup ReimburseKeys \cup UndoKeys,
     kind : {"funding", "reimbursement", "reversal"}, partner : Partners,
     date : Dates, entry : Int, snapshot : Snapshot \cup {NoRow}, shown : Int,
     reversalOf : Nat]

Reimbursement ==
    [key : ReimburseKeys, partner : Partners, amount : Amounts, date : Dates, shown : Int]

PartnerTypeOK ==
    /\ event \in Seq(PartnerEvent)
    /\ funder \in [Cashiers -> Partners \cup {NoPartner}]
    /\ shown \in [Cashiers -> Int]
    /\ walk \in [Cashiers -> Snapshot \cup {NoRow}]
    /\ reimbursing \in [Payers -> Reimbursement \cup {NoRow}]

(* On every date, what a partner has been credited for his payments is the *)
(* cash that the clients' ledger says he paid, reversals included: no      *)
(* order of payments and reversals, of either kind, takes back one without *)
(* the other.                                                              *)
Origin(r) == IF r.reversalOf = 0 THEN r.key ELSE execution[r.reversalOf].key

PaidBy(i, partner) ==
    /\ Origin(execution[i]) \in FundKeys
    /\ EventOf(Origin(execution[i])).partner = partner

FundingEntry(i) ==
    \/ event[i].kind = "funding"
    \/ event[i].reversalOf # 0 /\ event[event[i].reversalOf].kind = "funding"

CreditsAreFundedCash ==
    \A partner \in Partners, date \in Dates :
        SumTo([i \in Events |->
                  IF FundingEntry(i) /\ event[i].partner = partner /\ event[i].date <= date
                  THEN event[i].entry ELSE 0], Len(event))
      = SumTo([i \in Rows |->
                  IF PaidBy(i, partner) /\ execution[i].snapshot.date <= date
                  THEN execution[i].cash ELSE 0], Len(execution))

(* A partner is never paid back more than he was owed, on any date, as     *)
(* long as his payments stand and his reimbursements are entered in the    *)
(* order of their dates, however many members of staff reimburse him at    *)
(* once.  Neither condition can be left out: a reversal asks nothing of    *)
(* the balance, and the check looks at the balance of its own date only.   *)
FundingStands(partner) ==
    \A i \in Events : event[i].partner = partner /\ event[i].kind = "funding" => ~EventReversed(i)

ReimbursedInDateOrder(partner) ==
    \A i, j \in Events :
        /\ i < j
        /\ event[i].partner = partner /\ event[i].kind = "reimbursement"
        /\ event[j].partner = partner /\ event[j].kind = "reimbursement"
        => event[i].date <= event[j].date

ReimbursementsAreCovered ==
    \A partner \in Partners :
        FundingStands(partner) /\ ReimbursedInDateOrder(partner) =>
            \A date \in Dates : BalanceAsOf(partner, date) >= 0
=============================================================================
