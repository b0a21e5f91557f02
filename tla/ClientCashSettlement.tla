------------------------ MODULE ClientCashSettlement ------------------------
(***************************************************************************)
(* Cash settlement of client obligations.  A cashier previews how a        *)
(* payment walks the open obligations of a client, and then executes that  *)
(* very preview: the procedure recomputes it under the lock of the client, *)
(* refuses if anything moved, and writes one execution row, one cash       *)
(* transaction and one signed slice per obligation paid.  A reversal is a  *)
(* new row with the opposite cash and the opposite slices.  Rows are never *)
(* updated or deleted.                                                     *)
(*                                                                         *)
(* Executions run as concurrent transactions, interleaved with the steps   *)
(* of ClientObligations.  The locks are those of the code: the advisory    *)
(* lock of the client, the client's active binding rows FOR UPDATE, and    *)
(* the key-share lock that the foreign key of a slice takes on its line.   *)
(***************************************************************************)
EXTENDS ClientObligations

CONSTANTS
    ExecKeys,       \* idempotency keys of executions
    ReversalKeys,   \* idempotency keys of reversals (the same UNIQUE column)
    Dates,          \* effective dates of payments
    Amounts,        \* payment amounts, in cents
    NettedRegister, \* does the register subtract the slices already posted?
    NoKey

Directions == {"JJ_TO_CLIENT", "CLIENT_TO_JJ"}

ASSUME CashAssumption ==
    /\ Dates \subseteq Nat
    /\ Amounts \subseteq Nat \ {0}
    /\ NettedRegister \in BOOLEAN
    /\ NoKey \notin ExecKeys \cup ReversalKeys

VARIABLES
    execution,  \* executions in commit order, each with its cash and slices
    step,       \* where the call of each cashier is
    scanned,    \* binding rows its locking statement has read
    preview,    \* the snapshot each cashier submits
    key,        \* the idempotency key of the call
    answer      \* the row named by the last ok reply, 0 if there is none

cashVars == <<execution, step, scanned, preview, key, answer>>
vars == <<obligationVars, cashVars>>

Rows == DOMAIN execution

(* Sum of the slices on line l over the first n rows, reversals included.  *)
AllocatedUpTo(l, n) ==
    SumTo([i \in 1..n |-> execution[i].signed[l]], n)

Allocated(l) == AllocatedUpTo(l, Len(execution))

(* remaining_signed_amount of the register as the migration that introduces *)
(* cash settlement defines it.                                             *)
NettedRemaining(l) ==
    Original[l] + (IF HeaderOf[l] \in OwnerLevel THEN 0 ELSE Allocated(l))

(* remaining_signed_amount of the register as it is read.  The migration   *)
(* that adds owner-level obligations redefines the view and drops the      *)
(* subtraction of slices: NettedRegister = FALSE.                          *)
Remaining(l) == IF NettedRegister THEN NettedRemaining(l) ELSE Original[l]

(* v_client_property_obligation_register and ..._unbound_lines, for one    *)
(* client and date.                                                        *)
Due(entity, date) ==
    {l \in Lines : /\ EntityOf[HeaderOf[l]] = entity
                   /\ status[HeaderOf[l]] = "applied"
                   /\ DateOf[HeaderOf[l]] <= date}

UnboundLines(entity, date) ==
    {l \in Due(entity, date) : HeaderOf[l] \notin OwnerLevel /\ ~Bound(l)}

Register(entity, date) == Due(entity, date) \ UnboundLines(entity, date)

PropertyOf(l) == IF HeaderOf[l] \in OwnerLevel THEN NoRow ELSE BoundProperty(l)

(* canonical_snapshot of a preview.  Its hash is equal exactly when the    *)
(* snapshot is; the allocations it lists are a function of the rest.       *)
SnapshotNow(entity, direction, amount, date) ==
    LET register == Register(entity, date) IN
    [entity |-> entity, direction |-> direction, amount |-> amount, date |-> date,
     register |-> register,
     remaining |-> [l \in Lines |-> IF l \in register THEN Remaining(l) ELSE 0],
     property |-> [l \in Lines |-> IF l \in register THEN PropertyOf(l) ELSE NoRow],
     unbound |-> UnboundLines(entity, date)]

Sign(direction) == IF direction = "JJ_TO_CLIENT" THEN -1 ELSE 1

(* What the walk can take from each line: its absolute remaining amount if *)
(* its sign is that of the payment.                                        *)
OpenAmounts(p) ==
    [l \in Lines |-> LET open == -Sign(p.direction) * p.remaining[l]
                     IN  IF open > 0 THEN open ELSE 0]

(* blocked_code IS NULL.                                                   *)
Settles(p) ==
    /\ p.unbound = {}
    /\ Unapplied(OpenAmounts(p), p.amount, NumLines) = 0

Slices(p) ==
    [l \in Lines |-> Sign(p.direction) * Applied(OpenAmounts(p), p.amount, l)]

CashInit ==
    /\ execution = <<>>
    /\ step = [s \in Cashiers |-> "idle"]
    /\ scanned = [s \in Cashiers |-> {}]
    /\ preview = [s \in Cashiers |-> NoRow]
    /\ key = [s \in Cashiers |-> NoKey]
    /\ answer = [s \in Cashiers |-> 0]

Init == ObligationsInit /\ CashInit

-----------------------------------------------------------------------------
UsedKey(k) == \E i \in Rows : execution[i].key = k

RowOf(k) == CHOOSE i \in Rows : execution[i].key = k

HoldsAfterReply(s, entity) ==   \* fault: a lock of the session, kept after commit
    /\ step[s] \in {"locking", "posting"} \/ answer[s] # 0
    /\ preview[s] # NoRow
    /\ preview[s].entity = entity

(* Cashiers that hold the advisory lock of a client.                       *)
HoldsEntity(s, entity) ==
    step[s] \in {"locking", "posting"} /\ preview[s].entity = entity

NeverLocked(entity) == TRUE   \* fault: the advisory lock is not taken

EntityFree(entity) == \A s \in Cashiers : ~HoldsEntity(s, entity)

ActiveBindingsOf(entity) ==
    {k \in BindKeys : /\ binding[k] # NoRow
                      /\ binding[k].status = "active"
                      /\ EntityOf[HeaderOf[binding[k].line]] = entity}

(* preview_client_cash_settlement.  Nothing is locked, and the cashier may *)
(* keep the answer for as long as she likes.                               *)
Preview(s, entity, direction, amount, date) ==
    /\ step[s] = "idle"
    /\ preview' = [preview EXCEPT ![s] = SnapshotNow(entity, direction, amount, date)]
    /\ key' = [key EXCEPT ![s] = NoKey]
    /\ answer' = [answer EXCEPT ![s] = 0]
    /\ UNCHANGED <<obligationVars, execution, step, scanned>>

(* execute_client_cash_settlement is called, with a new key or, after a    *)
(* lost reply, once more with the same one.                                *)
ExecuteCall(s, k) ==
    /\ step[s] = "idle"
    /\ preview[s] # NoRow
    /\ key' = [key EXCEPT ![s] = k]
    /\ step' = [step EXCEPT ![s] = "waiting"]
    /\ answer' = [answer EXCEPT ![s] = 0]
    /\ UNCHANGED <<obligationVars, execution, scanned, preview>>

LockIntoNowhere(s) ==   \* fault: a step from which no action goes on
    /\ step[s] = "waiting"
    /\ step' = [step EXCEPT ![s] = "reading"]
    /\ UNCHANGED <<obligationVars, execution, scanned, preview, key, answer>>

(* The advisory lock is granted, and the statement that locks the binding  *)
(* rows reads which rows are active.  It can still wait for a remap that   *)
(* holds one of them.                                                      *)
ExecuteLock(s) ==
    /\ step[s] = "waiting"
    /\ EntityFree(preview[s].entity)
    /\ step' = [step EXCEPT ![s] = "locking"]
    /\ scanned' = [scanned EXCEPT ![s] = ActiveBindingsOf(preview[s].entity)]
    /\ UNCHANGED <<obligationVars, execution, preview, key, answer>>

EndCall(s, row) ==
    /\ step' = [step EXCEPT ![s] = "idle"]
    /\ scanned' = [scanned EXCEPT ![s] = {}]
    /\ held' = [held EXCEPT ![s] = {}]
    /\ answer' = [answer EXCEPT ![s] = row]
    /\ UNCHANGED <<status, binding, bindCall, preview, key>>

(* The key was used: the payload decides between the same answer and an    *)
(* idempotency conflict.                                                   *)
SamePayload(i, p) == execution[i].snapshot = p

ExecuteReplay(s) ==
    /\ step[s] = "locking"
    /\ UsedKey(key[s])
    /\ SamePayload(RowOf(key[s]), preview[s])
    /\ EndCall(s, RowOf(key[s]))
    /\ UNCHANGED execution

(* The live preview must be the submitted one.                             *)
StillCurrent(p) == SnapshotNow(p.entity, p.direction, p.amount, p.date) = p

ExecuteRefuse(s) ==
    /\ step[s] = "locking"
    /\ IF UsedKey(key[s]) THEN ~SamePayload(RowOf(key[s]), preview[s])
       ELSE ~StillCurrent(preview[s]) \/ ~Settles(preview[s])
    /\ EndCall(s, 0)
    /\ UNCHANGED execution

(* The preview is current and not blocked.  Of the rows read before, those *)
(* superseded in the meantime are not locked, nor are their successors.    *)
ExecuteAccept(s) ==
    /\ step[s] = "locking"
    /\ ~UsedKey(key[s])
    /\ StillCurrent(preview[s])
    /\ Settles(preview[s])
    /\ step' = [step EXCEPT ![s] = "posting"]
    /\ held' = [held EXCEPT ![s] =
                   scanned[s] \cap ActiveBindingsOf(preview[s].entity)]
    /\ scanned' = [scanned EXCEPT ![s] = {}]
    /\ UNCHANGED <<status, binding, bindCall, execution, preview, key, answer>>

PaidLines(p) == {l \in Lines : Slices(p)[l] # 0}

(* A slice needs a property and a certification line (NOT NULL and foreign *)
(* key), which an owner-level obligation does not have.                    *)
Postable(p) == \A l \in PaidLines(p) : HeaderOf[l] \notin OwnerLevel

PostWithoutKeyCheck(s) ==   \* fault: keys are unique per client only
    /\ step[s] = "posting"
    /\ PaidLines(preview[s]) \cap LockedLines = {}
    /\ Postable(preview[s])
    /\ execution' = Append(execution,
          [key |-> key[s], snapshot |-> preview[s], cash |-> preview[s].amount,
           signed |-> Slices(preview[s]), reversalOf |-> 0])
    /\ EndCall(s, Len(execution) + 1)

(* The cash transaction, its owner link, the execution and its slices are  *)
(* inserted and committed.                                                 *)
ExecutePost(s) ==
    LET p == preview[s] IN
    /\ step[s] = "posting"
    /\ PaidLines(p) \cap LockedLines = {}
    /\ ~UsedKey(key[s])
    /\ Postable(p)
    /\ execution' = Append(execution,
          [key |-> key[s], snapshot |-> p, cash |-> p.amount,
           signed |-> Slices(p), reversalOf |-> 0])
    /\ EndCall(s, Len(execution) + 1)

(* The key was taken on another client, or a slice cannot be written: the  *)
(* insert fails and the transaction is rolled back.                        *)
ExecuteFail(s) ==
    /\ step[s] = "posting"
    /\ UsedKey(key[s]) \/ ~Postable(preview[s])
    /\ EndCall(s, 0)
    /\ UNCHANGED execution

(* The connection drops or the statement times out before the commit.      *)
ExecuteAbort(s) ==
    /\ step[s] \in {"waiting", "locking", "posting"}
    /\ EndCall(s, 0)
    /\ UNCHANGED execution

NeverReversed(i) == FALSE   \* fault: reversals are not looked for

IsReversed(i) == \E j \in Rows : execution[j].reversalOf = i

ReverseOnLastDate(i, k) ==   \* fault: a reversal is dated later than its payment
    LET row == execution[i]
        last == CHOOSE d \in Dates : \A e \in Dates : e <= d
    IN
    /\ row.reversalOf = 0
    /\ EntityFree(row.snapshot.entity)
    /\ ~UsedKey(k)
    /\ ~IsReversed(i)
    /\ execution' = Append(execution,
          [key |-> k, snapshot |-> [row.snapshot EXCEPT !.date = last], cash |-> -row.cash,
           signed |-> [l \in Lines |-> -row.signed[l]], reversalOf |-> i])
    /\ UNCHANGED <<obligationVars, step, scanned, preview, key, answer>>

(* reverse_client_cash_settlement takes the lock of the client before it   *)
(* reads, and can then only wait for the lines of its slices.              *)
Reverse(i, k) ==
    LET row == execution[i] IN
    /\ row.reversalOf = 0
    /\ EntityFree(row.snapshot.entity)
    /\ ~UsedKey(k)
    /\ ~IsReversed(i)
    /\ {l \in Lines : row.signed[l] # 0} \cap LockedLines = {}
    /\ execution' = Append(execution,
          [key |-> k, snapshot |-> row.snapshot, cash |-> -row.cash,
           signed |-> [l \in Lines |-> -row.signed[l]], reversalOf |-> i])
    /\ UNCHANGED <<obligationVars, step, scanned, preview, key, answer>>

(* A remap waits for a binding row that an execution holds, and that       *)
(* execution waits for the line that the remap holds: the database aborts  *)
(* one of the two.                                                         *)
Deadlocked(b, s) ==
    /\ bindCall[b] # NoCall
    /\ step[s] = "posting"
    /\ bindCall[b].line \in PaidLines(preview[s])
    /\ held[s] \cap LiveBindings(bindCall[b].line) # {}

ResolveDeadlock ==
    \E b \in Binders, s \in Cashiers :
        /\ Deadlocked(b, s)
        /\ \/ BindAbort(b) /\ UNCHANGED cashVars
           \/ ExecuteAbort(s)

CashierStep(s) ==
    \/ \E entity \in Entities, direction \in Directions, amount \in Amounts, date \in Dates :
          Preview(s, entity, direction, amount, date)
    \/ \E k \in ExecKeys : ExecuteCall(s, k)
    \/ ExecuteLock(s)
    \/ ExecuteReplay(s)
    \/ ExecuteRefuse(s)
    \/ ExecuteAccept(s)
    \/ ExecutePost(s)
    \/ ExecuteFail(s)
    \/ ExecuteAbort(s)

Next ==
    \/ ObligationsNext /\ UNCHANGED cashVars
    \/ \E s \in Cashiers : CashierStep(s)
    \/ \E i \in Rows, k \in ReversalKeys : Reverse(i, k)

Spec == Init /\ [][Next]_vars

-----------------------------------------------------------------------------
(* Every call ends, with an answer or an error: no execution waits for     *)
(* ever.  The lock queues of the database are first come first served, the *)
(* deadlock detector always runs, and a granted transaction goes on.       *)
Fairness ==
    /\ \A s \in Cashiers :
          /\ SF_vars(ExecuteLock(s))
          /\ WF_vars(ExecuteReplay(s) \/ ExecuteRefuse(s) \/ ExecuteAccept(s))
          /\ SF_vars(ExecutePost(s))
          /\ WF_vars(ExecuteFail(s))
    /\ \A b \in Binders : SF_vars((BindCommit(b) \/ BindRefuse(b)) /\ UNCHANGED cashVars)
    /\ WF_vars(ResolveDeadlock)

FairSpec == Spec /\ Fairness

CallsEnd ==
    /\ \A s \in Cashiers : step[s] # "idle" ~> step[s] = "idle"
    /\ \A b \in Binders : bindCall[b] # NoCall ~> bindCall[b] = NoCall

-----------------------------------------------------------------------------
Snapshot ==
    [entity : Entities, direction : Directions, amount : Amounts, date : Dates,
     register : SUBSET Lines, remaining : [Lines -> Int],
     property : [Lines -> Properties \cup {NoRow}], unbound : SUBSET Lines]

ExecutionRow ==
    [key : ExecKeys \cup ReversalKeys, snapshot : Snapshot, cash : Int,
     signed : [Lines -> Int], reversalOf : Nat]

TypeOK ==
    /\ ObligationsTypeOK
    /\ execution \in Seq(ExecutionRow)
    /\ step \in [Cashiers -> {"idle", "waiting", "locking", "posting"}]
    /\ scanned \in [Cashiers -> SUBSET BindKeys]
    /\ preview \in [Cashiers -> Snapshot \cup {NoRow}]
    /\ key \in [Cashiers -> ExecKeys \cup {NoKey}]
    /\ answer \in [Cashiers -> Nat]

(* r lies between an original amount o and zero.                           *)
Within(o, r) == IF o >= 0 THEN 0 <= r /\ r <= o ELSE o <= r /\ r <= 0

(* Payments and reversals, in any order and from any number of cashiers,   *)
(* never pay more of an obligation than there was and never turn it round. *)
NoOverAllocation == \A l \in Lines : Within(Original[l], Original[l] + Allocated(l))

(* The payments of line l that stand.                                      *)
StandingPayments(l) ==
    {i \in Rows : /\ execution[i].reversalOf = 0
                  /\ execution[i].signed[l] # 0
                  /\ ~IsReversed(i)}

OncePaid(l) == \A i, j \in StandingPayments(l) : i = j

(* What is left of NoOverAllocation with a register that does not net: an  *)
(* obligation is overpaid, or turned round, by two standing payments and   *)
(* by nothing else.  One payment, whatever races it and however many       *)
(* payments and reversals came before, stays within the original amount,   *)
(* and no reversal gives back more than was taken.  A register that nets   *)
(* needs no such condition.                                                *)
OverpaymentTakesTwo ==
    \A l \in Lines :
        NettedRegister \/ OncePaid(l) => Within(Original[l], Original[l] + Allocated(l))

(* The same for the statement of every date.  The reader counts only the   *)
(* executions dated on or before the date of the statement, while the      *)
(* register nets all of them, whenever they are dated, or none.            *)
AllocatedAsOf(l, date) ==
    SumTo([i \in Rows |-> IF execution[i].snapshot.date <= date
                          THEN execution[i].signed[l] ELSE 0], Len(execution))

StatementsStayWithinOriginals ==
    \A l \in Lines, date \in Dates :
        NettedRegister \/ OncePaid(l) =>
            Within(Original[l], Original[l] + AllocatedAsOf(l, date))

(* The slices of a row are its cash, to the cent, and point its way.       *)
SlicesAreTheCash ==
    \A i \in Rows :
        SumTo(execution[i].signed, NumLines)
            = Sign(execution[i].snapshot.direction) * execution[i].cash

(* The list of owner payments (v_owner_level_payments) shows positive,     *)
(* unreversed postings only; what it adds up to is nevertheless the net    *)
(* cash that left, reversals included.                                     *)
PaidToOwner(i, entity) ==
    /\ execution[i].snapshot.entity = entity
    /\ execution[i].snapshot.direction = "JJ_TO_CLIENT"

AnyPositivePayment(i) == execution[i].cash > 0   \* fault: reversed ones are listed

OwnerLevelPayment(i) == execution[i].cash > 0 /\ ~IsReversed(i)

OwnerPaymentsAreNetCash ==
    \A entity \in Entities :
        LET net == [i \in Rows |-> IF PaidToOwner(i, entity) THEN execution[i].cash ELSE 0]
            listed == [i \in Rows |-> IF OwnerLevelPayment(i) THEN net[i] ELSE 0]
        IN  SumTo(listed, Len(execution)) = SumTo(net, Len(execution))

(* A reversal takes back a payment, never another reversal, and no payment *)
(* is taken back twice.                                                    *)
PaymentsAreReversedOnce ==
    \A i \in Rows : execution[i].reversalOf # 0 =>
        LET r == execution[i].reversalOf IN
        /\ r < i
        /\ execution[r].reversalOf = 0
        /\ execution[i].cash = -execution[r].cash
        /\ \A j \in Rows : execution[j].reversalOf = r => j = i

(* An ok answer, first or replayed, names the one row of its key, and that *)
(* row posts exactly the payment that was submitted.                       *)
OkAnswersArePaid ==
    \A s \in Cashiers : answer[s] # 0 =>
        /\ answer[s] \in Rows
        /\ execution[answer[s]].snapshot = preview[s]
        /\ execution[answer[s]].reversalOf = 0
        /\ {i \in Rows : execution[i].key = key[s]} = {answer[s]}

(* Cash settlement implements the ledger: every step is one payment of the *)
(* ledger, one undo, or leaves the ledger alone.  What the ledger shows as *)
(* open depends on the register, as it does here.                          *)
Ledger == INSTANCE ObligationLedger WITH
    outstanding <- [l \in Lines |-> Original[l] + Allocated(l)],
    journal <- [i \in Rows |-> [change |-> execution[i].signed,
                                undoes |-> execution[i].reversalOf]]

ImplementsLedger == Ledger!LedgerSpec

(* At the moment a payment commits, the register still shows the remaining *)
(* amounts that its preview showed of the obligations it pays.             *)
PostsAgainstCurrentRemaining ==
    [][\A s \in Cashiers :
          step[s] = "posting" /\ Len(execution') > Len(execution) /\ answer'[s] # 0 =>
             \A l \in PaidLines(preview[s]) :
                preview[s].remaining[l] = Remaining(l)]_vars
=============================================================================
