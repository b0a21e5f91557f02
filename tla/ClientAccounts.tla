--------------------------- MODULE ClientAccounts ---------------------------
(***************************************************************************)
(* The account a client is shown.  It is the opening certification, less   *)
(* the settlement events that credit the client for something that was     *)
(* not settled in cash, less the slices of the cash executions.  An event  *)
(* includes a transaction of the ledger, excludes one, or is a claim       *)
(* without any cash; it is opened, approved, applied and perhaps voided.   *)
(*                                                                         *)
(* Events take no lock that a cash execution takes, so they come between   *)
(* any two steps of ClientCashSettlement.  Each of their procedures locks  *)
(* the row of the event before it reads it, and apply locks the            *)
(* transaction too, so each is one action.  A call that finds its work     *)
(* done changes nothing and is left out.                                   *)
(***************************************************************************)
EXTENDS ClientCashSettlement, FiniteSets

CONSTANTS
    EventKeys,      \* idempotency keys of events (UNIQUE in the table)
    LedgerRows,     \* transactions that no cash execution has written
    Usable,         \* those of them that are active and not deleted
    LedgerAmount,   \* [LedgerRows -> Nat]: amount_eur
    Payloads,       \* what staff may enter
    Folded          \* [Headers -> SUBSET LedgerRows]: client payments that are
                    \* inside the lines of an opening (client_payment_row_ids)

Kinds == {"noncash", "include", "exclude"}

(* An execution's own transaction is named by the execution's key.         *)
Sources == LedgerRows \cup ExecKeys \cup ReversalKeys

ASSUME EventAssumption ==
    /\ NoRow \notin EventKeys \cup Sources
    /\ LedgerRows \cap (ExecKeys \cup ReversalKeys) = {}
    /\ Usable \subseteq LedgerRows
    /\ LedgerAmount \in [LedgerRows -> Int]
    /\ Folded \in [Headers -> SUBSET LedgerRows]
    /\ IsFiniteSet(Headers)
    /\ Payloads \subseteq
          [entity : Entities, counterparty : Entities \cup {NoRow}, kind : Kinds,
           source : Sources \cup {NoRow}, amount : Nat \ {0}, date : Nat]
    \* the CHECK constraints of the table
    /\ \A p \in Payloads :
          /\ p.kind = "noncash" <=> p.source = NoRow
          /\ p.kind = "noncash" <=> p.counterparty # NoRow
          /\ p.entity # p.counterparty

VARIABLE settlementEvent   \* [EventKeys -> event row or NoRow]

accountVars == <<vars, settlementEvent>>

EventRow == [payload : Payloads, status : {"open", "approved", "applied", "void"}]

ASSUME EventRowAssumption == NoRow \notin EventRow

AccountsInit == Init /\ settlementEvent = [k \in EventKeys |-> NoRow]

-----------------------------------------------------------------------------
EventExists(k) == settlementEvent[k] # NoRow

HasStatus(k, s) == EventExists(k) /\ settlementEvent[k].status = s

AppliedEvents == {k \in EventKeys : HasStatus(k, "applied")}

(* Nonterminal events: nothing writes "rejected".                          *)
Standing == {k \in EventKeys : EventExists(k) /\ ~HasStatus(k, "void")}

SetEventStatus(k, s) ==
    /\ settlementEvent' = [settlementEvent EXCEPT ![k].status = s]
    /\ UNCHANGED vars

(* What the unique indexes on nonterminal events compare.                  *)
SameClaim(p, q) ==
    /\ p.entity = q.entity
    /\ p.kind = q.kind
    /\ IF p.kind = "noncash"
       THEN /\ p.counterparty = q.counterparty
            /\ p.date = q.date
            /\ p.amount = q.amount
       ELSE p.source = q.source

TransactionExists(t) == t \in LedgerRows \/ UsedKey(t)

(* open_client_settlement_event with a new key.                            *)
OpenEvent(k, p) ==
    /\ ~EventExists(k)
    /\ p.kind = "noncash" \/ TransactionExists(p.source)
    /\ \A j \in Standing : ~SameClaim(settlementEvent[j].payload, p)
    /\ settlementEvent' = [settlementEvent EXCEPT ![k] = [payload |-> p, status |-> "open"]]
    /\ UNCHANGED vars

(* approve_client_settlement_event.                                        *)
ApproveEvent(k) ==
    /\ HasStatus(k, "open")
    /\ SetEventStatus(k, "approved")

(* The transaction is there, active, not deleted, and its amount_eur is    *)
(* the amount of the event.  The one of a reversal is negative.            *)
SourceMatches(p) ==
    \/ /\ p.source \in Usable
       /\ LedgerAmount[p.source] = p.amount
    \/ /\ UsedKey(p.source)
       /\ execution[RowOf(p.source)].cash = p.amount

UnusedByOwnEvents(p) ==   \* fault: only the client's own events are looked at
    \A j \in AppliedEvents :
        settlementEvent[j].payload.entity = p.entity => settlementEvent[j].payload.source # p.source

UnusedByOthers(p) ==   \* fault: include and exclude of one source may coexist
    \A j \in AppliedEvents :
        settlementEvent[j].payload.entity # p.entity => settlementEvent[j].payload.source # p.source

(* No applied event of any client, of either kind, names the transaction.  *)
SourceUnused(p) ==
    \A j \in AppliedEvents : settlementEvent[j].payload.source # p.source

(* apply_client_settlement_event.                                          *)
ApplyEvent(k) ==
    LET p == settlementEvent[k].payload IN
    /\ HasStatus(k, "approved")
    /\ p.kind = "noncash" \/ (SourceMatches(p) /\ SourceUnused(p))
    /\ SetEventStatus(k, "applied")

(* void_client_settlement_event: in any status.                            *)
VoidEvent(k) ==
    /\ k \in Standing
    /\ SetEventStatus(k, "void")

EventStep ==
    \E k \in EventKeys :
        \/ \E p \in Payloads : OpenEvent(k, p)
        \/ ApproveEvent(k)
        \/ ApplyEvent(k)
        \/ VoidEvent(k)

AccountsNext ==
    \/ Next /\ UNCHANGED settlementEvent
    \/ EventStep

AccountsSpec == AccountsInit /\ [][AccountsNext]_accountVars

-----------------------------------------------------------------------------
(* read_certified_client_settlement: one query over one snapshot, hence    *)
(* operators of the state.                                                 *)

Openings(entity, date) ==
    {h \in Headers \ OwnerLevel :
        /\ EntityOf[h] = entity
        /\ status[h] = "applied"
        /\ DateOf[h] <= date}

(* Of several applied openings the latest is read, and only that one.      *)
CurrentOpening(entity, date) ==
    CHOOSE h \in Openings(entity, date) :
        \A g \in Openings(entity, date) :
            \/ DateOf[g] < DateOf[h]
            \/ DateOf[g] = DateOf[h] /\ Version[g] <= Version[h]

(* client_fifo_credits.  An exclusion counts whenever it is dated.         *)
Credits(entity, date) ==
    {k \in AppliedEvents :
        LET p == settlementEvent[k].payload IN
        /\ p.entity = entity
        /\ p.kind # "exclude"
        /\ p.date <= date
        /\ ~\E x \in AppliedEvents :
              LET q == settlementEvent[x].payload IN
              /\ q.entity = entity
              /\ q.kind = "exclude"
              /\ q.source = p.source}

SettlesPartOf(i, h) == \E l \in Lines : HeaderOf[l] = h /\ execution[i].signed[l] # 0

NothingConsumed(entity, date) == {}   \* fault: executions are not looked at

(* cash_executions, of which the report takes the transactions.            *)
ConsumedSources(entity, date) ==
    {execution[i].key : i \in {n \in Rows :
        /\ execution[n].snapshot.entity = entity
        /\ execution[n].snapshot.date <= date
        /\ SettlesPartOf(n, CurrentOpening(entity, date))}}

(* Credits that present a payment.                                         *)
PaymentCredits(entity, date) ==
    {k \in Credits(entity, date) : settlementEvent[k].payload.kind = "include"}

CreditedSources(entity, date) ==
    {settlementEvent[k].payload.source : k \in PaymentCredits(entity, date)}

(* The report of the whole account is composed, not blocked: the           *)
(* conditions it puts on settlement events.  Those on the rows of a        *)
(* property only block more accounts and are left out.                     *)
Published(entity, date) ==
    /\ Openings(entity, date) # {}
    /\ \E l \in Lines : HeaderOf[l] = CurrentOpening(entity, date)
    /\ \A j, k \in PaymentCredits(entity, date) :
          settlementEvent[j].payload.source = settlementEvent[k].payload.source => j = k
    /\ CreditedSources(entity, date) \cap ConsumedSources(entity, date) = {}
    /\ PaymentCredits(entity, date) # {} => Folded[CurrentOpening(entity, date)] = {}

-----------------------------------------------------------------------------
(* In an account that is published every payment counts once.  However     *)
(* events, executions, reversals, voids and new openings are interleaved,  *)
(* a transaction that is credited is neither folded into the opening nor   *)
(* settled, by whomever, against a line of it.                             *)
AccountsCountPaymentsOnce ==
    \A entity \in Entities, date \in Dates : Published(entity, date) =>
        \A k \in EventKeys :
            /\ HasStatus(k, "applied")
            /\ settlementEvent[k].payload.kind = "include"
            /\ settlementEvent[k].payload.entity = entity
            /\ settlementEvent[k].payload.date <= date
            => LET t == settlementEvent[k].payload.source
                   h == CurrentOpening(entity, date)
               IN  /\ t \notin Folded[h]
                   /\ \A i \in Rows : execution[i].key = t /\ execution[i].snapshot.date <= date
                                         => ~SettlesPartOf(i, h)

(* Over the accounts of all clients, no transaction is credited by two     *)
(* events and no claim without cash is entered twice.                      *)
NothingIsCreditedTwice ==
    \A d, e \in Entities, date \in Dates :
        \A j \in Credits(d, date), k \in Credits(e, date) : j # k =>
            LET p == settlementEvent[j].payload
                q == settlementEvent[k].payload
            IN  ~SameClaim(p, q) /\ (p.source = q.source => p.source = NoRow)

(* A credit that a client was shown stays until its own event is voided:   *)
(* no exclusion, of whichever date and entered by whomever, takes it back. *)
CreditsStandUntilVoided ==
    [][\A entity \in Entities, date \in Dates :
          \A k \in Credits(entity, date) :
              k \in Credits(entity, date)' \/ HasStatus(k, "void")']_accountVars
=============================================================================
