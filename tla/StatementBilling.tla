-------------------------- MODULE StatementBilling --------------------------
(***************************************************************************)
(* The billing of one statement series.  A draft is planned for each       *)
(* period and its lines are added one by one; lines are included and        *)
(* excluded from a page that may be stale; drafts are sent; payments are    *)
(* allocated to charges by hand or oldest first.  An allocation reads the   *)
(* slices there are and writes its own, and takes no lock in between.       *)
(*                                                                         *)
(* create_statement_draft, add_draft_line, remove_draft_line and            *)
(* send_statement are deployed functions of the database that are not in    *)
(* the repository; they do what the actions that call them say of them.     *)
(*                                                                         *)
(* The functions the repository does define here first call                *)
(* statements.require_jj_staff(), of which later migrations say that it     *)
(* does not exist: Callable are those that nevertheless run in a database.   *)
(* A read that raises is taken for an empty one by resolveBillingStates.    *)
(***************************************************************************)
EXTENDS BillingRules

CONSTANTS
    Clerks,      \* callers of the allocation functions
    Callable,    \* the functions whose staff guard there is
    MaxDrafts,   \* bound: drafts, one for each period
    MaxEdits,    \* bound: lines toggled or removed, statuses set, presentation overrides
    MaxCalls,    \* bound: allocation calls
    LastDay      \* bound: days that pass

Reads == {"get_draft_lines_for_transactions", "get_sent_entries_for_transactions",
          "get_payment_allocations"}

ASSUME CallableAssumption ==
    Callable \subseteq Reads \cup {"toggle_draft_line_inclusion", "allocate_payment",
                                  "fifo_allocate_payment"}

VARIABLES
    lines,    \* statement_draft_lines, in the order of creation
    drafts,   \* status of each draft
    adding,   \* lines addDraftLinesAction has still to add: None or [draft, rest]
    sent,     \* sent_entry_snapshots
    alloc,    \* payment_allocations
    shown,    \* presentation overrides
    day,
    calls,    \* allocation calls between their reads and their writes
    bounds,   \* how much of each bound is used
    raced,    \* history: an allocation was written on slices changed since its read
    asked,    \* history: charges excluded by hand, or asked for the next statement
    misread   \* history: charges planned for want of a read that failed

vars == <<lines, drafts, adding, sent, alloc, shown, day, calls, bounds, raced, asked, misread>>
drawn == <<lines, drafts, adding, sent>>

ShowNow == [status |-> "include_now", until |-> 0]

Init ==
    /\ lines = <<>>
    /\ drafts = <<>>
    /\ adding = None
    /\ sent = {}
    /\ alloc = [p \in Payments |-> [c \in ChargeSet |-> 0]]
    /\ shown = [c \in ChargeSet |-> ShowNow]
    /\ day = 0
    /\ calls = [k \in Clerks |-> None]
    /\ bounds = [edits |-> 0, calls |-> 0]
    /\ raced = FALSE
    /\ asked = {}
    /\ misread = {}

-----------------------------------------------------------------------------
Nothing == [p \in Payments |-> [c \in ChargeSet |-> 0]]

(* resolveBillingStates reads the lines, then the entries, then the slices;  *)
(* a read that failed has no rows, and nobody is told.                     *)
LinesRead(seen) == IF "get_draft_lines_for_transactions" \in seen THEN lines ELSE <<>>
EntriesRead(seen) == IF "get_sent_entries_for_transactions" \in seen THEN sent ELSE {}
SlicesRead(seen) == IF "get_payment_allocations" \in seen THEN alloc ELSE Nothing

PlanBy(seen, period) ==
    PlanLines(LinesRead(seen), EntriesRead(seen), SlicesRead(seen), shown, day, period)

PlannedBy(seen, period) == {l.tx : l \in ToSet(PlanBy(seen, period))}

BlockingBy(seen, period) ==
    Unresolved(LinesRead(seen), EntriesRead(seen), SlicesRead(seen), shown, day, period)

(* createStatementDraftAction for the next period, with the lines planned   *)
(* from the reads that came back.  One clerk prepares the statements of a   *)
(* series.                                                                 *)
CreateDraft ==
    LET period == Len(drafts) + 1
    IN
    /\ adding = None
    /\ period <= MaxDrafts
    /\ drafts' = Append(drafts, "draft")
    /\ \E seen \in SUBSET (Reads \cap Callable) :
           /\ adding' = IF PlanBy(seen, period) = <<>> THEN None
                        ELSE [draft |-> period, rest |-> PlanBy(seen, period)]
           /\ misread' = misread \cup (PlannedBy(seen, period) \ PlannedBy(Reads, period))
    /\ UNCHANGED <<lines, sent, alloc, shown, day, calls, bounds, raced, asked>>

(* addDraftLinesAction, one call of add_draft_line.                         *)
AddLine ==
    /\ adding # None
    /\ lines' = Append(lines, [draft |-> adding.draft, tx |-> Head(adding.rest).tx,
                               amount |-> Head(adding.rest).amount, included |-> TRUE])
    /\ adding' = IF Len(adding.rest) = 1 THEN None
                 ELSE [adding EXCEPT !.rest = Tail(@)]
    /\ UNCHANGED <<drafts, sent, alloc, shown, day, calls, bounds, raced, asked, misread>>

(* A call that fails ends it; the lines added before stay.                  *)
AddLineFails ==
    /\ adding # None
    /\ adding' = None
    /\ UNCHANGED <<lines, drafts, sent, alloc, shown, day, calls, bounds, raced, asked, misread>>

(* setDraftStatusAction.                                                   *)
Unsent == {"draft", "ready_to_send"}

SetStatus(d, status) ==
    /\ drafts[d] \in Unsent
    /\ drafts[d] # status
    /\ bounds.edits < MaxEdits
    /\ drafts' = [drafts EXCEPT ![d] = status]
    /\ bounds' = [bounds EXCEPT !.edits = @ + 1]
    /\ UNCHANGED <<lines, adding, sent, alloc, shown, day, calls, raced, asked, misread>>

(* removeDraftLineAction.                                                  *)
RemoveLine(i) ==
    /\ drafts[lines[i].draft] \in Unsent
    /\ bounds.edits < MaxEdits
    /\ lines' = RemoveAt(lines, i)
    /\ bounds' = [bounds EXCEPT !.edits = @ + 1]
    /\ UNCHANGED <<drafts, adding, sent, alloc, shown, day, calls, raced, asked, misread>>

(* toggle_draft_line_inclusion, whatever the status of the draft.  Writing  *)
(* the value there is, from a stale page, changes nothing.                  *)
Toggle(i, included) ==
    /\ "toggle_draft_line_inclusion" \in Callable
    /\ bounds.edits < MaxEdits
    /\ lines[i].included # included
    /\ lines' = [lines EXCEPT ![i].included = included]
    /\ bounds' = [bounds EXCEPT !.edits = @ + 1]
    /\ asked' = IF included THEN asked ELSE asked \cup {lines[i].tx}
    /\ UNCHANGED <<drafts, adding, sent, alloc, shown, day, calls, raced, misread>>

EntriesOf(d) == {i \in DOMAIN lines : lines[i].draft = d /\ lines[i].included}

(* sendStatementAction: the entries are the included lines, at least one    *)
(* and no transaction twice.                                               *)
Send(d) ==
    /\ drafts[d] \in Unsent
    /\ EntriesOf(d) # {}
    /\ \A i, j \in EntriesOf(d) : lines[i].tx = lines[j].tx => i = j
    /\ drafts' = [drafts EXCEPT ![d] = "sent"]
    /\ sent' = sent \cup {[tx |-> lines[i].tx, snapshot |-> d] : i \in EntriesOf(d)}
    /\ UNCHANGED <<lines, adding, alloc, shown, day, calls, bounds, raced, asked, misread>>

(* setPresentationOverrideAction.                                          *)
Show(c, show) ==
    /\ bounds.edits < MaxEdits
    /\ shown[c] # show
    /\ shown' = [shown EXCEPT ![c] = show]
    /\ bounds' = [bounds EXCEPT !.edits = @ + 1]
    /\ asked' = IF show.status = "next_statement" THEN asked \cup {c} ELSE asked
    /\ UNCHANGED <<drawn, alloc, day, calls, raced, misread>>

NextDay ==
    /\ day < LastDay
    /\ day' = day + 1
    /\ UNCHANGED <<drawn, alloc, shown, calls, bounds, raced, asked, misread>>

-----------------------------------------------------------------------------
Starts(k, kind, p, slices) ==
    /\ calls[k] = None
    /\ bounds.calls < MaxCalls
    /\ calls' = [calls EXCEPT ![k] =
                    [kind |-> kind, payment |-> p, slices |-> slices, stale |-> FALSE]]
    /\ bounds' = [bounds EXCEPT !.calls = @ + 1]
    /\ UNCHANGED <<drawn, alloc, shown, day, raced, asked, misread>>

(* allocate_payment up to its write.                                       *)
ReadForSlice(k, p, c, amount) ==
    /\ "allocate_payment" \in Callable
    /\ Fits(alloc, p, c, amount)
    /\ Starts(k, "manual", p, [x \in {c} |-> amount])

(* fifo_allocate_payment up to its writes.                                 *)
ReadForFifo(k, p) ==
    /\ "fifo_allocate_payment" \in Callable
    /\ Spent(alloc, p) < Money[p]
    /\ Starts(k, "fifo", p, FifoSlices(lines, alloc, p))

(* ON CONFLICT (payment, charge) DO UPDATE: a slice replaces the one there  *)
(* was.                                                                    *)
Commit(k) ==
    LET call == calls[k] IN
    /\ call # None
    /\ alloc' = [alloc EXCEPT ![call.payment] =
                    [c \in ChargeSet |-> IF c \in DOMAIN call.slices
                                         THEN call.slices[c] ELSE @[c]]]
    /\ calls' = [j \in Clerks |-> IF j = k \/ calls[j] = None THEN None
                                  ELSE [calls[j] EXCEPT !.stale = TRUE]]
    /\ raced' = (raced \/ call.stale)
    /\ UNCHANGED <<drawn, shown, day, bounds, asked, misread>>

Shows == {ShowNow, [status |-> "next_statement", until |-> 0],
          [status |-> "internal_only", until |-> 0],
          [status |-> "defer_until_date", until |-> LastDay]}

Next ==
    \/ CreateDraft \/ AddLine \/ AddLineFails \/ NextDay
    \/ \E i \in DOMAIN lines : RemoveLine(i) \/ \E b \in BOOLEAN : Toggle(i, b)
    \/ \E d \in DOMAIN drafts : Send(d) \/ \E status \in Unsent : SetStatus(d, status)
    \/ \E c \in ChargeSet, show \in Shows : Show(c, show)
    \/ \E k \in Clerks, p \in Payments :
           \/ ReadForFifo(k, p)
           \/ \E c \in ChargeSet, amount \in 1..Money[p] : ReadForSlice(k, p, c, amount)
    \/ \E k \in Clerks : Commit(k)

Spec == Init /\ [][Next]_vars

-----------------------------------------------------------------------------
TypeOK ==
    /\ alloc \in [Payments -> [ChargeSet -> Nat]]
    /\ \A i \in DOMAIN lines : /\ lines[i].draft \in DOMAIN drafts
                               /\ ~Row[lines[i].tx].contractValue
                               /\ ~Row[lines[i].tx].tracking
                               /\ lines[i].amount \in Nat
    /\ adding # None => adding.draft = Len(drafts) /\ adding.rest # <<>>
    /\ \A e \in sent : e.tx \in Billable /\ drafts[e.snapshot] = "sent"

(* Unless two allocations overlapped, no charge and no payment has more     *)
(* slices than its amount, by whichever mixture of slices entered by hand,  *)
(* replaced slices and runs of the automatic allocation.                    *)
AllocationsFit ==
    ~raced => /\ \A c \in ChargeSet : Paid(alloc, c) <= Amount[c]
              /\ \A p \in Payments : Spent(alloc, p) <= Money[p]

CommittedBy(k) == calls[k] # None /\ calls'[k] = None

(* A charge that is paid is opened again only by a clerk who replaces a     *)
(* slice of it by hand, or by calls that overlapped.                        *)
PaidStaysPaid ==
    [][\A c \in ChargeSet :
          Paid(alloc, c) >= Amount[c] /\ Paid(alloc', c) < Amount[c] =>
              \E k \in Clerks :
                  /\ CommittedBy(k)
                  /\ calls[k].stale \/ (calls[k].kind = "manual" /\ c \in DOMAIN calls[k].slices)]_alloc

OnAStatement(c) == \E i \in DOMAIN lines : lines[i].tx = c /\ lines[i].included

(* A charge of a planned period that is still owed is on a draft or a sent  *)
(* statement, or is held back on purpose, or will be on the next plan, as   *)
(* a line or as an amount to be cleared up; also when adding the lines of   *)
(* its own period failed halfway, and whichever reads the plan is made      *)
(* without.                                                                *)
NothingOwedIsDropped ==
    LET next == Len(drafts) + 1
    IN
    adding = None =>
        \A c \in Billable :
            Period[c] < next /\ Paid(alloc, c) < Amount[c] =>
                \/ OnAStatement(c)
                \/ shown[c].status = "internal_only"
                \/ shown[c].status = "defer_until_date" /\ day < shown[c].until
                \/ \A seen \in SUBSET Reads : c \in PlannedBy(seen, next) \cup BlockingBy(seen, next)

(* Every draft can be sent: it has no transaction twice, be it that a row  *)
(* of the period was part paid before it was billed, or that an earlier    *)
(* draft of the same rows was left half done.                              *)
DraftsCanBeSent ==
    \A d \in DOMAIN drafts : \A i, j \in EntriesOf(d) : lines[i].tx = lines[j].tx => i = j

(* No charge goes out on two statements but for a reason: somebody took it   *)
(* off by hand, be it from a statement already sent, or asked to have it on  *)
(* the next, or it was planned for want of a read that failed.             *)
SentOnce ==
    \A e, f \in sent : e.tx = f.tx /\ e # f => e.tx \in asked \cup misread
=============================================================================
