# Verification of the property-settlement system

TLA+ modules, TLC configurations and TLAPS proofs for the parts of this repository that change
money: what the company (JJ) and its clients owe each other and how cash payments settle it, how
a transaction is drafted, posted and corrected, and how it is billed. Paths are relative to the repository; migrations are in
`src/supabase/migrations/` and are named by their timestamp.

## 1. The system

A Next.js application over one PostgreSQL database. The state that matters is in tables of
the `finance`, `lifecycle`, `statements`, `partnership` and `public` schemas; it is changed
only by `SECURITY DEFINER` procedures, one READ COMMITTED transaction per call. Server actions
in TypeScript call them, some of them one procedure after another with no transaction around
them; the user interface holds drafts, previews and idempotency keys.

| Component | State | Operations | Hard behaviour | What makes it correct |
|---|---|---|---|---|
| Opening certifications (20260919160000) | headers with version and status, lines with signed amounts | apply, apply as successor, void | any order of voids, supersedes, fresh applies; retries | one applied version per client and date, and it is the latest |
| Owner-level obligations (20260923233000) | one row per source transaction | apply, void | entered again after a void | one applied per source transaction |
| Property bindings (20260919170000, 20260924140000) | rows active or superseded | bind, remap | races of remaps, with voids and with payments | one live binding per line, an unbroken chain, only on applied headers |
| FIFO allocation (20260919190000, `clientObligationFifoModel.ts`) | none | allocate | boundary amounts | conserves the payment, fills in order |
| Cash settlement (20260919190000, reverse in 20260919200000) | executions, slices, cash transactions, owner links | preview, execute, reverse | stale previews, concurrent cashiers, lost replies, deadlocks, several dates | an obligation is not paid twice, an answer ok means paid once, reversals exact and single |
| Partner current account (20260919200000, 20260924190000) | append-only funding events | funded execute, reimburse, reverse | four kinds of lock, a second walk, composed with cash settlement | credits are the cash funded, never reimbursed beyond it |
| Correction cases (20260820_00x, 20260918100000, 20260919130000, `transactionCorrectionWorkspace.ts`) | cases, inserted rows, dialogs, server calls | preview, apply, resume, transition, reclassify | awaits without a transaction, lost answers, lookups that fail, two writers of one case | inserted once unless a lookup fails, success only for rows that are there |
| Assistant and agent drafts (`transactionDraftCollector.ts`, 20260917*, 20260918090000, 20260919120000) | slots of a dialogue, saved texts, drafts | answer, choose, correct, reload; create, edit, reject, approve and post | lost answers, second tabs, texts another part of the chat takes, stale forms | what was reviewed is what is created and posted |
| Statement drafts and billing (20260816_00x, 20260817_001, `owners/billingActions.ts`, `statements/statementLifecycleActions.ts`) | draft lines, sent entries, allocations | plan, add, include, remove, set status, send; allocate by hand, oldest first | reads and lines that fail halfway, concurrent allocations | nothing owed is dropped or sent twice, never over-allocated |
| Settlement events and client accounts (20260919140000, 20260919190000:894-1111, `composeCertifiedAccount.ts`) | events open, approved, applied, void | open, approve, apply, void; read and publish an account | no lock shared with cash settlement, two events on one transaction, several openings | a payment counts once or the account is blocked; one credit per transaction; a credit stands until it is voided |
| STR monthly certifications (20260924000000) | version chain per property and month | apply, void | deferred sum check | not modelled |
| Owner-statement evidence (20260920120000) | documents, lines, void events | ingest, void, read | supersession across listings | not modelled |
| Identity reassignment (20260919150000) | associations | apply | cuts across all of the above | not modelled |
| Company tenancy (202609241*-20260930*) | company of a row | guards | backfill order | not modelled |
| LTR contracts and settlement, lifecycle, PMS/Hostaway, reports, PDFs, UI | | | | listed in `PROJECT.json` |

Interaction: a certification or owner-level obligation makes lines; a binding gives a line a
property; bound lines of applied headers and owner-level obligations form the *register*;
a payment walks the register first in, first out and writes slices; the register nets the slices
(or ought to: section 6); statements read lines and slices up to a date; partner-funded payments
reuse the whole path. Settlement events credit a client for what was not paid through that path, and
the account a client sees puts opening, events and slices together. The assistant makes drafts, an approved draft becomes a transaction, a
transaction is billed on a statement draft, and a correction case appends rows that reverse and
replace it.

## 2. Modules

| Module | Models | EXTENDS |
|---|---|---|
| `ObligationFifo` | sums over rows, the allocation loop | |
| `ClientObligations` | certifications, owner-level obligations, bindings | `ObligationFifo` |
| `ClientCashSettlement` | preview, execute, reverse; composed with every step of `ClientObligations` | `ClientObligations` |
| `ObligationLedger` | abstract: a journal of payments and undone payments | |
| `PartnerCurrentAccount` | payments funded by a partner, reimbursements, their reversals; composed with every step of `ClientCashSettlement` | `ClientCashSettlement` |
| `ClientAccounts` | settlement events and the account a client is shown; composed with every step of `ClientCashSettlement` | `ClientCashSettlement` |
| `CorrectionRows` | the rows a correction plans and what the database accepts of them: pure operators | |
| `CorrectionCases` | dialogs, server calls, staff transitions, atomic reclassification | `CorrectionRows` |
| `DraftCollector` | the dialogue of the assistant as a function of state and text | |
| `AssistantDrafts` | tabs, saved conversations, drafts, staff, the ledger | `DraftCollector` |
| `BillingRules` | what a row owes, what goes on the next statement, the automatic allocation: pure operators | `ObligationFifo` |
| `StatementBilling` | drafts, lines, sent statements, clerks who allocate | `BillingRules` |
| `MCClientObligations`, `MCClientCash`, `MCPartnerAccount`, `MCClientAccounts`, `MCCorrectionCases`, `MCAssistantDrafts`, `MCStatementBilling` | instances for TLC | the module they are of |
| `ObligationFifoProofs`, `ClientObligationsProofs`, `ClientCashSettlementProofs`, `PartnerCurrentAccountProofs`, `ClientAccountsProofs`, `CorrectionCasesProofs`, `AssistantDraftsProofs`, `StatementBillingProofs` | theorems | the module they are about, TLAPS |

**Obligations and cash.**

* `status[h]` is the status column of a certification header or owner-level obligation, with
  `"absent"` before it is inserted. The columns of a header are immutable by trigger, so they are
  constants. `draft` and `approved` are allowed by a CHECK, and no procedure writes them.
* A line is a number, in the order the FIFO walk visits lines (date, version, line identity;
  `LineAssumption` says so). `Original[l]` is `- amount_due_to_jj` in cents.
* `binding[k]` is the binding row whose (unique) idempotency key is `k`.
* `execution` is the table of executions in commit order. Each row carries its cash amount
  and slices (`signed[l]`, 0 for none): they are inserted in the same transaction and no
  trigger-protected row changes later. `cash` is `amount_eur` of the cash transaction, which is
  negative on a reversal, where `executions.amount` stays positive.
* `preview[s]`, `key[s]`, `answer[s]` are what the cash card of the interface holds: the preview
  last shown, the key of the call, the row named by the last ok reply. `step[s]` says where the
  call is: `waiting` for the advisory lock, `locking` after reading which bindings are
  active, `posting` once its preview was found current.
* `bindCall[b]`, `held[s]`, `scanned[s]` are locks: the certification and line a binding
  transaction holds, the binding rows an execution holds, the rows it read before it waited.

A procedure is one action if it takes its locks before it reads
(certify, supersede, void, apply and void owner-level, reverse). Two procedures can wait in the
middle while they hold something another one wants, and are split there: `bind` (before the
active binding row) and `execute` (before the advisory lock, before the binding rows, before the
inserts). Rollbacks (`BindAbort`, `ExecuteAbort`) can come at each of these points. A lost reply is
an `ExecuteCall` with the same key after an ok answer the cashier did not see.

*The register, twice.* `NettedRegister = TRUE` is the view as the migration that introduces
cash settlement defines it (20260919190000:133-194); `FALSE` is the view as it stands after
20260923233000:171-247, and the one the repository runs on. Every theorem is of
both, and every passing run with cash but `cash_concurrent` uses the last. With it an obligation can be overpaid (`cash_head`, section 6), so the properties say what is
left: an obligation is overpaid, or turned round, by two payments that both stand and by nothing else
(`OverpaymentTakesTwo`), and with a view that nets not even then. `ObligationLedger` has the view as a
parameter too.

**Partner current account.** `event` is `partner_funding_events` in commit order, each row with
its ledger entry (they are written together). A funded call goes through the steps of a cash
execution; `funder[s]` is the partner named in its preview and `shown[s]` the balance it showed.
After the check, `FundedWalk` reads the walk once more, in a later statement: `walk[s]` is what
it found, and it is what `FundedPost` writes, provided it settles. `reimbursing[t]` is a
reimbursement between its check and its entry, under the lock of its partner. `UndoEvent` takes
the lock of the event only, so it can come between any of these. The ordinary reversal
(`ReverseOwn`) refuses an execution that an event owns.

**Client accounts.** `settlementEvent[k]` is the event with idempotency key `k`: what staff entered
and its status. Its columns other than the status are immutable by trigger, and nothing writes
`rejected`. A source is a transaction of the ledger, with a constant amount, or that of a cash
execution, named by the execution's key. An event takes no lock that an execution takes, so
its four procedures come between any two steps of a payment. `SourceUnused` is
what the checks of `apply`, under the lock of the source, and the unique index over applied sources
amount to. `CurrentOpening`, `Credits` and `ConsumedSources` are the parts of
`read_certified_client_settlement` (one query, one snapshot); `Published` holds when
`admitSettlementEvents` raises no block for the full account. `Folded[h]` are the payments that the
metadata of an opening say are already in its lines.

**Correction cases.** `dialog[d]` holds the token of a preview (transaction, version, proposal:
`Key`), what it shows and whether its answer is still out. `call[c]` is a run of
`applyControlledCorrectionAction`, stopped at one await; every await is an action, and `CallDies`
can take any of them. `clerk` is a staff transition between the SELECT of the status and the
UPDATE by id, the only procedure without a lock. `lineage[i]` is, for each time case `i` was
applied, the rows it inserted: a sequence, so that a second application is visible. A row is a
record of seven fields; the database compares five as text and two as numbers, and what an
authorisation with a NULL value means is translated as it stands (`Accepts`).
`LookupMisses` is `findCaseByIdempotencyKey` answering null though there is a case: it does so on an
error of its read and for a case beyond the fifty latest. `crossed` and `missed` are history
variables: the keys of calls that met another call or a transition, and how often a lookup missed the
cases of a key.

**Assistant and drafts.** A text is a record of what the expressions of the collector find in it,
so the dialogue is the code's and the recognition of words is a table. `collector` has
the slots (value and status `unknown`, `proposed` or `confirmed`), the question asked and the idempotency key; `saved`
are the texts stored with the conversation, `listing` what a new tab has read of them and not yet
replayed. `created`, `creating` and `call` are what the component keeps about the create call:
an answer may be lost after the draft was made. `drafts[k]` is the draft under key `k`, `form` an
edit form someone opened earlier, `posted` the transactions approval inserts. The same chat settles
cash: a text that does, and every text while a name, a funding or a partner is asked for (`asking`) or
the card is up (`card`), is saved and then taken by that branch of `sendBody` (`SendToCash`), not by
the collector. What the card calls is `ClientCashSettlement`. `apart` and `unasked` are history
variables for what the interface is known not to keep: a tab and its saved texts go apart when
something is not saved, or is saved and does not reach the collector; and a choice keeps the key of a
draft whose answer was lost.

**Statement billing.** `lines` are `statement_draft_lines` in order of creation, `drafts` the
status of each draft, `adding` what `addDraftLinesAction` has left to add (it stops at the first
line that fails), `sent` the snapshot entries, `alloc[p][c]` the slice of payment `p` on charge `c`,
`shown[c]` the presentation override. `calls[k]` is an allocation between its reads and its
upsert; `stale` in it says that slices changed in between. The loop of the automatic allocation fills
what charges are missing in order, so its slices are those of `ObligationFifo`; the charge of two lines
comes twice in it. `create_statement_draft`,
`add_draft_line`, `remove_draft_line` and `send_statement` are functions of the deployed database
that are not in the repository: they do what the calling code relies on. The functions that are
(`get_draft_lines_for_transactions` and the other reads, `toggle_draft_line_inclusion`,
`allocate_payment`, `fifo_allocate_payment`) begin with `statements.require_jj_staff()`, of which
20260820_005:4-10 and 20260904_001:34 say that it does not exist; later migrations repair it for the
correction procedures only. `Callable` is the set of functions whose guard there is: the run has all
of them, the theorems hold for every subset, the empty one included, where reads raise and nothing is
allocated. `resolveBillingStates` drops the errors of its three reads
(`ownerFinancialAdapter.ts:935-957`), so each plan is made from any subset of them (`seen` in
`CreateDraft`); `misread` is a history variable of the charges planned because of it. The automatic
allocation joins draft lines on `transaction_id` and `line_type` (20260817_001:209, 212), where
20260816_002:47-61 reads `source_transaction_id` and no type from the same table: `Due` takes the
join as the reads have it, so that the function can run at all.

**Left out of the modelled procedures.** Authorisation, input validation, wording, audit
tables, property ownership changes (`ClientOf` is constant), and replays that
return without writing (only replays whose answer matters are actions).
Comparing SHA-256 hashes is modelled as comparing snapshots. The several SELECTs of a
preview are one step; a torn preview differs from every consistent one and is refused, or equals
one and is as good. `missing_charge` and `duplicate_resolution` cases, which no screen opens.

## 3. Runs

| Run | Spec and instance | Shows |
|---|---|---|
| `obligations` | three versions of a certification, another client, one source entered twice, two binders, three keys; no cash | versions, chains and bound lines stay consistent under every race |
| `cash_concurrent` | two cashiers, one client, three bound lines in both signs, two payment keys, one reversal key; netted, so that a payment moves what the other cashier was shown | payments commit on current amounts, every step is a ledger step |
| `cash_history` | one cashier, three payments, two reversals, two dates; last register | a statement of either date overshoots only by two standing payments; reversals single, owner payments are net cash |
| `cash_calls_end` | two cashiers, two clients with one key between them, an owner-level obligation, a remap, with fairness; last register | deadlocks are resolved and every call ends; a key is unique across clients although locks are per client; failed inserts roll back; ok answers are true |
| `partner_account` | one client, two lines, one cashier, one partner, two payers, two dates; two funded keys, an ordinary one, two reimbursements, three reversal keys; last register | credits are funded cash, slices are cash, an obligation is overpaid only by two standing payments, reimbursements are covered |
| `client_accounts` | two events out of eight payloads, one cashier, one execution and its reversal, two openings of a client of which the later folds a payment, a second client, two dates; last register | a published account counts a payment once, no transaction is credited twice, no exclusion takes a credit back |
| `correction_cases` | one dialog, two server calls, two proposals, two spellings of a reclassification, one new version, one staff transition, one lookup that misses | a retry applies again only if its lookup missed; success is shown only for rows in the ledger |
| `assistant_drafts` | three texts of twenty and one conversation of five, three keys, one reload, one edit | reviewed is created, created is postable, posted stays |
| `statement_billing` | two statements, charges of 2 and 1 and a contract value, payments of 3 and 1, two clerks, any reads failing | nothing owed is dropped; nothing is sent twice unless asked for or misread; nothing is over-allocated unless calls overlap |
| `cash_head` (violation) | last register, one cashier | the same obligation is paid twice |
| `correction_race` (violation) | two calls with one idempotency key | a correction is inserted twice |
| `correction_dates` (violation) | one call, proposals of a date and of a cleared text | the database refuses rows that were planned and approved |

**Bounds.** Keys bound the number of rows of the cash runs; the other modules name their bounds
(`MaxApplies`, `NumCases`, `NumKeys`, `MaxTexts`, `MaxEdits`, ...) in the guards, and
`partner_account` allows `MaxEvents` = 3 events: fund, reimburse, reverse one of them, in
every order, next to the company's own payment. In `client_accounts` two event keys make a pair on
one source, of every two kinds and clients, and an event against an execution; the proofs cover more. Amounts 1 and 2 against lines of 1, -1 and 2 give
exact, partial, several-line and too-large payments in both directions. Two dates give both orders
of entry. Two cashiers are what a race needs: `HoldsEntity` relates pairs. Three payments and two
reversals allow pay, reverse, pay again, reverse. A correction needs two presses of Apply and three
cases: the lost one, the resumed one, and the one of the atomic procedure. Three texts reach the
review and change it once: the texts were chosen so that a report alone answers most questions.
The conversation of five (`LongTalks`) proposes a subcategory under a confirmed category, which three
texts do not reach.
A payment of 3 pays both charges exactly, one of 1 pays a part of the first.
Cashiers, payers, calls, clerks and keys are interchangeable, hence the symmetry; the liveness run
has none. Deadlock is not checked where a run stops when a bound is used up: `obligations` and
the correction, assistant and billing runs; in the cash runs a preview is always possible.

**Fairness** (`CallsEnd` only). A granted statement goes on (weak). A lock that is free again
and again is granted (strong): PostgreSQL queues waiters first come, first served. The deadlock
detector runs (`ResolveDeadlock`, weak). Nothing obliges a user to start a call, nor a
connection to drop. The other modules state no fairness: a dialog may be left, a draft may never be
approved, a clerk may go home.

## 4. Properties

Each is stated in words where it is defined, the hazards it is for are in `PROJECT.json`, and each
has a mutant: a plausible bug, marked `fault`, that TLC must refute.

* *Obligations*: `AppliedCertificationIsTheLatest`, `BindingHistoryIsAChain`; of steps:
  `BindsOnlyAppliedLines`, `BoundLinesStayBound`.
* *Cash*: `OverpaymentTakesTwo`, `StatementsStayWithinOriginals`, `SlicesAreTheCash`,
  `PaymentsAreReversedOnce`, `OwnerPaymentsAreNetCash`, `OkAnswersArePaid`; of steps
  `PostsAgainstCurrentRemaining`; liveness `CallsEnd`; refinement `ImplementsLedger`, with the
  mapping outstanding = original + slices, journal = slices of each row.
* *Partner*: `CreditsAreFundedCash` (on every date, credits for payments are the cash rows of the
  clients' ledger), `ReimbursementsAreCovered` (no balance below zero while payments stand and
  reimbursements are entered in the order of their dates; neither condition can be left out),
  and `OverpaymentTakesTwo` and `SlicesAreTheCash`, with the second walk.
* *Accounts*: `AccountsCountPaymentsOnce`, `NothingIsCreditedTwice`; of steps:
  `CreditsStandUntilVoided`.
* *Corrections*: `RetriesApplyOnce` (a lookup that misses is good for one application more),
  `SuccessIsInTheLedger`, `ReclassifiedOncePerIdentity`; refuted: `AppliedOncePerProposal`,
  `EditableFieldsAreSupported`.
* *Assistant*: `ReviewSurvivesReload`, `CorrectionGetsItsOwnDraft`, `SubcategoryFitsItsCategory`,
  `ReviewedDraftIsPostable`, `PostedDraftsStay`; of steps: `ConfirmedValuesStay`.
* *Billing*: `AllocationsFit` (unless two allocations overlapped), `NothingOwedIsDropped`,
  whichever reads failed, `DraftsCanBeSent`, `SentOnce` (unless somebody took the charge off or asked
  for it again, or it was planned for want of a failed read); of steps: `PaidStaysPaid`.

## 5. Proofs

| Theorem | Assumes | Argument |
|---|---|---|
| `FifoConservesPayment`, `FifoFillsInOrder` | amounts are naturals | unfolding the recursive functions row by row |
| `ObligationsTypeCorrect` | | the type invariant is inductive |
| `LatestVersionApplies` | | `VersionsInv`: versions of a slot are entered without gaps and the last is applied or all are void |
| `BindingsAreOfAppliedLines` | | `BindersInv`: a binder in progress holds a header that is applied, because a void waits for the lock |
| `BoundLinesRemainBound`, `BindingHistoriesAreChains` | | `HistoryInv`: `HistoriesAreLive`, each line with a row has a live one, and the chain |
| `TypeCorrect` (cash) | | the type invariant is inductive once `preview` is typed in every step of a call |
| `OverpaymentNeedsTwoPayments` | none: either register | `Inv`: whoever is posting holds a preview whose remaining amounts are still those of the register, because the lock of its client excludes other payments and reversals of it; hence each slice lies within what the register shows (`PaymentsFit`), and with a register that nets all of them together do (`NettingFits`). A reversal takes back one earlier, unreversed row, so what is left is a sum of unreversed rows, each toward zero: of one row, or of rows that netting kept within the amount |
| `EachPaymentIsReversedOnce`, `SlicesAddUpToCash` | none: either register | `JournalInv`: an execution that is posting has a preview that settles, so nothing is left over |
| `OwnerPaymentsAddUpToNetCash` | none: either register | a reversal is paired with its payment and mirrors it (`MirrorInv`): payment and reversal both leave the list, and their cash cancels (`UndoneRowsCancel`) |
| `StatementsNeverOvershoot` | none: either register | the same pairing: as of a date a row and its reversal have the same date or cancel, and what stays is a set of unreversed rows, each toward zero: one at most, or rows of which all together stay within the original |
| `OkMeansPaidOnce` | keys of executions and of reversals are different; either register | `AnswersInv`: a key names one row, and a row under an unused key disturbs no earlier answer. The assumption is needed: see the replay hazard in section 6 |
| `SettlementImplementsLedger` | none: either register | from `Inv` and `JournalInv`: a posting is `Pay`, with the open lines of its preview as the offered obligations; a reversal is `Undo`; every other step leaves the mapped variables alone |
| `PaymentsPostCurrentAmounts` | none: either register | `PostingIsCurrent` of `Inv`: a paid line has an amount other than zero in the preview |
| `PartnerTypeCorrect`, `CreditsMatchFundedCash` | `PartnerAssumption` (kinds of keys are disjoint); either register | `PartnerInv`: a call carries a key of the kind its preview asks for; an event and the rows that post it share a funding key, and a funded row is reversed exactly when its event is; the two sums then grow by the same amount in every step (`BalancedStep`) |
| `FundedSlicesAddUpToCash` | the same | a funded row is written only if its second walk settles the same amount in the same direction |
| `PartnersAreNotOverpaid` | `PartnerAssumption`; either register | `PayersFit`: one reimbursement of a partner is under way at a time, and the balance as of its date covers it until it is entered, because what else is entered meanwhile is in his favour or takes back one of his payments. On later dates nothing but payments that stand and reimbursements taken back is entered (`LaterBalance`), so the balance there is not lower |
| `FundedObligationsAreNotOverpaid` | `PartnerAssumption`; either register | `MoneyInv`: `Inv` of the cash proofs is false here, since a reversal without the client's lock changes the register under a posting call. But such a reversal only gives back: what a call is about to post stays within what the register shows (`PostingsFit`, `WalksFit`), which is enough |
| `EachSourceIsCreditedOnce` | `EventAssumption` (the CHECK constraints of the table); either register | `EventsInv`: of the applied events, over all clients, one at most names a source (`SourcesOnce`), and no two events that are not void make the same claim (`ClaimsOnce`) |
| `CreditsStand` | the same | a step that applies an exclusion finds its source named by no applied event |
| `PublishedAccountsCountOnce` | the same, and finitely many headers | `ClientsInv`: the slices of a row lie on lines of its own client, so the rows that settle a line of the opening are among those the account looks at; of finitely many openings one is the latest, which gives `CHOOSE` its value |
| `TypeCorrect` (corrections) | | `Inv` below |
| `RetriesInsertOnce` | | `Inv == RegisterTyped /\ CasesInv /\ CallersInv`, and `CountInv` over it: a key that was not crossed has one call, and at most one case more than lookups that missed its cases; a case that inserted its rows did so once and is applied; a call that is about to approve or apply has a case of its own key, and one that is about to open found none or missed it |
| `ReclassificationIsSingle` | | the same invariant: cases without a key have different identities, because the procedure adopts the case it finds, and such cases stay applied |
| `SuccessIsTrue` | `InputAssumption`: rows have the fields of a row, and a reclassification asks for whitelisted fields, none of them empty, which the procedure checks | `LedgerInv`: the content and the rows of a case are those its key plans (`KeyedCases`), and a dialog waits for a call of its own key (`DialogsFit`). When the reclassification applies a case of a call, the database compares its rows with the case field by field; `AdoptedRowsArePlanned` shows that rows it accepts are the planned ones, inherited texts included |
| `DatesAndClearedTextsAreStuck` | `InputAssumption`: the rows have the fields of a row, an amount and a date, which `validateM1Proposed` asks of a proposal | the rows a call submits are those its case plans (`LedgerInv`), and then a fact about the operators of `CorrectionRows`: of every row the form can hold, exactly those that move the date or clear a text are refused. The comparison with the original values can fail for the reversal in its date only (`ReversalFits`) and for the forward row only in a text it inherits (`ForwardFits`); the sums always fit the type of the case (`NeutralTypes`) |
| `PostedDraftsNeverChange` | `None` is no draft | `DraftsInv`: transaction numbers fit what is posted and are used once; a form is of a draft that exists, whose status is checked again at submission. Nothing of the collector is used |
| `ConversationTyped`, `CorrectionsGetTheirOwnDrafts` | `CatalogAssumption`, `TextsAssumption`; `None` is no draft, call or conversation | `ConversationInv` below |
| `SubcategoriesFitTheirCategories`, `ReviewedDraftsArePostable` | the same | the collector's own invariant, `CollectorOK`, which every function of the dialogue keeps: a subcategory that is confirmed, or was proposed with its category, is one of it, a category that is only proposed has its subcategory proposed with it, a confirmed slot has a value (none only for property and client charge), the question asked is about a slot it can fill, a review has every slot ready. `SayOK` takes it through the branches of `Say` |
| `ReviewsSurviveReload` | the same | the dialogue does not depend on keys (`SayAlike`, `ReplayAlike`: collectors that agree up to their key agree after any text), and a replay of one more text is the replay and one step (`ReplayStep`, by induction over the position in the conversation). Of a tab that went apart from its saved texts, by one the cash settlement took for instance, nothing is said |
| `ConfirmedValuesAreKept` | the same | `SayLeavesConfirmed`, branch by branch: what replaces a confirmed value is a forced assignment, and those are in the branches of reports, corrections, and answers to the question asked |
| `BillingTypeCorrect`, `DraftsCanAlwaysBeSent`, `ChargesAreSentOnce` | `BillingAssumption` | `DraftsInv` of `BillingInv` below |
| `NothingOwedIsEverDropped` | the same; `None` is not `"paid"` | a fact about one state, from the types and lemma `Plan`: a charge with no included line is open, whatever was done to it, and what is open is on the plan if its remaining amount is known and blocks it otherwise |
| `AllocationsAlwaysFit`, `PaidChargesStayPaid` | `BillingAssumption` | `AllocInv` of `BillingInv` below |

`BillingInv == AllocInv /\ DraftsInv`. `AllocInv` says of every call that is not stale that writing
its slices now leaves every charge and payment within its amount (`CallFits`), and of an automatic
one also that it writes to open charges only. `AllocationsFit` alone is not inductive: it
says nothing of the slices a call holds. That `CallFits` holds when an automatic call has read
(`FifoFits`) is where the loop enters: its slices are those of `ObligationFifo`, so
`FifoConservesPayment` applies to them, and since a charge with two lines has its
slice replaced, what is written is a choice of them, each charge once (`SumOfChosenRows`).
`DraftsInv` relates the lines, those still to be added, what was sent and what somebody asked for or a failed read brought back. A
transaction is on a draft once counting the lines to be added (`LinesOnce`); every line is of a
period planned by then; a charge that is neither in `asked` nor in `misread` has one line, an included one
(`OneLineUnlessAsked`), because while it has one it is neither unbilled nor excluded and so is not
planned again (`OpenAgain`); and the line of a sent entry cannot be removed (`SentFromLines`).

`ConversationInv` has nine parts. Keys are drawn in order, and drafts exist under keys that were
drawn. A draft that nobody edited has a value for everything that was asked. The part that carries
`CorrectionGetsItsOwnDraft` relates three things that are apart in the code: the key of the tab,
the call that is out, and the draft of that key. If they were once made from the same values they
stay so, because a correction that changes a compared field draws a key (`SayCorrects`), and what
changes the values without drawing one is recorded in `unasked`; a replay in a new tab draws keys
nobody has used.

The property was first stated over all fields. The proof attempt refuted it: `applyCorrection` does
not compare description and notes, so a correction of a note alone keeps the key and the draft that
was made stays as it is. None of the texts of the run did that. The property now says what the code
promises: `MaterialFields` agree.

`TextsAssumption` says what the expressions find in one text: a category they know, with one of its
subcategories. It leaves no text out that they can read. One kind breaks the plain statement that the
subcategory is one of the category: a numbered question about an expense ("1. did I receive rent?")
passes for a direct answer (`looksLikeDirectAnswer`, `transactionTurn.ts:109`) although it finds a
category and a subcategory, and unforced assignments then propose the subcategory under a category
that was confirmed before (`transactionDraftCollector.ts:1277`, 645-673). The run has such a
conversation (`LongTalks`: a purchase, its category chosen, "change", the amount emptied, the
question), and `SubcategoryFitsItsCategory` says what the collector does keep: a subcategory the user
chose or typed fits, and so does one proposed with its category; only a proposal under a confirmed
category may not.

`NoOverAllocation` and `OverpaymentTakesTwo` are not inductive: a reversal could turn an amount round
unless what the other rows took is known. The invariants therefore speak of slices of unreversed rows.
The theorems about bindings and versions are over `ObligationsSpec`; every step of
`ClientCashSettlement` is a step of it or changes only row locks. The lemmas about rows (what a
posted row and a reversal do to the slices) are in `ClientCashSettlementProofs`, over types and
rows only, so that the partner's proofs use them without the invariant that fails there.

Model-checked only: `CallsEnd`, since liveness is outside the prover.

## 6. What was found

`cash_head`: 20260923233000 redefines the register and sets `remaining_signed_amount` to the
original amount (line 183). The subtraction of slices of 20260919190000:145-152 is gone, and no
later migration brings it back. After a payment the preview is what it was before, so a new key
pays again. `99_matrix.sql:204` of the cash settlement tests expects 0 after a payment.

`correction_race`: `transition_correction_case` (20260820_004:56) reads the status without a lock
and updates by id. A second call that read its case as open writes approved over applied, and
`apply_correction_case` inserts the reversal and the replacement again. The tests of the retry
path say that it resumes instead of duplicating; they mock the database.

`correction_dates`: `M1_EDITABLE_FIELDS` lists the date and the description as supported end to end,
down to `apply_correction_case` (`correctionFieldSupport.ts:4-8`, repeated by
`m1CorrectionWorkspace.test.tsx:40`). The reversal planned for a corrected date carries the new date,
where the database expects the original one, and a text that was cleared is inherited again by the
forward row, where the database expects the empty one (20260820_002:150-175). The case is approved,
its rows are refused, and it keeps other corrections of the transaction out. That these two are all
such corrections is the theorem `DatesAndClearedTextsAreStuck`.

Two places where the repository contradicts itself bear on what the billing runs mean. The staff
guard of the billing functions, `statements.require_jj_staff()` (20260816_001, 20260816_002:45, 89,
126, 20260817_001:47, 167), is one that 20260820_005:4-10 and 20260904_001:34 say does not exist: as
the repository stands these calls raise. And the join of the automatic allocation (20260817_001:209,
212) names columns that the reads of the same table do not have (20260816_002:47-61). The model keeps
both apart from the rest, as `Callable` and in `Due`; a property that only a committed automatic run
could show (that it pays oldest first, or spends the payment) is not claimed.

A comment says that `applyControlledCorrectionAction` "resumes existing case on retry"
(`correctionWorkspaceActions.ts:437`). It does unless `findCaseByIdempotencyKey` fails: its error is
null (406), the check for open cases (650) and the unique index pass over applied ones, and a retry
opens and applies a second case. `RetriesApplyOnce` counts these.

Not a disagreement with a document, and so only listed as hazards: an account holds a transaction
consumed only if its execution settles a line of the latest opening, so one that an event credits to
another client, or after a later opening, counts in both; the register walks the lines of
every applied opening while the account shows the latest; the replay test of `execute`
(20260919190000:533) ignores `reversal_of`, so a call with the key of a reversal and the payload of
its payment would be answered ok; a payment that walks an owner-level obligation always fails at its insert;
superseding a paid certification starts its lines at full amounts (the code leaves
the netting to whoever enters the version); a back-dated reimbursement
can exceed what was funded by its date, and a funding can be reversed after it was reimbursed; the
walk whose slices a funded payment writes is read after the check; a case that staff rejected
answers every later Apply of the same proposal (`correctionWorkspaceActions.ts:590`); a charge without
slices that was excluded blocks the next plan until someone decides; billing states resolved from a
failed read plan a sent charge again; a text that went to the cash settlement is replayed into the
collector by a new tab, and the review changes (`AssistantChat.tsx:319`, 192).

## 7. Plan

Done, in this order: `ObligationFifo`, `ClientObligations`, `ClientCashSettlement`,
`ObligationLedger` and their theorems; `CorrectionRows` and `CorrectionCases`;
`DraftCollector` and `AssistantDrafts`; `BillingRules` and `StatementBilling`;
`PartnerCurrentAccount` and its theorems; `ClientAccounts` and its theorems; the theorems of
`CorrectionCases`, `AssistantDrafts` and `StatementBilling`. Every safety and action property of a
passing run has a theorem. What would come next:

1. `OwnerStatementEvidence`: uploads under the lock of the listing, replays by file hash,
   supersession of leaves, voids under no lock; no reservation and no pair of dates is on two
   effective documents, so the reader never answers with a conflict.
2. `StrMonthlyCertifications`: the version chain of a property and month, with the sum check.

## 8. Not modelled

* *STR monthly certifications* (20260924000000): a slot with versions, applied, superseded and
  voided under one lock, the protocol that `ClientObligations` models and proves for opening
  certifications; new is only the sum check of one row set at commit. Server actions
  apply and void them, no page imports these; reports read the lines.
* *Owner-statement evidence* (20260920120000): append-only, and every upload is serialised by one
  lock, since only one listing passes the checks. The application uploads and reads; no code
  supersedes or voids a document, and what is stored is shown and enters no amount. After the
  parts above in the plan.
* *The rows of a client account* (`composeCertifiedAccount.ts` but for the admission of events): sums
  and presentation of a snapshot. Edits of a credited transaction after its event was
  applied: writers of `public.transactions` other than the ones modelled.
* *Ops approvals*: `consume_ops_approval` is granted to no role and has no caller.
* *Report preferences*: written and read, with no caller of the write.
* *Identity reassignment, company tenancy*: they change what is constant here (which client a
  property has, which company a row has) in one audited migration-like operation.
* *LTR contracts, deposits, utilities, tenant settlement; lifecycle; PMS and Hostaway*: tables with
  a form each, or synchronisation with a vendor whose order of delivery is not described.
* *Reports, PDFs, money views, statement reads, navigation, executive pages, and most screens*:
  they compute and display what is stored. They are most of the code by lines; no
  state of theirs outlives a request, so the modules above cover the part of the code that changes
  stored state and a small part of its lines.
