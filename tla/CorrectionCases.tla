--------------------------- MODULE CorrectionCases ---------------------------
(***************************************************************************)
(* The controlled correction of a transaction.  A dialog previews a        *)
(* proposal and holds the token of that preview: the version of the        *)
(* transaction, the proposal, and so an idempotency key.  Apply is a server *)
(* call that awaits one statement after the other, with no transaction     *)
(* around them: read the transaction, bind the statement series, look for a *)
(* case with the key, and then open, approve and apply a case, or resume the *)
(* one it found.  Any await may be the last one; the answer may be lost; the *)
(* dialog may ask again while an earlier call still runs.                   *)
(*                                                                         *)
(* Next to it run the staff transitions of a case and the atomic            *)
(* reclassification, which opens, approves and applies in one transaction.  *)
(* The procedures of the database are atomic, except the transition: it     *)
(* reads the status without a lock and writes it in a later statement.      *)
(***************************************************************************)
EXTENDS CorrectionRows, FiniteSets

CONSTANTS
    Txs,             \* transactions
    OriginalRow,     \* their rows, which no statement changes
    Proposals,       \* the rows an operator may propose for them
    Reclassifications, \* the values asked of the atomic reclassification
    Series,          \* statement series
    Dialogs, Calls,  \* dialogs and the server calls they may have running
    NumCases,        \* bound: cases ever opened
    MaxVersion,      \* bound: changes of review_status and the like
    MaxApplies,      \* bound: presses of Apply
    MaxDecisions,    \* bound: staff transitions
    MaxMisses,       \* bound: lookups of one key that miss its cases
    None

VARIABLES
    version,    \* updated_at of each transaction
    deleted,    \* transactions with is_deleted
    active,     \* active statement series of the owner of each transaction
    cases,      \* statements.correction_cases, in the order they were opened
    lineage,    \* the rows each application of a case inserted
    dialog,     \* the dialogs of the operators
    call,       \* the server calls
    clerk,      \* a staff transition under way
    applies,    \* presses of Apply so far
    decisions,  \* staff transitions so far
    crossed,    \* history: keys of calls that met another call or a transition
    missed      \* history: for each key, the lookups that missed its cases

registerVars == <<version, deleted, active>>
caseVars == <<cases, lineage>>
historyVars == <<crossed, missed>>
vars == <<version, deleted, active, cases, lineage, dialog, call, clerk,
          applies, decisions, crossed, missed>>

Statuses == {"open", "under_review", "approved", "rejected", "applied", "void"}
Nonterminal == {"open", "under_review", "approved"}
CaseIds == 1..NumCases
Opened == {i \in CaseIds : cases[i] # None}

Key(t, v, proposed) == [tx |-> t, version |-> v, proposed |-> proposed]

(* Idempotency keys, the contents a case can have, and the rows of cases.    *)
Keys == [tx : Txs, version : 0..MaxVersion, proposed : Proposals]
Contents ==
    {CaseOf(OriginalRow[t], p) : t \in Txs, p \in Proposals}
        \cup {ReclassCase(OriginalRow[t], r) : t \in Txs, r \in Reclassifications}
CaseRows == [tx : Txs, key : Keys \cup {None}, series : Series,
             status : Statuses, content : Contents]

(* Where a call may be, and what it knows there.                           *)
Places == {"fetch", "bind", "find", "precheck", "open", "refind", "raced", "other",
           "approve", "approving", "apply"}
CallRows == [at : Places, key : Keys, series : Series,
             resume : 0..NumCases, case : 0..NumCases]

ASSUME CorrectionAssumption ==
    /\ NumCases \in Nat /\ MaxVersion \in Nat
    /\ MaxApplies \in Nat /\ MaxDecisions \in Nat /\ MaxMisses \in Nat
    /\ None \notin Series \cup Calls
    /\ None \notin Keys /\ None \notin CaseRows /\ None \notin CallRows

ASSUME InputAssumption ==
    /\ \A row \in {OriginalRow[t] : t \in Txs} \cup Proposals :
         IsRow(row) /\ row.amount \in Int /\ row.date \notin {Null, Empty}
    /\ \A r \in Reclassifications : Whitelisted(r)

Init ==
    /\ version = [t \in Txs |-> 0]
    /\ deleted = {}
    /\ active \in [Txs -> SUBSET Series]
    /\ cases = [i \in CaseIds |-> None]
    /\ lineage = [i \in CaseIds |-> <<>>]
    /\ dialog = [d \in Dialogs |-> None]
    /\ call = [c \in Calls |-> None]
    /\ clerk = None
    /\ applies = 0
    /\ decisions = 0
    /\ crossed = {}
    /\ missed = [k \in Keys |-> 0]

-----------------------------------------------------------------------------
(* resolveBoundCorrectionSeries: one active series of the one owner, or     *)
(* nothing.                                                                *)
BoundSeries(t) ==
    IF Cardinality(active[t]) = 1 THEN CHOOSE s \in active[t] : TRUE ELSE None

WithKey(k) == {i \in Opened : cases[i].key = k}

(* findCaseByIdempotencyKey: the latest case with the key, 0 if none.       *)
Find(k) ==
    IF WithKey(k) = {} THEN 0
    ELSE CHOOSE i \in WithKey(k) : \A j \in WithKey(k) : j <= i

NonterminalOf(t) ==
    {i \in Opened : cases[i].tx = t /\ cases[i].status \in Nonterminal}

(* uq_correction_cases_one_nonterminal_per_tx, seen by a write of case i.   *)
IndexAllows(t, i) == NonterminalOf(t) \subseteq {i}

(* fault: a status the rest of the code does not know *)
DraftCase(t, k, s, content) ==
    [tx |-> t, key |-> k, series |-> s, status |-> "draft", content |-> content]

NewCase(t, k, s, content) ==
    [tx |-> t, key |-> k, series |-> s, status |-> "open", content |-> content]

NextId == Cardinality(Opened) + 1

(* apply_correction_case on an approved case.                              *)
ApplyTo(i, rows) ==
    /\ cases' = [cases EXCEPT ![i].status = "applied"]
    /\ lineage' = [lineage EXCEPT ![i] = Append(@, Stored(rows))]

PlannedRows(k) ==
    InsertRows(OriginalRow[k.tx], PlanEntries(OriginalRow[k.tx], k.proposed))

-----------------------------------------------------------------------------
(* The register: updates of review_status, deletion, a series closed.       *)
Touch(t) ==
    /\ version[t] < MaxVersion
    /\ version' = [version EXCEPT ![t] = @ + 1]
    /\ UNCHANGED <<deleted, active, cases, lineage, dialog, call, clerk,
                   applies, decisions, historyVars>>

Delete(t) ==
    /\ t \notin deleted
    /\ version[t] < MaxVersion
    /\ deleted' = deleted \cup {t}
    /\ version' = [version EXCEPT ![t] = @ + 1]
    /\ UNCHANGED <<active, cases, lineage, dialog, call, clerk,
                   applies, decisions, historyVars>>

CloseSeries(t, s) ==
    /\ s \in active[t]
    /\ active' = [active EXCEPT ![t] = @ \ {s}]
    /\ UNCHANGED <<version, deleted, cases, lineage, dialog, call, clerk,
                   applies, decisions, historyVars>>

-----------------------------------------------------------------------------
(* The dialog.  previewControlledCorrectionAction reads and writes nothing. *)
DialogPreview(d, t, proposed) ==
    /\ dialog[d] = None
    /\ t \notin deleted
    /\ ValidProposal(proposed)
    /\ Changed(OriginalRow[t], proposed) # {}
    /\ dialog' = [dialog EXCEPT ![d] =
                     [key |-> Key(t, version[t], proposed), series |-> BoundSeries(t),
                      resume |-> 0, waits |-> None, done |-> 0]]
    /\ UNCHANGED <<registerVars, caseVars, call, clerk, applies, decisions, historyVars>>

(* Back to the form, or closed: the token is gone, and so is the answer of  *)
(* a call that still runs.                                                 *)
DialogLeave(d) ==
    /\ dialog[d] # None
    /\ dialog' = [dialog EXCEPT ![d] = None]
    /\ UNCHANGED <<registerVars, caseVars, call, clerk, applies, decisions, historyVars>>

Running(k) == {c \in Calls : call[c] # None /\ call[c].key = k}

(* handleApply, under applyLockRef.                                        *)
StartApply(d, c) ==
    /\ dialog[d] # None
    /\ dialog[d].series # None
    /\ dialog[d].waits = None
    /\ dialog[d].done = 0
    /\ call[c] = None
    /\ applies < MaxApplies
    /\ applies' = applies + 1
    /\ dialog' = [dialog EXCEPT ![d].waits = c]
    /\ call' = [call EXCEPT ![c] =
                   [at |-> "fetch", key |-> dialog[d].key, series |-> dialog[d].series,
                    resume |-> dialog[d].resume, case |-> 0]]
    /\ crossed' = IF Running(dialog[d].key) # {} THEN crossed \cup {dialog[d].key}
                  ELSE crossed
    /\ UNCHANGED <<registerVars, caseVars, clerk, decisions, missed>>

(* The request of the dialog fails; the server call may run on.            *)
LoseAnswer(d) ==
    /\ dialog[d] # None
    /\ dialog[d].waits # None
    /\ dialog' = [dialog EXCEPT ![d].waits = None]
    /\ UNCHANGED <<registerVars, caseVars, call, clerk, applies, decisions, historyVars>>

(* The server process ends between two awaits.                             *)
CallDies(c) ==
    /\ call[c] # None
    /\ call' = [call EXCEPT ![c] = None]
    /\ dialog' = [d \in Dialogs |->
                     IF dialog[d] # None /\ dialog[d].waits = c
                     THEN [dialog[d] EXCEPT !.waits = None] ELSE dialog[d]]
    /\ UNCHANGED <<registerVars, caseVars, clerk, applies, decisions, historyVars>>

-----------------------------------------------------------------------------
(* applyControlledCorrectionAction.  Goto keeps the call running, Answer    *)
(* ends it; the dialog that waits for it keeps the case named in a failure. *)
Goto(c, at, i) ==
    /\ call' = [call EXCEPT ![c] = [@ EXCEPT !.at = at, !.case = i]]
    /\ UNCHANGED dialog

Answer(c, ok, i) ==
    /\ call' = [call EXCEPT ![c] = None]
    /\ dialog' = [d \in Dialogs |->
         IF dialog[d] # None /\ dialog[d].waits = c
         THEN [dialog[d] EXCEPT !.waits = None,
                                !.done = IF ok THEN i ELSE 0,
                                !.resume = IF ~ok /\ i # 0 THEN i ELSE @]
         ELSE dialog[d]]

At(c, place) == call[c] # None /\ call[c].at = place

KeepsRest == UNCHANGED <<registerVars, clerk, applies, decisions>>

(* fetchCanonicalTransaction, and the fingerprint against the token.        *)
FreshToken(k) == k.tx \notin deleted /\ version[k.tx] = k.version

ReadTransaction(c) ==
    /\ At(c, "fetch")
    /\ IF FreshToken(call[c].key) THEN Goto(c, "bind", 0) ELSE Answer(c, FALSE, 0)
    /\ KeepsRest /\ UNCHANGED <<caseVars, historyVars>>

SeriesMatches(c) ==
    LET bound == BoundSeries(call[c].key.tx)
    IN  bound # None /\ call[c].series = bound

BindSeries(c) ==
    /\ At(c, "bind")
    /\ IF SeriesMatches(c) THEN Goto(c, "find", 0) ELSE Answer(c, FALSE, 0)
    /\ KeepsRest /\ UNCHANGED <<caseVars, historyVars>>

(* fault: a case that was approved counts as done *)
ResumeAsDone(c, i) ==
    CASE cases[i].status \in {"approved", "applied"} -> Answer(c, TRUE, i)
      [] cases[i].status \in {"open", "under_review"} -> Goto(c, "approve", i)
      [] OTHER -> Goto(c, "apply", i)

(* Where a case with the key takes a call, once its status was read.        *)
Resume(c, i) ==
    CASE cases[i].status = "applied" -> Answer(c, TRUE, i)
      [] cases[i].status \in {"open", "under_review"} -> Goto(c, "approve", i)
      [] OTHER -> Goto(c, "apply", i)

(* The lookup reads an error, and a case beyond the fifty latest of the     *)
(* transaction, as no case.  Where there is none, that is no miss.          *)
LookupMisses(c) ==
    LET k == call[c].key IN
    /\ WithKey(k) # {}
    /\ missed[k] < MaxMisses
    /\ missed' = [missed EXCEPT ![k] = @ + 1]
    /\ Goto(c, "precheck", 0)

LookupReads(c) ==
    LET i == Find(call[c].key) IN
    /\ CASE i = 0 -> Goto(c, "precheck", 0)
         [] i # 0 /\ call[c].resume \notin {0, i} -> Answer(c, FALSE, i)
         [] i # 0 /\ call[c].resume \in {0, i} ->
                IF cases[i].status \in {"rejected", "void"}
                THEN Answer(c, FALSE, i) ELSE Resume(c, i)
    /\ UNCHANGED missed

FindCase(c) ==
    /\ At(c, "find")
    /\ LookupReads(c) \/ LookupMisses(c)
    /\ KeepsRest /\ UNCHANGED <<caseVars, crossed>>

(* Other nonterminal cases of the transaction, read before opening one.  An *)
(* error of the read is dropped: it counts as no case.                      *)
Precheck(c) ==
    /\ At(c, "precheck")
    /\ \/ Goto(c, "open", 0)
       \/ \E i \in NonterminalOf(call[c].key.tx) :
              IF cases[i].key = call[c].key THEN Goto(c, "refind", i)
                                            ELSE Answer(c, FALSE, i)
    /\ KeepsRest /\ UNCHANGED <<caseVars, historyVars>>

(* The second look for the case, after the precheck or the unique index; it *)
(* may miss the case as the first may.                                      *)
FindAgain(c) ==
    LET i == Find(call[c].key) IN
    /\ At(c, "refind") \/ At(c, "raced")
    /\ \/ i # 0 /\ Resume(c, i)
       \/ At(c, "refind") /\ Answer(c, FALSE, call[c].case)
       \/ At(c, "raced") /\ Goto(c, "other", 0)
    /\ KeepsRest /\ UNCHANGED <<caseVars, historyVars>>

NameOther(c) ==
    /\ At(c, "other")
    /\ \/ Answer(c, FALSE, 0)
       \/ \E i \in NonterminalOf(call[c].key.tx) : Answer(c, FALSE, i)
    /\ KeepsRest /\ UNCHANGED <<caseVars, historyVars>>

(* openCorrectionCaseAction: one INSERT under the unique index.             *)
OpenCase(c) ==
    LET k == call[c].key IN
    /\ At(c, "open")
    /\ NextId \in CaseIds
    /\ IF IndexAllows(k.tx, NextId)
       THEN /\ cases' = [cases EXCEPT ![NextId] =
                            NewCase(k.tx, k, call[c].series,
                                    CaseOf(OriginalRow[k.tx], k.proposed))]
            /\ Goto(c, "approve", NextId)
       ELSE /\ UNCHANGED cases
            /\ Goto(c, "raced", 0)
    /\ KeepsRest /\ UNCHANGED <<lineage, historyVars>>

(* transition_correction_case: the status is read, then written.            *)
ApproveRead(c) ==
    /\ At(c, "approve")
    /\ IF cases[call[c].case].status \in {"applied", "void"}
       THEN Answer(c, FALSE, call[c].case)
       ELSE Goto(c, "approving", call[c].case)
    /\ KeepsRest /\ UNCHANGED <<caseVars, historyVars>>

(* history: the transition overwrites what was applied since it was read    *)
Overwritten(i) == IF cases[i].status = "applied" THEN {cases[i].key} ELSE {}

ApproveWrite(c) ==
    LET i == call[c].case IN
    /\ At(c, "approving")
    /\ IF IndexAllows(cases[i].tx, i)
       THEN /\ cases' = [cases EXCEPT ![i].status = "approved"]
            /\ crossed' = crossed \cup Overwritten(i)
            /\ Goto(c, "apply", i)
       ELSE /\ UNCHANGED <<cases, crossed>>
            /\ Answer(c, FALSE, i)
    /\ KeepsRest /\ UNCHANGED <<lineage, missed>>

(* fault: a case may be applied in any status *)
AppliableAgain(i, rows) ==
    Accepts(cases[i].content, OriginalRow[cases[i].tx], rows)

Appliable(i, rows) ==
    /\ cases[i].status = "approved"
    /\ Accepts(cases[i].content, OriginalRow[cases[i].tx], rows)

ApplyCase(c) ==
    LET i    == call[c].case
        rows == PlannedRows(call[c].key) IN
    /\ At(c, "apply")
    /\ IF Appliable(i, rows)
       THEN ApplyTo(i, rows) /\ Answer(c, TRUE, i)
       ELSE UNCHANGED caseVars /\ Answer(c, FALSE, i)
    /\ KeepsRest /\ UNCHANGED historyVars

(* A read or a procedure fails for a reason outside the model (a timeout, a *)
(* dropped connection), a procedure is rolled back, and the call reports it. *)
ProcedureFails(c) ==
    /\ \E place \in {"fetch", "bind", "open", "approve", "approving", "apply"} :
           At(c, place)
    /\ Answer(c, FALSE, call[c].case)
    /\ KeepsRest /\ UNCHANGED <<caseVars, historyVars>>

CallStep(c) ==
    \/ ReadTransaction(c) \/ BindSeries(c) \/ FindCase(c) \/ Precheck(c)
    \/ FindAgain(c) \/ NameOther(c) \/ OpenCase(c) \/ ApproveRead(c)
    \/ ApproveWrite(c) \/ ApplyCase(c) \/ ProcedureFails(c)

-----------------------------------------------------------------------------
(* transitionCorrectionCaseAction of a member of staff.                     *)
ClerkReads(i, to) ==
    /\ clerk = None
    /\ decisions < MaxDecisions
    /\ cases[i].status \notin {"applied", "void"}
    /\ clerk' = [case |-> i, to |-> to]
    /\ decisions' = decisions + 1
    /\ UNCHANGED <<registerVars, caseVars, dialog, call, applies, historyVars>>

ClerkWrites ==
    LET i == clerk.case IN
    /\ clerk # None
    /\ IF clerk.to \in Nonterminal => IndexAllows(cases[i].tx, i)
       THEN /\ cases' = [cases EXCEPT ![i].status = clerk.to]
            /\ crossed' = crossed \cup Overwritten(i)
       ELSE UNCHANGED <<cases, crossed>>
    /\ clerk' = None
    /\ UNCHANGED <<registerVars, lineage, dialog, call, applies, decisions, missed>>

(* fault: identity is what the caller sent, letter by letter *)
SameLetters(t, corrected) ==
    {i \in Opened :
        /\ cases[i].tx = t
        /\ cases[i].status \notin {"rejected", "void"}
        /\ cases[i].content = ReclassCase(OriginalRow[t], corrected)}

(* Cases the reclassification resumes or replays: same server-derived       *)
(* identity, neither rejected nor void.                                     *)
SameIdentity(t, corrected) ==
    {i \in Opened :
        /\ cases[i].tx = t
        /\ cases[i].content.type = "reclassification"
        /\ cases[i].status \notin {"rejected", "void"}
        /\ SemanticIdentity(cases[i].content)
             = SemanticIdentity(ReclassCase(OriginalRow[t], corrected))}

(* apply_reclassification_correction: under the lock of the identity it     *)
(* resumes or opens a case, approves it and applies it, or does nothing.    *)
Reclassify(t, corrected) ==
    LET same  == SameIdentity(t, corrected)
        rows  == ReclassRows(OriginalRow[t], corrected)
        first == CHOOSE i \in same : \A j \in same : i <= j
        fresh == [NewCase(t, None, CHOOSE s \in Series : TRUE,
                          ReclassCase(OriginalRow[t], corrected))
                     EXCEPT !.status = "applied"]
    IN
    /\ \/ /\ same # {}
          /\ cases[first].status \in Nonterminal
          /\ Accepts(cases[first].content, OriginalRow[t], rows)
          /\ ApplyTo(first, rows)
       \/ /\ same = {}
          /\ Series # {}
          /\ NextId \in CaseIds
          /\ IndexAllows(t, NextId)
          /\ Accepts(fresh.content, OriginalRow[t], rows)
          /\ cases' = [cases EXCEPT ![NextId] = fresh]
          /\ lineage' = [lineage EXCEPT ![NextId] = <<Stored(rows)>>]
    /\ UNCHANGED <<registerVars, dialog, call, clerk, applies, decisions, historyVars>>

Next ==
    \/ \E t \in Txs : Touch(t) \/ Delete(t)
    \/ \E t \in Txs, s \in Series : CloseSeries(t, s)
    \/ \E d \in Dialogs, t \in Txs, p \in Proposals : DialogPreview(d, t, p)
    \/ \E d \in Dialogs : DialogLeave(d) \/ LoseAnswer(d)
    \/ \E d \in Dialogs, c \in Calls : StartApply(d, c)
    \/ \E c \in Calls : CallDies(c) \/ CallStep(c)
    \/ \E i \in Opened, to \in Statuses \ {"open", "applied"} : ClerkReads(i, to)
    \/ ClerkWrites
    \/ \E t \in Txs, corrected \in Reclassifications : Reclassify(t, corrected)

Spec == Init /\ [][Next]_vars

-----------------------------------------------------------------------------
TypeOK ==
    /\ version \in [Txs -> 0..MaxVersion]
    /\ deleted \subseteq Txs
    /\ active \in [Txs -> SUBSET Series]
    /\ \A i \in Opened : /\ cases[i].tx \in Txs
                         /\ cases[i].status \in Statuses
                         /\ cases[i].series \in Series
                         /\ cases[i].key # None => cases[i].key.tx = cases[i].tx
    /\ Opened = 1..Cardinality(Opened)
    /\ \A c \in Calls : call[c] # None => call[c].case \in {0} \cup Opened
    /\ clerk # None => clerk.case \in Opened

(* Each time a proposal was applied, as <<case, application>>.             *)
Applications(k) ==
    UNION {{<<i, n>> : n \in DOMAIN lineage[i]} : i \in WithKey(k)}

KeysInUse == {cases[i].key : i \in Opened} \ {None}

(* A proposal previewed on one version of a transaction is applied at most *)
(* once, however often Apply is pressed.  This is what the idempotency key *)
(* of applyControlledCorrectionAction is for.                              *)
AppliedOncePerProposal ==
    \A k \in KeysInUse : Cardinality(Applications(k)) <= 1

(* The same, of the proposals whose calls never overlapped one another, nor *)
(* a staff transition that wrote over an applied case: a retry after a lost *)
(* answer, a failed read or procedure or a dead server resumes and does not *)
(* repeat, unless its lookup missed the case; each such miss is good for one *)
(* application more and no further.                                        *)
RetriesApplyOnce ==
    \A k \in KeysInUse \ crossed : Cardinality(Applications(k)) <= 1 + missed[k]

(* A dialog that shows success for a case: the case is of its own preview, *)
(* and the rows it planned are in the ledger, once reversed and once        *)
(* forward, whichever call or reclassification inserted them.              *)
SuccessIsInTheLedger ==
    \A d \in Dialogs :
        dialog[d] # None /\ dialog[d].done # 0 =>
            /\ cases[dialog[d].done].key = dialog[d].key
            /\ \E n \in DOMAIN lineage[dialog[d].done] :
                 \A m \in 1..2 : lineage[dialog[d].done][n][m].row
                                    = Stored(PlannedRows(dialog[d].key))[m].row

(* The atomic reclassification opens no second case for values that differ *)
(* from those of an earlier one only in letters, spacing or punctuation.   *)
ReclassifiedOncePerIdentity ==
    \A i, j \in Opened :
        /\ cases[i].key = None /\ cases[j].key = None
        /\ cases[i].tx = cases[j].tx
        /\ SemanticIdentity(cases[i].content) = SemanticIdentity(cases[j].content)
        => i = j

(* What M1_EDITABLE_FIELDS promises: a correction of editable fields that a *)
(* call has opened and had approved is supported end to end, down to        *)
(* apply_correction_case, which accepts the rows planned for it.            *)
EditableFieldsAreSupported ==
    \A c \in Calls :
        At(c, "apply") /\ cases[call[c].case].status = "approved"
            => Appliable(call[c].case, PlannedRows(call[c].key))
=============================================================================
