-------------------------- MODULE AssistantDrafts --------------------------
(***************************************************************************)
(* Transaction drafts from a conversation to the ledger.                   *)
(*                                                                         *)
(* A tab of the assistant holds a collector.  Each text is first saved with *)
(* the conversation and then given to the collector; the answer of a save   *)
(* may be lost, and then the user has to send the text again.  A text that   *)
(* settles cash with a client, and every text while that is being asked     *)
(* about or its card is open, is saved but not given to the collector.  A   *)
(* new tab gives it all the saved texts.  From the review the user          *)
(* creates a draft under the key of the collector; the answer of that call  *)
(* may be lost as well.  Staff edit a draft in a form opened earlier, reject *)
(* it, or approve it, which posts a transaction.                            *)
(***************************************************************************)
EXTENDS DraftCollector

CONSTANTS
    Texts,        \* what users say
    Suggested,    \* the property the assistant was opened for, or None
    NumKeys,      \* bound: idempotency keys drawn
    MaxTexts,     \* bound: texts sent
    LongTalks,    \* bound: conversations of more texts that are looked at
    MaxReloads,   \* bound: tabs opened on a saved conversation
    MaxEdits,     \* bound: forms opened on drafts
    EditedAmount  \* the amount an editor puts in, or None

ASSUME DraftAssumption ==
    /\ NumKeys \in Nat \ {0} /\ MaxTexts \in Nat
    /\ MaxReloads \in Nat /\ MaxEdits \in Nat
    /\ Null # None

\* Fields that a draft may have no value for.
Optional == {"propertyName", "clientCharge"}

\* What the expressions read is a value, and a known category and one of its
\* subcategories where they read one (resolveCategoryAnswer, applyClosedSemantics).
Reads(values) ==
    /\ \A f \in DOMAIN values :
           values[f] # None /\ (values[f] = Null => f \in Optional)
    /\ "category" \in DOMAIN values =>
           /\ values.category \in ToSet(Categories)
           /\ "subcategory" \in DOMAIN values =>
                  values.subcategory \in ToSet(SubcategoriesOf[values.category])

\* A category is found with its subcategory, next to a payment verb; a negation
\* empties both.
ASSUME TextsAssumption ==
    \A t \in Texts :
        /\ Reads(t.finds) /\ Reads(t.types) /\ Reads(t.defaults)
        /\ t.word \notin {Null, None}
        /\ ("category" \in DOMAIN t.finds) = ("subcategory" \in DOMAIN t.finds)
        /\ "category" \in DOMAIN t.finds => t.kind \in {"report", "denial", "correction", "exit"}
        /\ t.cash \in BOOLEAN
        /\ DOMAIN t.defaults \subseteq {"clientCharge", "description", "notes"}
        /\ ("category" \in t.clears) = ("subcategory" \in t.clears)
        /\ IsFiniteSet(t.leads)
        /\ \A l \in Pairs(t.leads) : /\ l[1] \in ToSet(Categories)
                                     /\ l[2] \in ToSet(SubcategoriesOf[l[1]])

VARIABLES
    collector, \* the collector of the open tab
    created,   \* the draft the tab reports as created, 0 if none
    creating,  \* creatingRef: set by a create call, cleared by its failure
    call,      \* the create call: None or [collector, at]
    listing,   \* the saved texts a new tab has read and not yet replayed
    asking,    \* pendingCash, -Name, -Funding or -Partner is set
    card,      \* cashCard: "none", "open" or "recorded"
    saved,     \* the texts saved with the conversation
    keys,      \* idempotency keys drawn so far
    drafts,    \* finance.agent_transaction_drafts by key
    posted,    \* rows posted to public.transactions
    form,      \* an open edit form: None or [draft, values]
    edits, reloads,
    apart,     \* history: the tab and the saved texts went apart
    unasked    \* history: keys of a lost draft whose slots changed since

cashVars == <<asking, card>>
tabVars == <<collector, created, creating, call, listing, saved, keys, cashVars>>
staffVars == <<form, edits>>
vars == <<tabVars, drafts, posted, staffVars, reloads, apart, unasked>>

Keys == 1..NumKeys
Values(slots) == [f \in SlotNames |-> slots[f].value]
Made == {k \in Keys : drafts[k] # None}
Editable == {"draft", "needs_review", "ready_for_approval"}

Init ==
    /\ collector = Suggest(NewCollector(1), Suggested)
    /\ created = 0
    /\ creating = FALSE
    /\ call = None
    /\ listing = None
    /\ asking = FALSE
    /\ card = "none"
    /\ saved = <<>>
    /\ keys = 1
    /\ drafts = [k \in Keys |-> None]
    /\ posted = <<>>
    /\ form = None
    /\ edits = 0
    /\ reloads = 0
    /\ apart = FALSE
    /\ unasked = {}

-----------------------------------------------------------------------------
(* Not loading, and no draft created in this tab.                          *)
Free == call = None /\ created = 0

(* fault: a text is recognised by what it says *)
AppendOnce(t) == IF t \in ToSet(saved) THEN saved ELSE Append(saved, t)

(* append_ops_inbound_message under a key of its own: a text that is sent   *)
(* again is saved again.                                                   *)
Saving(t) == Append(saved, t)

Room(t) == Len(saved) < MaxTexts \/ Append(saved, t) \in LongTalks

(* history: a draft was made under the key and its answer lost, and the     *)
(* slots change by something else than a typed correction, under that key   *)
KeptKey(before, after, t) ==
    IF /\ before.key \in Made
       /\ after.key = before.key
       /\ Values(after.slots) # Values(before.slots)
       /\ t.kind # "correction" \/ Picked(before, t) # 0
    THEN {before.key} ELSE {}

(* The branches of sendBody before applyUserText.                          *)
ToCash(t) == asking \/ t.cash \/ card # "none"

(* sendBody.  The collector was read before the text was saved: a history   *)
(* that arrives in between is overwritten.                                 *)
Send(t) ==
    LET next == Say(collector, t, keys + 1) IN
    /\ Free
    /\ Room(t)
    /\ ~ToCash(t)
    /\ next.key \in Keys
    /\ saved' = Saving(t)
    /\ collector' = next
    /\ listing' \in {listing, None}
    /\ keys' = IF next.key > keys THEN next.key ELSE keys
    /\ apart' = (apart \/ listing # None)
    /\ unasked' = unasked \cup KeptKey(collector, next, t)
    /\ UNCHANGED <<created, creating, call, drafts, posted, staffVars, reloads, cashVars>>

(* The text is saved and taken by the cash settlement: nothing is found or   *)
(* the preview fails, it is asked on or left, or its card opens.  Of a card *)
(* that was recorded the buttons stay disabled.                            *)
SendToCash(t) ==
    /\ Free
    /\ Room(t)
    /\ ToCash(t)
    /\ saved' = Saving(t)
    /\ apart' = TRUE
    /\ \/ UNCHANGED cashVars
       \/ /\ asking \/ t.cash
          /\ asking' = ~asking
          /\ UNCHANGED card
       \/ /\ asking \/ t.cash
          /\ asking' = FALSE
          /\ card' = IF card = "recorded" THEN card ELSE "open"
    /\ UNCHANGED <<collector, created, creating, call, listing, keys, drafts, posted,
                   staffVars, reloads, unasked>>

(* "Change details" and "Cancel" on the card.                              *)
LeaveCash ==
    /\ call = None
    /\ card = "open"
    /\ card' = "none"
    /\ asking' = FALSE
    /\ UNCHANGED <<collector, created, creating, call, listing, saved, keys, drafts, posted,
                   staffVars, reloads, apart, unasked>>

(* onRecordCash, answered (ClientCashSettlement is what it calls).          *)
RecordCash ==
    /\ call = None
    /\ card = "open"
    /\ card' = "recorded"
    /\ UNCHANGED <<collector, created, creating, call, listing, saved, keys, asking, drafts,
                   posted, staffVars, reloads, apart, unasked>>

(* The text is saved and the answer lost: the tab stays where it was.       *)
SendLost(t) ==
    /\ Free
    /\ Room(t)
    /\ saved' = Saving(t)
    /\ apart' = TRUE
    /\ UNCHANGED <<collector, created, creating, call, listing, keys, drafts, posted,
                   staffVars, reloads, unasked, cashVars>>

(* "Cancel" on the review and "New transaction" start over with a new key   *)
(* and save nothing.                                                       *)
StartAgain ==
    /\ Free
    /\ keys < NumKeys
    /\ keys' = keys + 1
    /\ collector' = NewCollector(keys + 1)
    /\ apart' = TRUE
    /\ UNCHANGED <<created, creating, call, listing, saved, drafts, posted, staffVars,
                   reloads, unasked, cashVars>>

(* onCreateDraft, under creatingRef.                                       *)
PressCreate ==
    /\ Free
    /\ ~creating
    /\ collector.prompt.kind = "ready"
    /\ creating' = TRUE
    /\ call' = [collector |-> collector, at |-> "sent"]
    /\ UNCHANGED <<collector, created, listing, saved, keys, drafts, posted,
                   staffVars, reloads, apart, unasked, cashVars>>

(* resolveDraftStatus.                                                     *)
DraftStatus(values) == IF values.propertyName = Null THEN "needs_review" ELSE "draft"

NewDraft(values) ==
    [values |-> values, status |-> DraftStatus(values), tx |-> 0, edited |-> FALSE]

(* create_agent_transaction_draft: ON CONFLICT (idempotency_key) DO NOTHING. *)
ServerCreates ==
    /\ call # None
    /\ call.at = "sent"
    /\ drafts' = IF call.collector.key \in Made THEN drafts
                 ELSE [drafts EXCEPT ![call.collector.key] =
                          NewDraft(Values(call.collector.slots))]
    /\ call' = [call EXCEPT !.at = "made"]
    /\ UNCHANGED <<collector, created, creating, listing, saved, keys, posted, staffVars,
                   reloads, apart, unasked, cashVars>>

(* fault: the answer is not awaited *)
AnswerAssumed ==
    /\ call # None
    /\ collector' = call.collector
    /\ created' = call.collector.key
    /\ call' = None
    /\ UNCHANGED <<creating, listing, saved, keys, drafts, posted, staffVars,
                   reloads, apart, unasked, cashVars>>

(* The tab goes back to the collector it created the draft from.           *)
AnswerCreated ==
    /\ call # None
    /\ call.at = "made"
    /\ collector' = call.collector
    /\ created' = call.collector.key
    /\ call' = None
    /\ UNCHANGED <<creating, listing, saved, keys, drafts, posted, staffVars,
                   reloads, apart, unasked, cashVars>>

(* The call fails, before or after the draft was made.                     *)
CreateFails ==
    /\ call # None
    /\ call' = None
    /\ creating' = FALSE
    /\ UNCHANGED <<collector, created, listing, saved, keys, drafts, posted,
                   staffVars, reloads, apart, unasked, cashVars>>

(* A new tab on the conversation: a key of its own, and the saved texts     *)
(* are read while the tab is already open.  A call that was sent is made    *)
(* or lost (ServerCreates comes before, or never).                         *)
OpenTab ==
    /\ reloads < MaxReloads
    /\ saved # <<>>
    /\ keys < NumKeys
    /\ reloads' = reloads + 1
    /\ keys' = keys + 1
    /\ collector' = NewCollector(keys + 1)
    /\ created' = 0
    /\ creating' = FALSE
    /\ call' = None
    /\ listing' = saved
    /\ asking' = FALSE
    /\ card' = "none"
    /\ apart' = FALSE
    /\ UNCHANGED <<saved, drafts, posted, staffVars, unasked>>

Rebuilt(texts, key) == Replay(texts, key, keys + 1, Suggested)

InFlight == IF call = None THEN {} ELSE {call.collector.key}

(* The effect of listOpsConversation: it sets the collector whatever the    *)
(* user did meanwhile, under the key of the tab.                           *)
HistoryArrives ==
    LET again == Rebuilt(listing, collector.key) IN
    /\ listing # None
    /\ again.key \in Keys
    /\ collector' = again
    /\ created' = 0
    /\ listing' = None
    /\ keys' = IF again.key > keys THEN again.key ELSE keys
    /\ unasked' = unasked \cup ({again.key} \cap (Made \cup InFlight))
    /\ UNCHANGED <<creating, call, saved, drafts, posted, staffVars, reloads, apart, cashVars>>

-----------------------------------------------------------------------------
(* The inbox.  A form keeps the values of the moment it was opened and      *)
(* writes all of them.                                                     *)
OpenForm(k) ==
    /\ form = None
    /\ edits < MaxEdits
    /\ edits' = edits + 1
    /\ form' = [draft |-> k, values |-> drafts[k].values]
    /\ UNCHANGED <<tabVars, drafts, posted, reloads, apart, unasked>>

(* fault: any draft can be updated *)
UpdatableAlways(draft) == TRUE

Updatable(draft) == draft.status \in Editable

(* update_agent_transaction_draft, or a form that is left.                  *)
SubmitForm(values) ==
    /\ form # None
    /\ \/ /\ Updatable(drafts[form.draft])
          /\ drafts' = [drafts EXCEPT ![form.draft] =
                           [@ EXCEPT !.values = values, !.status = DraftStatus(values),
                                     !.edited = TRUE]]
       \/ UNCHANGED drafts
    /\ form' = None
    /\ UNCHANGED <<tabVars, edits, posted, reloads, apart, unasked>>

EditorValues == {form.values, [form.values EXCEPT !.amountEur = EditedAmount]}

Reject(k) ==
    /\ drafts[k].status \in Editable
    /\ drafts' = [drafts EXCEPT ![k].status = "rejected"]
    /\ UNCHANGED <<tabVars, posted, staffVars, reloads, apart, unasked>>

(* The fields approve_and_post_agent_transaction_draft requires.           *)
PostingFields ==
    {"date", "propertyName", "category", "subcategory", "payer", "payee", "amountEur"}

Postable(values) == \A f \in PostingFields : values[f] \notin {Null, None}

(* approve_and_post_agent_transaction_draft.  A draft that is posted is     *)
(* answered with its transaction; nothing changes.                         *)
Approve(k) ==
    /\ drafts[k].status \in Editable
    /\ Postable(drafts[k].values)
    /\ posted' = Append(posted, drafts[k].values)
    /\ drafts' = [drafts EXCEPT ![k].status = "posted", ![k].tx = Len(posted) + 1]
    /\ UNCHANGED <<tabVars, staffVars, reloads, apart, unasked>>

ChatStep ==
    \/ \E t \in Texts : Send(t) \/ SendToCash(t) \/ SendLost(t)
    \/ LeaveCash \/ RecordCash \/ StartAgain \/ PressCreate \/ ServerCreates \/ AnswerCreated \/ CreateFails
    \/ OpenTab \/ HistoryArrives

StaffStep ==
    \/ \E k \in Made : OpenForm(k) \/ Reject(k) \/ Approve(k)
    \/ form # None /\ \E values \in EditorValues : SubmitForm(values)

Next == ChatStep \/ StaffStep

Spec == Init /\ [][Next]_vars

-----------------------------------------------------------------------------
TypeOK ==
    /\ collector.key \in 1..keys
    /\ keys \in Keys
    /\ created \in {0} \cup Made
    /\ \A k \in Made : /\ drafts[k].status \in Editable \cup {"rejected", "posted"}
                       /\ (drafts[k].status = "posted") = (drafts[k].tx # 0)
    /\ collector.prompt.kind \in {"talk", "unsupported", "question", "ready"}
    /\ collector.prompt.kind = "question" =>
           collector.prompt.field \in Fields \cup {"intent"}

(* A conversation opened again leads to the slots and the question of the   *)
(* tab as long as they did not go apart: the draft is not saved, it is      *)
(* rebuilt from the texts.  They go apart by what is not saved (a review    *)
(* that is cancelled), by what is saved without the tab (a lost answer, a   *)
(* history that arrives late) and by every text the cash settlement took:  *)
(* a new tab gives those to the collector, as reports of transactions.      *)
ReviewSurvivesReload ==
    ~apart /\ listing = None =>
        LET again == Rebuilt(saved, collector.key) IN
        /\ again.slots = collector.slots
        /\ again.prompt = collector.prompt

(* The draft a tab reports as created holds what the review showed, unless  *)
(* an earlier answer was lost and the slots were changed since by a choice  *)
(* or a direct answer: those keep the key, and the old draft is reported.   *)
(* A typed correction of anything but the description and the notes draws a *)
(* new key and gets a draft of its own.                                    *)
CorrectionGetsItsOwnDraft ==
    /\ created # 0
    /\ created \notin unasked
    /\ ~drafts[created].edited
    => \A f \in MaterialFields :
           drafts[created].values[f] = collector.slots[f].value

(* A subcategory the user chose or typed is one of the category, and so is   *)
(* one proposed with its category, by whichever order of choices, typed     *)
(* names, corrections and changes they were filled in.  Only one proposed   *)
(* by a later text under a confirmed category may be foreign to it: the text *)
(* "1. did I receive rent?" passes for an answer and fills what is unknown.  *)
SubcategoryFitsItsCategory ==
    LET category    == collector.slots.category
        subcategory == collector.slots.subcategory
    IN  SlotReady(subcategory) =>
            /\ SlotReady(category)
            /\ subcategory.status = "confirmed" \/ category.status = "proposed" =>
                   subcategory.value \in ToSet(SubcategoriesOf[category.value])

(* What the assistant asks for is what posting requires: a draft it made    *)
(* with a property can be approved as it stands.                            *)
ReviewedDraftIsPostable ==
    \A k \in Made :
        /\ ~drafts[k].edited
        /\ drafts[k].values.propertyName # Null
        => Postable(drafts[k].values)

(* Every posted transaction is that of exactly one draft, which stays posted *)
(* and has its values, whatever forms were open when it was approved.        *)
PostedDraftsStay ==
    \A i \in DOMAIN posted :
        \E k \in Made :
            /\ {j \in Made : drafts[j].tx = i} = {k}
            /\ drafts[k].status = "posted"
            /\ drafts[k].values = posted[i]

(* A value the user confirmed is changed only by a report that starts over, *)
(* a correction, or a text that picks a choice or answers a question about  *)
(* the field; texts that merely mention another value leave it.             *)
ConfirmedValuesStay ==
    [][\A t \in Texts, f \in Fields :
         /\ saved' = Append(saved, t)
         /\ collector.slots[f].status = "confirmed"
         /\ collector.slots[f].value # collector'.slots[f].value
         => \/ t.kind \in {"report", "correction", "exit", "noCharge"}
            \/ collector.prompt.field = f
            \/ Picked(collector, t) # 0]_collector
=============================================================================
