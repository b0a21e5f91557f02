--------------------------- MODULE DraftCollector ---------------------------
(***************************************************************************)
(* The conversation that collects a transaction draft.  The collector is a *)
(* function: from its state and the next text of the user it computes the  *)
(* slots filled so far, what to ask next and the idempotency key under     *)
(* which the draft will be created.                                        *)
(*                                                                         *)
(* A text is modelled by what the expressions of the collector find in it: *)
(*    kind     what it is taken for (see Kinds)                            *)
(*    word     the text itself, as a label or a typed name                 *)
(*    digit    the number 1, 2 or 3 it begins with, or 0                   *)
(*    item     it begins with "1." or the like, or is the number            *)
(*    cash     it settles an amount of cash with a client                   *)
(*    finds    values found anywhere in it, by field                       *)
(*    defaults values it gives to fields that have none                    *)
(*    clears   fields a negation empties                                   *)
(*    types    values it reads as when typed in answer to a field          *)
(*    leads    the properties it comes near to, each as <<property>>, and   *)
(*             what its keywords suggest, as <<category, subcategory>>      *)
(***************************************************************************)
EXTENDS Integers, Sequences, SequencesExt, FiniteSets

CONSTANTS
    Categories,      \* a sequence
    SubcategoriesOf, \* a sequence of each category
    Properties,      \* names of the catalog
    Today,           \* the date offered
    Payers, Payees,  \* sequences of the names offered
    Null,            \* no property, no charge
    None

\* The names of the catalog and of the choices offered are names.
ASSUME CatalogAssumption ==
    LET lists == {Categories, Payers, Payees}
                     \cup {SubcategoriesOf[c] : c \in ToSet(Categories)}
    IN  /\ IsFiniteSet(Properties)
        /\ \A names \in lists : names \in Seq(ToSet(names))
        /\ {Null, None} \cap ({Today} \cup Properties \cup UNION {ToSet(names) : names \in lists})
               = {}

\* "Report" texts have a payment verb, "denial" texts deny a payment or ask about
\* it, "correction" texts have an opening such as "the amount is", "offtopic"
\* texts ask for mail, documents or reports.
Kinds == {"report", "denial", "correction", "exit", "noCharge", "charge", "change",
          "other", "unknown", "offtopic", "answer"}

(* The order in which nextPrompt asks.                                     *)
AskOrder == <<"amountEur", "propertyName", "date", "category", "subcategory",
              "payer", "payee", "clientCharge", "description">>

Fields == ToSet(AskOrder)
SlotNames == Fields \cup {"notes"}

UnknownSlot == [status |-> "unknown", value |-> None]
Proposed(v) == [status |-> "proposed", value |-> v]
Confirmed(v) == [status |-> "confirmed", value |-> v]

EmptySlots == [f \in SlotNames |-> UnknownSlot]

HasProposal(slots) == \E f \in SlotNames : slots[f].status # "unknown"

SlotReady(slot) == slot.status # "unknown"

(* sub overrides slots where it is defined.                                *)
Override(slots, sub) ==
    [f \in SlotNames |-> IF f \in DOMAIN sub THEN sub[f] ELSE slots[f]]

ConfirmAll(values) == [f \in DOMAIN values |-> Confirmed(values[f])]

(* fault: a confirmed value gives way to any text *)
SetAnySlot(slot, v, force) == Proposed(v)

(* setSlot, and overwriteSlot when forced.                                 *)
SetSlot(slot, v, force) ==
    IF slot.status = "confirmed" /\ ~force THEN slot ELSE Proposed(v)

(* applyUtterance, with applyClosedSemantics.                              *)
ApplyUtterance(slots, t, force) ==
    [f \in SlotNames |->
        IF f \in DOMAIN t.finds THEN SetSlot(slots[f], t.finds[f], force)
        ELSE IF f \in DOMAIN t.defaults /\ ~SlotReady(slots[f])
             THEN Proposed(t.defaults[f])
        ELSE slots[f]]

-----------------------------------------------------------------------------
(* A choice is the text of its label and what it does to the slots, or one *)
(* of the answers that do something else.                                  *)
Choice(label, sub) == [label |-> label, sub |-> sub, then |-> "fill"]
Command(label, then) == [label |-> label, sub |-> <<>>, then |-> then]

Question(field, choices, search, step) ==
    [kind |-> "question", field |-> field, choices |-> choices,
     search |-> search, step |-> step]

Plain(kind) == [kind |-> kind, field |-> "", choices |-> <<>>,
                search |-> FALSE, step |-> ""]

Ask(field, choices) == Question(field, choices, FALSE, "")

FirstThree(seq) == SubSeq(seq, 1, IF Len(seq) < 3 THEN Len(seq) ELSE 3)

One(field, v) == [f \in {field} |-> Confirmed(v)]

NoProperty == Choice("no property", One("propertyName", Null))
NoCharge == Choice("no charge", One("clientCharge", Null))

PropertyQuestion(near) ==
    IF Cardinality(near) \in 1..3
    THEN Question("propertyName",
                  [i \in 1..Cardinality(near) |->
                      LET p == SetToSeq(near)[i] IN Choice(p, One("propertyName", p))],
                  Cardinality(near) > 1, "")
    ELSE Question("propertyName", <<NoProperty>>, TRUE, "")

Pair(c, s) == ConfirmAll([category |-> c, subcategory |-> s])
CategoryOnly(c) == [category |-> Confirmed(c), subcategory |-> UnknownSlot]

CategoryChoices(pairs) ==
    IF pairs # {}
    THEN [i \in DOMAIN FirstThree(SetToSeq(pairs)) |->
             LET p == SetToSeq(pairs)[i]
             IN  Choice(p[1] \o " / " \o p[2], Pair(p[1], p[2]))]
    ELSE [i \in DOMAIN FirstThree(Categories) |->
             Choice(Categories[i], CategoryOnly(Categories[i]))]

Named(field, names) ==
    [i \in DOMAIN FirstThree(names) |-> Choice(names[i], One(field, names[i]))]

ChargeDecision ==
    Question("clientCharge", <<NoCharge, Command("charge", "charge:yes")>>, FALSE, "decision")

ChargeAmount == Question("clientCharge", <<NoCharge>>, FALSE, "amount")

NearProperties(leads) == {p \in Properties : <<p>> \in leads}
Pairs(leads) == {l \in leads : Len(l) = 2}

(* The question for the first field that is not ready, and the review when *)
(* all are; leads are those of the texts since the proposal began.         *)
QuestionFor(field, slots, leads) ==
    CASE field \in {"amountEur", "description"} -> Ask(field, <<>>)
      [] field = "propertyName" -> PropertyQuestion(NearProperties(leads))
      [] field = "date" -> Ask(field, Named("date", <<Today>>))
      [] field = "category" -> Ask(field, CategoryChoices(Pairs(leads)))
      [] field = "subcategory" ->
             Ask(field, Named(field, SubcategoriesOf[slots.category.value]))
      [] field = "payer" -> Ask(field, Named(field, Payers))
      [] field = "payee" -> Ask(field, Named(field, Payees))
      [] field = "clientCharge" -> ChargeDecision

Unready(slots) == {i \in DOMAIN AskOrder : ~SlotReady(slots[AskOrder[i]])}

(* fault: who paid is not asked for *)
NextPromptWithoutPayer(slots, leads) ==
    LET missing == {i \in Unready(slots) : AskOrder[i] # "payer"} IN
    IF missing = {} THEN Plain("ready")
    ELSE QuestionFor(AskOrder[CHOOSE i \in missing : \A j \in missing : i <= j],
                     slots, leads)

NextPrompt(slots, leads) ==
    LET missing == Unready(slots) IN
    IF missing = {} THEN Plain("ready")
    ELSE QuestionFor(AskOrder[CHOOSE i \in missing : \A j \in missing : i <= j],
                     slots, leads)

-----------------------------------------------------------------------------
NewCollector(key) ==
    [slots |-> EmptySlots, prompt |-> Plain("talk"), key |-> key,
     leads |-> {}, pending |-> None]

Collecting(s) == s.prompt.kind \in {"question", "ready"}

Talk(s) == [s EXCEPT !.prompt = Plain("talk"), !.pending = None]

(* The slots after an answer, and the next question.                       *)
Filled(s, slots) == [s EXCEPT !.slots = slots, !.prompt = NextPrompt(slots, s.leads)]

(* beginCollection keeps the slots and the key, fillFromText starts over.   *)
Begin(s, t) ==
    LET slots == ApplyUtterance(s.slots, t, TRUE) IN
    [s EXCEPT !.slots = slots, !.leads = t.leads, !.pending = None,
              !.prompt = NextPrompt(slots, t.leads)]

StartOver(t, fresh) == Begin(NewCollector(fresh), t)

(* fault: no change takes a new key *)
NeverMaterial(old, new) == FALSE

(* applyCorrection: a change of any value but the description and the      *)
(* notes is material and takes a new key.                                  *)
MaterialFields == Fields \ {"description"}

Material(old, new) == \E f \in MaterialFields : old[f].value # new[f].value

Correct(s, t, fresh) ==
    LET cleared == [f \in SlotNames |->
                       IF f \in t.clears THEN UnknownSlot ELSE s.slots[f]]
        slots   == ApplyUtterance(cleared, t, TRUE)
        leads   == s.leads \cup t.leads
    IN  [s EXCEPT !.slots = slots, !.leads = leads, !.pending = None,
                  !.key = IF Material(s.slots, slots) THEN fresh ELSE @,
                  !.prompt = NextPrompt(slots, leads)]

(* resetForChangeDetails.                                                  *)
Emptied(fields) == [f \in fields |-> UnknownSlot]

ChangeMenu(s) ==
    [s EXCEPT !.prompt =
        Ask("description",
            <<Choice("the property", Emptied({"propertyName"})),
              Choice("the amount", Emptied({"amountEur"})),
              Choice("the category", Emptied({"category", "subcategory"}))>>)]

IntentQuestion ==
    Ask("intent", <<Command("new transaction", "intent:new"),
                    Command("a correction", "intent:fix"),
                    Command("cancel", "intent:cancel")>>)

(* applyChoiceId.                                                          *)
Choose(s, c, fresh) ==
    CASE c.then = "fill" -> Filled(s, Override(s.slots, c.sub))
      [] c.then = "charge:yes" -> [s EXCEPT !.prompt = ChargeAmount]
      [] c.then = "intent:new" -> StartOver(s.pending, fresh)
      [] c.then = "intent:fix" -> Correct(s, s.pending, fresh)
      [] c.then = "intent:cancel" -> NewCollector(fresh)

(* "I do not know": no property, an explicit decision on the charge, and    *)
(* nothing for any other field.                                            *)
ChooseUnknown(s) ==
    CASE s.prompt.field = "propertyName" ->
             Filled(s, Override(s.slots, One("propertyName", Null)))
      [] s.prompt.field = "clientCharge" ->
             [s EXCEPT !.prompt = Question("clientCharge", <<NoCharge>>, FALSE, "")]
      [] OTHER -> s

(* "Something else": the value is to be typed.                             *)
ChooseOther(s) ==
    [s EXCEPT !.prompt.choices = <<>>, !.prompt.search = s.prompt.field = "propertyName"]

(* applyClientChargeAnswer.                                                *)
AnswerCharge(s, t) ==
    IF t.kind = "noCharge" THEN Filled(s, Override(s.slots, One("clientCharge", Null)))
    ELSE IF s.prompt.step = "amount"
    THEN IF "clientCharge" \in DOMAIN t.types
         THEN Filled(s, Override(s.slots, One("clientCharge", t.types.clientCharge)))
         ELSE [s EXCEPT !.prompt = ChargeAmount]
    ELSE [s EXCEPT !.prompt = IF t.kind = "charge" THEN ChargeAmount ELSE ChargeDecision]

(* fault: any known subcategory is taken, whatever the category *)
TypedSubOfAny(s, t) ==
    IF "subcategory" \in DOMAIN t.types
    THEN One("subcategory", t.types.subcategory) ELSE <<>>

TypedSub(s, t) ==
    IF /\ "subcategory" \in DOMAIN t.types
       /\ t.types.subcategory \in ToSet(SubcategoriesOf[s.slots.category.value])
    THEN One("subcategory", t.types.subcategory) ELSE <<>>

(* applyTypedField: what a typed answer to a field confirms; nothing when   *)
(* it is not understood.  A name alone answers who paid and who was paid.   *)
TypedValue(s, field, t) ==
    CASE field \in {"payer", "payee", "description"} -> One(field, t.word)
      [] field = "subcategory" -> TypedSub(s, t)
      [] field = "category" ->
             IF "category" \notin DOMAIN t.types THEN <<>>
             ELSE IF "subcategory" \in DOMAIN t.types
             THEN Pair(t.types.category, t.types.subcategory)
             ELSE CategoryOnly(t.types.category)
      [] field \in {"amountEur", "date", "propertyName"} ->
             IF field \in DOMAIN t.types THEN One(field, t.types[field]) ELSE <<>>

AskAgain(s, field, t) ==
    CASE field = "propertyName" ->
             [s EXCEPT !.prompt = PropertyQuestion(NearProperties(t.leads))]
      [] field = "category" -> [s EXCEPT !.prompt = Ask(field, CategoryChoices(Pairs(t.leads)))]
      [] field = "subcategory" -> [s EXCEPT !.prompt = QuestionFor(field, s.slots, {})]
      [] OTHER -> s

AnswerTyped(s, field, t) ==
    IF DOMAIN TypedValue(s, field, t) = {} THEN AskAgain(s, field, t)
    ELSE LET slots == Override(s.slots, TypedValue(s, field, t))
         IN  [s EXCEPT !.slots = slots, !.prompt = NextPrompt(slots, s.leads \cup t.leads)]

-----------------------------------------------------------------------------
(* The choice a text picks: by its number or by its label, 0 if none.       *)
Picked(s, t) ==
    LET labelled == {i \in DOMAIN s.prompt.choices : s.prompt.choices[i].label = t.word} IN
    IF t.digit \in DOMAIN s.prompt.choices THEN t.digit
    ELSE IF labelled # {} THEN CHOOSE i \in labelled : TRUE
    ELSE 0

(* isStrongNewTransaction.                                                 *)
Strong(t) ==
    /\ t.kind = "report"
    /\ "amountEur" \in DOMAIN t.finds
    /\ \/ DOMAIN t.finds \cap {"date", "category"} # {}
       \/ t.leads # {}

(* Fields whose typed answers are taken before anything else is looked for. *)
TypedFirst == {"payer", "payee", "category", "subcategory"}

(* classifyTransactionTurn: a payment beside the proposal, unless the text   *)
(* looks like the direct answer to a question.                             *)
Unclear(s, t) ==
    /\ t.kind \in {"report", "denial"}
    /\ ~Strong(t)
    /\ HasProposal(s.slots)
    /\ ~(t.item /\ s.prompt.kind = "question")

(* A text that answers no choice and no such field, while collecting.       *)
TakeTurn(s, t, fresh) ==
    LET leads == s.leads \cup t.leads
        slots == ApplyUtterance(s.slots, t, FALSE)
        heard == [s EXCEPT !.slots = slots, !.leads = leads]
    IN
    CASE t.kind = "exit" -> NewCollector(fresh)
      [] Strong(t) /\ HasProposal(s.slots) -> StartOver(t, fresh)
      [] t.kind = "correction" -> Correct(s, t, fresh)
      [] Unclear(s, t) ->
             [s EXCEPT !.pending = t, !.prompt = IntentQuestion]
      [] OTHER ->
             IF /\ s.prompt.kind = "question"
                /\ s.prompt.field # "intent"
                /\ s.prompt.choices = <<>> \/ s.prompt.search
                /\ s.prompt.field \in {"amountEur", "date"} =>
                       s.prompt.field \in DOMAIN t.types
             THEN AnswerTyped(heard, s.prompt.field, t)
             ELSE [heard EXCEPT !.pending = None, !.prompt = NextPrompt(slots, leads)]

(* applyUserText, as far as the chat calls it (no draft created yet).       *)
Say(s, t, fresh) ==
    LET asked == s.prompt.kind = "question"
        picks == asked /\ Picked(s, t) # 0
    IN
    CASE t.kind = "change" -> IF Collecting(s) THEN ChangeMenu(s) ELSE Talk(s)
      [] t.kind = "offtopic" -> [s EXCEPT !.prompt = Plain("unsupported")]
      [] t.kind \notin {"change", "offtopic"} /\ picks ->
             Choose(s, s.prompt.choices[Picked(s, t)], fresh)
      [] asked /\ ~picks /\ t.kind = "other" -> ChooseOther(s)
      [] asked /\ ~picks /\ t.kind = "unknown" -> ChooseUnknown(s)
      [] OTHER ->
           IF asked /\ t.kind \notin {"exit", "correction"} /\ s.prompt.field = "clientCharge"
           THEN AnswerCharge(s, t)
           ELSE IF asked /\ t.kind \notin {"exit", "correction"}
                         /\ s.prompt.field \in TypedFirst
           THEN AnswerTyped(s, s.prompt.field, t)
           ELSE IF Collecting(s) /\ t.kind = "noCharge"
           THEN Filled(s, Override(s.slots, One("clientCharge", Null)))
           ELSE IF Collecting(s) THEN TakeTurn(s, t, fresh)
           ELSE CASE t.kind = "exit" -> NewCollector(s.key)
                  [] t.kind = "report" -> Begin(s, t)
                  [] OTHER -> Talk(s)

(* applyPropertyPick before anything was said: the suggested property.      *)
Suggest(s, property) ==
    IF property \in Properties
    THEN [s EXCEPT !.slots.propertyName = Confirmed(property)] ELSE s

(* replayUtterances: the collector a conversation leads to; fresh stands    *)
(* for the keys it derives for the texts that take a new one.               *)
Replay(texts, key, fresh, property) ==
    LET after[n \in 0..Len(texts)] ==
            IF n = 0 THEN Suggest(NewCollector(key), property)
            ELSE Say(after[n - 1], texts[n], fresh)
    IN  after[Len(texts)]
=============================================================================
