----------------------- MODULE AssistantDraftsProofs -----------------------
(***************************************************************************)
(* The properties of AssistantDrafts, for every catalog, every set of texts *)
(* and every bound.                                                        *)
(*                                                                         *)
(* First the collector by itself: what it fills, asks and answers keeps the *)
(* slots, the question and its choices consistent (CollectorOK), whichever  *)
(* text comes (SayOK); nothing it does depends on the keys drawn (SayAlike); *)
(* confirmed values and material values change only where they may.        *)
(* The replay of a conversation is then an induction over its texts.       *)
(*                                                                         *)
(* Then the table of drafts and the ledger, which nothing of the dialogue   *)
(* touches (DraftsInv), and at last what the tab, the call, the keys and    *)
(* the saved texts have to do with each other (ConversationInv).           *)
(***************************************************************************)
EXTENDS AssistantDrafts, FiniteSetTheorems, WellFoundedInduction, TLAPS

CollectorFields == {"slots", "prompt", "key", "leads", "pending"}
PromptFields == {"kind", "field", "choices", "search", "step"}

(* A value that is ready is one; a category and a subcategory are proposed   *)
(* together, and a subcategory is confirmed under a confirmed category.     *)
SlotsOK(slots) ==
    /\ DOMAIN slots = SlotNames
    /\ \A f \in SlotNames :
           /\ slots[f].status \in {"unknown", "proposed", "confirmed"}
           /\ SlotReady(slots[f]) =>
                  slots[f].value # None /\ (slots[f].value = Null => f \in Optional)
    /\ SlotReady(slots["category"]) => slots["category"].value \in ToSet(Categories)
    /\ SlotReady(slots["subcategory"]) => SlotReady(slots["category"])
    /\ slots["category"].status = "proposed" => slots["subcategory"].status = "proposed"
    /\ slots["subcategory"].status = "confirmed" \/ slots["category"].status = "proposed" =>
           slots["subcategory"].value \in ToSet(SubcategoriesOf[slots["category"].value])

(* A choice leads to such slots again, or does something else.              *)
ChoiceOK(slots, field, c) ==
    /\ \/ c.then \in {"fill", "charge:yes"}
       \/ field = "intent" /\ c.then \in {"intent:new", "intent:fix", "intent:cancel"}
    /\ c.then = "fill" => SlotsOK(Override(slots, c.sub))

PromptOK(slots, prompt) ==
    /\ DOMAIN prompt = PromptFields
    /\ prompt.kind \in {"talk", "unsupported", "question", "ready"}
    /\ prompt.kind = "question" => prompt.field \in Fields \cup {"intent"}
    /\ prompt.kind # "question" => prompt.field = ""
    /\ prompt.kind = "ready" => \A f \in Fields : SlotReady(slots[f])
    /\ prompt.field = "category" => ~SlotReady(slots["category"])
    /\ prompt.field = "subcategory" => slots["category"].status = "confirmed"
    /\ \A i \in DOMAIN prompt.choices : ChoiceOK(slots, prompt.field, prompt.choices[i])

LeadsOK(leads) ==
    /\ IsFiniteSet(leads)
    /\ \A l \in Pairs(leads) : /\ l[1] \in ToSet(Categories)
                               /\ l[2] \in ToSet(SubcategoriesOf[l[1]])

CollectorOK(s) ==
    /\ DOMAIN s = CollectorFields
    /\ SlotsOK(s.slots)
    /\ PromptOK(s.slots, s.prompt)
    /\ LeadsOK(s.leads)
    /\ s.prompt.field = "intent" => s.pending \in Texts

LEMMA FieldNames ==
    /\ Fields = {"amountEur", "propertyName", "date", "category", "subcategory",
                 "payer", "payee", "clientCharge", "description"}
    /\ SlotNames = {"amountEur", "propertyName", "date", "category", "subcategory",
                    "payer", "payee", "clientCharge", "description", "notes"}
    /\ DOMAIN AskOrder = 1..9
    /\ \A i \in 1..9 : AskOrder[i] \in Fields
    /\ \A f \in Fields : \E i \in 1..9 : AskOrder[i] = f
<1>1. DOMAIN AskOrder = 1..9
  BY DEF AskOrder
<1>2. Fields = {AskOrder[1], AskOrder[2], AskOrder[3], AskOrder[4], AskOrder[5],
                AskOrder[6], AskOrder[7], AskOrder[8], AskOrder[9]}
  BY <1>1 DEF Fields, ToSet
<1>3. /\ AskOrder[1] = "amountEur" /\ AskOrder[2] = "propertyName" /\ AskOrder[3] = "date"
      /\ AskOrder[4] = "category" /\ AskOrder[5] = "subcategory" /\ AskOrder[6] = "payer"
      /\ AskOrder[7] = "payee" /\ AskOrder[8] = "clientCharge" /\ AskOrder[9] = "description"
  BY DEF AskOrder
<1>4. Fields = {"amountEur", "propertyName", "date", "category", "subcategory",
                 "payer", "payee", "clientCharge", "description"}
  BY <1>2, <1>3
<1>5. SlotNames = {"amountEur", "propertyName", "date", "category", "subcategory",
                    "payer", "payee", "clientCharge", "description", "notes"}
  BY <1>4 DEF SlotNames
<1> QED
  BY <1>1, <1>3, <1>4, <1>5

(* The catalog: every name is one, categories have lists of subcategories.   *)
LEMMA Catalog ==
    /\ IsFiniteSet(Properties) /\ Null \notin Properties /\ None \notin Properties
    /\ Today \notin {Null, None}
    /\ \A names \in {Categories, Payers, Payees} : names \in Seq(ToSet(names))
    /\ \A names \in {Categories, Payers, Payees} : ToSet(names) \cap {Null, None} = {}
    /\ \A c \in ToSet(Categories) :
           /\ SubcategoriesOf[c] \in Seq(ToSet(SubcategoriesOf[c]))
           /\ ToSet(SubcategoriesOf[c]) \cap {Null, None} = {}
<1> DEFINE lists == {Categories, Payers, Payees}
                        \cup {SubcategoriesOf[c] : c \in ToSet(Categories)}
<1>1. /\ IsFiniteSet(Properties)
      /\ \A names \in lists : names \in Seq(ToSet(names))
      /\ {Null, None} \cap ({Today} \cup Properties \cup UNION {ToSet(names) : names \in lists})
             = {}
  BY CatalogAssumption
<1>2. \A names \in lists : ToSet(names) \cap {Null, None} = {}
  BY <1>1
<1>3. \A c \in ToSet(Categories) : SubcategoriesOf[c] \in lists
  OBVIOUS
<1>4. \A names \in {Categories, Payers, Payees} : names \in lists
  OBVIOUS
<1>5. Null \notin Properties /\ None \notin Properties /\ Today \notin {Null, None}
  BY <1>1
<1> HIDE DEF lists
<1> QED
  BY <1>1, <1>2, <1>3, <1>4, <1>5

(* The first three of a list are elements of it.                            *)
LEMMA FirstOfList ==
    ASSUME NEW S, NEW seq \in Seq(S)
    PROVE  /\ DOMAIN FirstThree(seq) \subseteq DOMAIN seq
           /\ \A i \in DOMAIN FirstThree(seq) : seq[i] \in ToSet(seq) /\ seq[i] \in S
<1>1. DOMAIN FirstThree(seq) = 1..(IF Len(seq) < 3 THEN Len(seq) ELSE 3)
  BY DEF FirstThree
<1>2. DOMAIN seq = 1..Len(seq) /\ Len(seq) \in Nat
  OBVIOUS
<1>3. DOMAIN FirstThree(seq) \subseteq DOMAIN seq
  BY <1>1, <1>2
<1> QED
  BY <1>3 DEF ToSet

(* A finite set in some order.                                              *)
LEMMA SetInOrder ==
    ASSUME NEW S, IsFiniteSet(S)
    PROVE  /\ Cardinality(S) \in Nat
           /\ SetToSeq(S) \in [1..Cardinality(S) -> S]
           /\ SetToSeq(S) \in Seq(S)
<1>1. Cardinality(S) \in Nat
  BY FS_CardinalityType
<1>2. \E f \in [1..Cardinality(S) -> S] : IsInjective(f)
  BY FS_NatBijection, FS_CountingElements DEF IsInjective, ExistsBijection, Bijection, Injection, IsInjective
<1>3. SetToSeq(S) \in [1..Cardinality(S) -> S]
  BY <1>2 DEF SetToSeq
<1> QED
  BY <1>1, <1>3

-----------------------------------------------------------------------------
(* Filling the slots.                                                      *)
LEMMA EmptySlotsOK ==
    SlotsOK(EmptySlots) /\ \A f \in SlotNames : ~SlotReady(EmptySlots[f])
BY FieldNames DEF EmptySlots, SlotsOK, SlotReady, UnknownSlot

LEMMA OverrideValues ==
    ASSUME NEW slots, NEW sub
    PROVE  /\ DOMAIN Override(slots, sub) = SlotNames
           /\ \A f \in SlotNames :
                  Override(slots, sub)[f] = IF f \in DOMAIN sub THEN sub[f] ELSE slots[f]
BY DEF Override

LEMMA FillOne ==
    ASSUME NEW slots, SlotsOK(slots), NEW f \in SlotNames \ {"category", "subcategory"},
           NEW v, v # None, v = Null => f \in Optional
    PROVE  SlotsOK(Override(slots, One(f, v)))
<1>1. DOMAIN One(f, v) = {f} /\ One(f, v)[f] = [status |-> "confirmed", value |-> v]
  BY DEF One, Confirmed
<1>2. /\ DOMAIN Override(slots, One(f, v)) = SlotNames
      /\ \A g \in SlotNames :
             Override(slots, One(f, v))[g] =
                 IF g = f THEN [status |-> "confirmed", value |-> v] ELSE slots[g]
  BY <1>1, OverrideValues
<1> QED
  BY <1>2, FieldNames DEF SlotsOK, SlotReady

LEMMA FillSubcategory ==
    ASSUME NEW slots, SlotsOK(slots), slots["category"].status = "confirmed",
           NEW v \in ToSet(SubcategoriesOf[slots["category"].value])
    PROVE  SlotsOK(Override(slots, One("subcategory", v)))
<1>1. DOMAIN One("subcategory", v) = {"subcategory"}
      /\ One("subcategory", v)["subcategory"] = [status |-> "confirmed", value |-> v]
  BY DEF One, Confirmed
<1>2. /\ DOMAIN Override(slots, One("subcategory", v)) = SlotNames
      /\ \A g \in SlotNames :
             Override(slots, One("subcategory", v))[g] =
                 IF g = "subcategory" THEN [status |-> "confirmed", value |-> v] ELSE slots[g]
  BY <1>1, OverrideValues
<1>3. slots["category"].value \in ToSet(Categories)
  BY DEF SlotsOK, SlotReady
<1>4. v # None /\ v # Null
  BY <1>3, Catalog
<1> QED
  BY <1>2, <1>3, <1>4, FieldNames DEF SlotsOK, SlotReady

LEMMA FillPair ==
    ASSUME NEW slots, SlotsOK(slots), NEW c \in ToSet(Categories),
           NEW v \in ToSet(SubcategoriesOf[c])
    PROVE  SlotsOK(Override(slots, Pair(c, v)))
<1>1. /\ DOMAIN Pair(c, v) = {"category", "subcategory"}
      /\ Pair(c, v)["category"] = [status |-> "confirmed", value |-> c]
      /\ Pair(c, v)["subcategory"] = [status |-> "confirmed", value |-> v]
  BY DEF Pair, ConfirmAll, Confirmed
<1>2. /\ DOMAIN Override(slots, Pair(c, v)) = SlotNames
      /\ \A g \in SlotNames :
             Override(slots, Pair(c, v))[g] =
                 IF g = "category" THEN [status |-> "confirmed", value |-> c]
                 ELSE IF g = "subcategory" THEN [status |-> "confirmed", value |-> v]
                 ELSE slots[g]
  BY <1>1, OverrideValues
<1>3. c # None /\ c # Null /\ v # None /\ v # Null
  BY Catalog
<1> QED
  BY <1>2, <1>3, FieldNames DEF SlotsOK, SlotReady

LEMMA FillCategory ==
    ASSUME NEW slots, SlotsOK(slots), NEW c \in ToSet(Categories)
    PROVE  SlotsOK(Override(slots, CategoryOnly(c)))
<1>1. /\ DOMAIN CategoryOnly(c) = {"category", "subcategory"}
      /\ CategoryOnly(c)["category"] = [status |-> "confirmed", value |-> c]
      /\ CategoryOnly(c)["subcategory"] = [status |-> "unknown", value |-> None]
  BY DEF CategoryOnly, Confirmed, UnknownSlot
<1>2. /\ DOMAIN Override(slots, CategoryOnly(c)) = SlotNames
      /\ \A g \in SlotNames :
             Override(slots, CategoryOnly(c))[g] =
                 IF g = "category" THEN [status |-> "confirmed", value |-> c]
                 ELSE IF g = "subcategory" THEN [status |-> "unknown", value |-> None]
                 ELSE slots[g]
  BY <1>1, OverrideValues
<1>3. c # None /\ c # Null
  BY Catalog
<1> QED
  BY <1>2, <1>3, FieldNames DEF SlotsOK, SlotReady

LEMMA FillNothing ==
    ASSUME NEW slots, SlotsOK(slots), NEW fields, "category" \in fields <=> "subcategory" \in fields
    PROVE  SlotsOK(Override(slots, Emptied(fields)))
<1>1. DOMAIN Emptied(fields) = fields /\ \A f \in fields : Emptied(fields)[f] = UnknownSlot
  BY DEF Emptied
<1>2. /\ DOMAIN Override(slots, Emptied(fields)) = SlotNames
      /\ \A g \in SlotNames :
             Override(slots, Emptied(fields))[g] =
                 IF g \in fields THEN UnknownSlot ELSE slots[g]
  BY <1>1, OverrideValues
<1> QED
  BY <1>2, FieldNames DEF SlotsOK, SlotReady, UnknownSlot

(* A text fills the slots, forced when it corrects or begins.               *)
LEMMA ApplyOK ==
    ASSUME NEW slots, SlotsOK(slots), NEW t \in Texts, NEW force \in BOOLEAN
    PROVE  SlotsOK(ApplyUtterance(slots, t, force))
<1> DEFINE next == ApplyUtterance(slots, t, force)
<1> SUFFICES SlotsOK(next)
  OBVIOUS
<1>1. /\ Reads(t.finds) /\ Reads(t.defaults)
      /\ ("category" \in DOMAIN t.finds) = ("subcategory" \in DOMAIN t.finds)
      /\ DOMAIN t.defaults \subseteq {"clientCharge", "description", "notes"}
  BY TextsAssumption
<1>2. /\ DOMAIN next = SlotNames
      /\ \A f \in SlotNames :
            next[f] = IF f \in DOMAIN t.finds
                      THEN (IF slots[f].status = "confirmed" /\ ~force THEN slots[f]
                            ELSE [status |-> "proposed", value |-> t.finds[f]])
                      ELSE IF f \in DOMAIN t.defaults /\ slots[f].status = "unknown"
                           THEN [status |-> "proposed", value |-> t.defaults[f]]
                      ELSE slots[f]
  BY DEF ApplyUtterance, SetSlot, Proposed, SlotReady
<1> HIDE DEF next
<1>3. \A f \in SlotNames :
          SlotReady(next[f]) =>
              next[f].value # None /\ (next[f].value = Null => f \in Optional)
  BY <1>1, <1>2 DEF SlotsOK, SlotReady, Reads
<1>4. "category" \in SlotNames /\ "subcategory" \in SlotNames
  BY FieldNames
<1>a. \A f \in SlotNames : next[f].status \in {"unknown", "proposed", "confirmed"}
  BY <1>2 DEF SlotsOK
<1>5. CASE "category" \in DOMAIN t.finds /\ (force \/ slots["category"].status # "confirmed")
  <2>0. force \/ slots["subcategory"].status # "confirmed"
    BY <1>4, <1>5 DEF SlotsOK, SlotReady
  <2>1. /\ next["category"] = [status |-> "proposed", value |-> t.finds["category"]]
        /\ next["subcategory"] = [status |-> "proposed", value |-> t.finds["subcategory"]]
    BY <1>1, <1>2, <1>4, <1>5, <2>0
  <2>2. /\ t.finds["category"] \in ToSet(Categories)
        /\ t.finds["subcategory"] \in ToSet(SubcategoriesOf[t.finds["category"]])
    BY <1>1, <1>5 DEF Reads
  <2> QED
    BY <1>2, <1>3, <1>a, <2>1, <2>2 DEF SlotsOK, SlotReady
<1>6. CASE "category" \in DOMAIN t.finds /\ ~(force \/ slots["category"].status # "confirmed")
  <2>1. /\ next["category"] = slots["category"]
        /\ next["subcategory"] = IF slots["subcategory"].status = "confirmed"
                                 THEN slots["subcategory"]
                                 ELSE [status |-> "proposed", value |-> t.finds["subcategory"]]
    BY <1>1, <1>2, <1>4, <1>6
  <2> QED
    BY <1>2, <1>3, <1>6, <1>a, <2>1 DEF SlotsOK, SlotReady
<1>7. CASE "category" \notin DOMAIN t.finds
  <2>1. next["category"] = slots["category"] /\ next["subcategory"] = slots["subcategory"]
    BY <1>1, <1>2, <1>4, <1>7
  <2> QED
    BY <1>2, <1>3, <1>a, <2>1 DEF SlotsOK, SlotReady
<1> QED
  BY <1>5, <1>6, <1>7

-----------------------------------------------------------------------------
(* What is asked next.                                                     *)
LEMMA QuestionOK ==
    ASSUME NEW slots, NEW field \in Fields \cup {"intent"}, NEW choices, NEW search, NEW step,
           field = "category" => ~SlotReady(slots["category"]),
           field = "subcategory" => slots["category"].status = "confirmed",
           \A i \in DOMAIN choices : ChoiceOK(slots, field, choices[i])
    PROVE  PromptOK(slots, Question(field, choices, search, step))
<1>1. Question(field, choices, search, step)
          = [kind |-> "question", field |-> field, choices |-> choices,
             search |-> search, step |-> step]
  BY DEF Question
<1> QED
  BY <1>1 DEF PromptOK, PromptFields

LEMMA PlainOK ==
    ASSUME NEW slots, NEW kind \in {"talk", "unsupported", "ready"},
           kind = "ready" => \A f \in Fields : SlotReady(slots[f])
    PROVE  PromptOK(slots, Plain(kind))
<1>1. /\ DOMAIN Plain(kind) = PromptFields /\ Plain(kind).kind = kind
      /\ Plain(kind).field = "" /\ Plain(kind).choices = <<>>
  BY DEF Plain, PromptFields
<1>2. \A i \in DOMAIN <<>> : FALSE
  OBVIOUS
<1> QED
  BY <1>1, <1>2 DEF PromptOK

LEMMA FillChoiceOK ==
    ASSUME NEW slots, NEW field, NEW label, NEW sub, SlotsOK(Override(slots, sub))
    PROVE  ChoiceOK(slots, field, Choice(label, sub))
BY DEF ChoiceOK, Choice

LEMMA ChargeChoiceOK ==
    ASSUME NEW slots, NEW field, NEW label
    PROVE  ChoiceOK(slots, field, Command(label, "charge:yes"))
BY DEF ChoiceOK, Command

LEMMA NamedOK ==
    ASSUME NEW slots, NEW field, NEW names, names \in Seq(ToSet(names)),
           \A v \in ToSet(names) : SlotsOK(Override(slots, One(field, v)))
    PROVE  \A i \in DOMAIN Named(field, names) : ChoiceOK(slots, field, Named(field, names)[i])
<1>1. DOMAIN Named(field, names) = DOMAIN FirstThree(names)
  BY DEF Named
<1>2. ASSUME NEW i \in DOMAIN Named(field, names)
      PROVE  ChoiceOK(slots, field, Named(field, names)[i])
  <2>1. names[i] \in ToSet(names)
    BY <1>1, FirstOfList
  <2>2. Named(field, names)[i] = Choice(names[i], One(field, names[i]))
    BY <1>1, <1>2 DEF Named
  <2> QED
    BY <2>1, <2>2, FillChoiceOK
<1> QED
  BY <1>2

LEMMA NoNameOK ==
    ASSUME NEW slots, SlotsOK(slots)
    PROVE  /\ ChoiceOK(slots, "propertyName", NoProperty)
           /\ ChoiceOK(slots, "clientCharge", NoCharge)
           /\ SlotsOK(Override(slots, One("propertyName", Null)))
           /\ SlotsOK(Override(slots, One("clientCharge", Null)))
<1>1. Null # None
  BY DraftAssumption
<1>2. \A f \in Optional : SlotsOK(Override(slots, One(f, Null)))
  BY <1>1, FillOne, FieldNames DEF Optional
<1>3. SlotsOK(Override(slots, One("propertyName", Null)))
  BY <1>2 DEF Optional
<1>4. SlotsOK(Override(slots, One("clientCharge", Null)))
  BY <1>2 DEF Optional
<1> QED
  BY <1>3, <1>4, FillChoiceOK DEF NoProperty, NoCharge

LEMMA PropertyQuestionOK ==
    ASSUME NEW slots, SlotsOK(slots), NEW near \in SUBSET Properties
    PROVE  PromptOK(slots, PropertyQuestion(near))
<1>1. "propertyName" \in Fields
  BY FieldNames
<1>2. CASE Cardinality(near) \in 1..3
  <2> DEFINE choices == [i \in 1..Cardinality(near) |->
                            LET p == SetToSeq(near)[i] IN Choice(p, One("propertyName", p))]
  <2>1. PropertyQuestion(near) = Question("propertyName", choices, Cardinality(near) > 1, "")
    BY <1>2 DEF PropertyQuestion
  <2>2. IsFiniteSet(near)
    BY Catalog, FS_Subset
  <2>3. ASSUME NEW i \in DOMAIN choices
        PROVE  ChoiceOK(slots, "propertyName", choices[i])
    <3> DEFINE p == SetToSeq(near)[i]
    <3>1. SetToSeq(near) \in [1..Cardinality(near) -> near]
      BY <2>2, SetInOrder
    <3>2. p \in near
      BY <3>1
    <3>3. p # None /\ p # Null
      BY <3>2, Catalog
    <3>4. choices[i] = Choice(p, One("propertyName", p))
      OBVIOUS
    <3> HIDE DEF p, choices
    <3>5. "propertyName" \in SlotNames \ {"category", "subcategory"}
      BY FieldNames
    <3>6. SlotsOK(Override(slots, One("propertyName", p)))
      BY <3>3, <3>5, FillOne
    <3> QED
      BY <3>4, <3>6, FillChoiceOK
  <2> HIDE DEF choices
  <2> QED
    BY <1>1, <2>1, <2>3, QuestionOK
<1>3. CASE Cardinality(near) \notin 1..3
  <2>1. PropertyQuestion(near) = Question("propertyName", <<NoProperty>>, TRUE, "")
    BY <1>3 DEF PropertyQuestion
  <2>2. \A i \in DOMAIN <<NoProperty>> : ChoiceOK(slots, "propertyName", <<NoProperty>>[i])
    BY NoNameOK
  <2> QED
    BY <1>1, <2>1, <2>2, QuestionOK
<1> QED
  BY <1>2, <1>3

LEMMA CategoryChoicesOK ==
    ASSUME NEW slots, SlotsOK(slots), NEW leads, LeadsOK(leads)
    PROVE  \A i \in DOMAIN CategoryChoices(Pairs(leads)) :
               ChoiceOK(slots, "category", CategoryChoices(Pairs(leads))[i])
<1> DEFINE pairs == Pairs(leads)
<1>1. CASE pairs # {}
  <2>1. IsFiniteSet(pairs)
    BY FS_Subset DEF LeadsOK, Pairs
  <2>2. \A i \in DOMAIN FirstThree(SetToSeq(pairs)) : SetToSeq(pairs)[i] \in pairs
    BY <2>1, SetInOrder, FirstOfList
  <2> HIDE DEF pairs
  <2>3. CategoryChoices(pairs) =
            [i \in DOMAIN FirstThree(SetToSeq(pairs)) |->
                LET p == SetToSeq(pairs)[i]
                IN  Choice(p[1] \o " / " \o p[2], Pair(p[1], p[2]))]
    BY <1>1 DEF CategoryChoices
  <2>4. ASSUME NEW i \in DOMAIN CategoryChoices(pairs)
        PROVE  ChoiceOK(slots, "category", CategoryChoices(pairs)[i])
    <3> DEFINE p == SetToSeq(pairs)[i]
    <3>1. p \in pairs
      BY <2>2, <2>3
    <3>2. CategoryChoices(pairs)[i] = Choice(p[1] \o " / " \o p[2], Pair(p[1], p[2]))
      BY <2>3, <2>4, Zenon
    <3> HIDE DEF p
    <3>3. SlotsOK(Override(slots, Pair(p[1], p[2])))
      BY <3>1, FillPair DEF LeadsOK, pairs
    <3> QED
      BY <3>2, <3>3, FillChoiceOK, Zenon
  <2> QED
    BY <2>4 DEF pairs
<1>2. CASE pairs = {}
  <2>1. CategoryChoices(pairs) =
            [i \in DOMAIN FirstThree(Categories) |->
                 Choice(Categories[i], CategoryOnly(Categories[i]))]
    BY <1>2 DEF CategoryChoices
  <2>2. \A i \in DOMAIN FirstThree(Categories) : Categories[i] \in ToSet(Categories)
    BY Catalog, FirstOfList
  <2>3. ASSUME NEW i \in DOMAIN CategoryChoices(pairs)
        PROVE  ChoiceOK(slots, "category", CategoryChoices(pairs)[i])
    <3>1. Categories[i] \in ToSet(Categories)
      BY <2>1, <2>2
    <3>2. CategoryChoices(pairs)[i] = Choice(Categories[i], CategoryOnly(Categories[i]))
      BY <2>1, <2>3
    <3> QED
      BY <3>1, <3>2, FillCategory, FillChoiceOK
  <2> QED
    BY <2>3
<1> QED
  BY <1>1, <1>2

LEMMA ChargeQuestionsOK ==
    ASSUME NEW slots, SlotsOK(slots)
    PROVE  /\ PromptOK(slots, ChargeDecision)
           /\ PromptOK(slots, ChargeAmount)
           /\ PromptOK(slots, Question("clientCharge", <<NoCharge>>, FALSE, ""))
<1>1. ChoiceOK(slots, "clientCharge", NoCharge)
      /\ ChoiceOK(slots, "clientCharge", Command("charge", "charge:yes"))
  BY NoNameOK, ChargeChoiceOK
<1>2. \A i \in DOMAIN <<NoCharge>> : ChoiceOK(slots, "clientCharge", <<NoCharge>>[i])
  BY <1>1
<1>3. \A i \in DOMAIN <<NoCharge, Command("charge", "charge:yes")>> :
          ChoiceOK(slots, "clientCharge", <<NoCharge, Command("charge", "charge:yes")>>[i])
  BY <1>1
<1>4. "clientCharge" \in Fields
  BY FieldNames
<1> QED
  BY <1>2, <1>3, <1>4, QuestionOK DEF ChargeDecision, ChargeAmount

(* The first field that has no value yet.                                  *)
LEMMA FirstUnready ==
    ASSUME NEW slots
    PROVE  /\ Unready(slots) = {} <=> \A f \in Fields : SlotReady(slots[f])
           /\ Unready(slots) # {} =>
                  \E f \in Fields :
                      /\ ~SlotReady(slots[f])
                      /\ f = "subcategory" => SlotReady(slots["category"])
                      /\ \A leads : NextPrompt(slots, leads) = QuestionFor(f, slots, leads)
<1> DEFINE missing == Unready(slots)
<1>1. \A i \in 1..9 : i \in missing <=> ~SlotReady(slots[AskOrder[i]])
  BY FieldNames DEF Unready
<1>2. missing \subseteq 1..9
  BY FieldNames DEF Unready
<1>3. missing = {} <=> \A f \in Fields : SlotReady(slots[f])
  <2>1. missing = {} <=> \A i \in 1..9 : i \notin missing
    BY <1>2
  <2> QED
    BY <1>1, <2>1, FieldNames
<1>4. CASE missing # {}
  <2> DEFINE first == CHOOSE i \in missing : \A j \in missing : i <= j
  <2>1. \E i \in missing : \A j \in missing : i <= j
    BY <1>2, <1>4
  <2>2. first \in missing /\ \A j \in missing : first <= j
    BY <2>1
  <2>3. \A leads : NextPrompt(slots, leads) = QuestionFor(AskOrder[first], slots, leads)
    BY <1>4 DEF NextPrompt
  <2> HIDE DEF first, missing
  <2>4. first \in 1..9 /\ AskOrder[first] \in Fields /\ ~SlotReady(slots[AskOrder[first]])
    BY <1>1, <1>2, <2>2, FieldNames
  <2>5. AskOrder[first] = "subcategory" => SlotReady(slots["category"])
    <3>1. AskOrder[4] = "category"
      BY DEF AskOrder
    <3>2. AskOrder[first] = "subcategory" => first = 5
      BY <2>4 DEF AskOrder
    <3>3. 4 \notin missing \/ first <= 4
      BY <2>2
    <3> QED
      BY <1>1, <3>1, <3>2, <3>3
  <2> QED
    BY <1>3, <2>3, <2>4, <2>5, <1>4 DEF missing
<1> QED
  BY <1>3, <1>4

LEMMA QuestionForOK ==
    ASSUME NEW slots, SlotsOK(slots), NEW leads, LeadsOK(leads), NEW f \in Fields,
           f = "category" => ~SlotReady(slots["category"]),
           f = "subcategory" => slots["category"].status = "confirmed"
    PROVE  /\ PromptOK(slots, QuestionFor(f, slots, leads))
           /\ QuestionFor(f, slots, leads).kind = "question"
           /\ QuestionFor(f, slots, leads).field = f
<1> DEFINE q == QuestionFor(f, slots, leads)
<1> SUFFICES PromptOK(slots, q) /\ q.kind = "question" /\ q.field = f
  OBVIOUS
<1>0. \A choices : /\ Question(f, choices, FALSE, "").kind = "question"
                  /\ Question(f, choices, FALSE, "").field = f
  BY DEF Question
<1>1. CASE f \in {"amountEur", "description"}
  <2>1. q = Question(f, <<>>, FALSE, "")
    BY <1>1 DEF QuestionFor, Ask
  <2>2. \A i \in DOMAIN <<>> : ChoiceOK(slots, f, <<>>[i])
    OBVIOUS
  <2> HIDE DEF q
  <2>3. PromptOK(slots, q)
    BY <2>1, <2>2, <1>1, QuestionOK
  <2> QED
    BY <1>0, <2>1, <2>3
<1>2. CASE f = "propertyName"
  <2>1. q = PropertyQuestion(NearProperties(leads))
    BY <1>2 DEF QuestionFor
  <2>2. NearProperties(leads) \in SUBSET Properties
    BY DEF NearProperties
  <2>3. \A near : PropertyQuestion(near).kind = "question"
                  /\ PropertyQuestion(near).field = "propertyName"
    BY DEF PropertyQuestion, Question
  <2> HIDE DEF q
  <2> QED
    BY <1>2, <2>1, <2>2, <2>3, PropertyQuestionOK
<1>3. ASSUME NEW names, names \in Seq(ToSet(names)), f \in {"date", "payer", "payee", "subcategory"},
             q = Ask(f, Named(f, names)),
             \A v \in ToSet(names) : SlotsOK(Override(slots, One(f, v)))
      PROVE  PromptOK(slots, q) /\ q.kind = "question" /\ q.field = f
  <2>1. q = Question(f, Named(f, names), FALSE, "")
    BY <1>3 DEF Ask
  <2> HIDE DEF q
  <2>2. \A i \in DOMAIN Named(f, names) : ChoiceOK(slots, f, Named(f, names)[i])
    BY <1>3, NamedOK
  <2>3. PromptOK(slots, q)
    BY <2>1, <2>2, <1>3, QuestionOK
  <2> QED
    BY <1>0, <2>1, <2>3
<1>4. CASE f = "date"
  <2>1. q = Ask(f, Named(f, <<Today>>))
    BY <1>4 DEF QuestionFor
  <2>2. <<Today>> \in Seq(ToSet(<<Today>>)) /\ ToSet(<<Today>>) = {Today}
    BY DEF ToSet
  <2>3. SlotsOK(Override(slots, One(f, Today)))
    BY <1>4, Catalog, FieldNames, FillOne
  <2> HIDE DEF q
  <2> QED
    BY <1>3, <1>4, <2>1, <2>2, <2>3
<1>5. CASE f = "category"
  <2>1. q = Question(f, CategoryChoices(Pairs(leads)), FALSE, "")
    BY <1>5 DEF QuestionFor, Ask
  <2> HIDE DEF q
  <2>2. PromptOK(slots, q)
    BY <2>1, <1>5, CategoryChoicesOK, QuestionOK
  <2> QED
    BY <1>0, <2>1, <2>2
<1>6. CASE f = "subcategory"
  <2> DEFINE names == SubcategoriesOf[slots.category.value]
  <2>1. q = Ask(f, Named(f, names))
    BY <1>6 DEF QuestionFor
  <2>2. slots["category"].value \in ToSet(Categories)
    BY <1>6 DEF SlotsOK, SlotReady
  <2>3. names \in Seq(ToSet(names))
    BY <2>2, Catalog
  <2>4. \A v \in ToSet(names) : SlotsOK(Override(slots, One(f, v)))
    BY <1>6, FillSubcategory
  <2> HIDE DEF q, names
  <2> QED
    BY <1>3, <1>6, <2>1, <2>3, <2>4
<1>7. CASE f = "payer"
  <2>1. q = Ask(f, Named(f, Payers))
    BY <1>7 DEF QuestionFor
  <2>2. Payers \in Seq(ToSet(Payers)) /\ ToSet(Payers) \cap {Null, None} = {}
    BY Catalog
  <2>3. \A v \in ToSet(Payers) : SlotsOK(Override(slots, One(f, v)))
    BY <1>7, <2>2, FieldNames, FillOne
  <2> HIDE DEF q
  <2> QED
    BY <1>3, <1>7, <2>1, <2>2, <2>3
<1>8. CASE f = "payee"
  <2>1. q = Ask(f, Named(f, Payees))
    BY <1>8 DEF QuestionFor
  <2>2. Payees \in Seq(ToSet(Payees)) /\ ToSet(Payees) \cap {Null, None} = {}
    BY Catalog
  <2>3. \A v \in ToSet(Payees) : SlotsOK(Override(slots, One(f, v)))
    BY <1>8, <2>2, FieldNames, FillOne
  <2> HIDE DEF q
  <2> QED
    BY <1>3, <1>8, <2>1, <2>2, <2>3
<1>9. CASE f = "clientCharge"
  <2>1. q = ChargeDecision
    BY <1>9 DEF QuestionFor
  <2>2. ChargeDecision.kind = "question" /\ ChargeDecision.field = "clientCharge"
    BY DEF ChargeDecision, Question
  <2> HIDE DEF q
  <2> QED
    BY <1>9, <2>1, <2>2, ChargeQuestionsOK
<1> HIDE DEF q
<1> QED
  BY <1>1, <1>2, <1>4, <1>5, <1>6, <1>7, <1>8, <1>9, FieldNames

LEMMA NextPromptOK ==
    ASSUME NEW slots, SlotsOK(slots), NEW leads, LeadsOK(leads)
    PROVE  /\ PromptOK(slots, NextPrompt(slots, leads))
           /\ NextPrompt(slots, leads).kind \in {"question", "ready"}
           /\ NextPrompt(slots, leads).field # "intent"
<1>1. CASE Unready(slots) = {}
  <2>1. NextPrompt(slots, leads) = Plain("ready")
    BY <1>1 DEF NextPrompt
  <2>2. \A f \in Fields : SlotReady(slots[f])
    BY <1>1, FirstUnready
  <2>3. Plain("ready").kind = "ready" /\ Plain("ready").field = ""
    BY DEF Plain
  <2> QED
    BY <2>1, <2>2, <2>3, PlainOK
<1>2. CASE Unready(slots) # {}
  <2>1. PICK f \in Fields :
            /\ ~SlotReady(slots[f])
            /\ f = "subcategory" => SlotReady(slots["category"])
            /\ NextPrompt(slots, leads) = QuestionFor(f, slots, leads)
    BY <1>2, FirstUnready
  <2>3. f = "subcategory" => slots["category"].status = "confirmed"
    BY <2>1, FieldNames DEF SlotsOK, SlotReady
  <2>2. f # "intent"
    BY FieldNames
  <2> QED
    BY <2>1, <2>2, <2>3, QuestionForOK
<1> QED
  BY <1>1, <1>2

-----------------------------------------------------------------------------
(* What each operation leaves of a collector, field by field.               *)
IsCollector(s, slots, prompt, key, leads, pending) ==
    /\ DOMAIN s = CollectorFields
    /\ s.slots = slots /\ s.prompt = prompt /\ s.key = key
    /\ s.leads = leads /\ s.pending = pending

LEMMA SimpleShapes ==
    ASSUME NEW s, DOMAIN s = CollectorFields
    PROVE  /\ IsCollector(Talk(s), s.slots, Plain("talk"), s.key, s.leads, None)
           /\ \A slots : IsCollector(Filled(s, slots), slots, NextPrompt(slots, s.leads),
                                     s.key, s.leads, s.pending)
           /\ \A prompt : IsCollector([s EXCEPT !.prompt = prompt], s.slots, prompt, s.key,
                                      s.leads, s.pending)
           /\ \A slots, leads :
                 IsCollector([s EXCEPT !.slots = slots, !.leads = leads], slots, s.prompt,
                             s.key, leads, s.pending)
           /\ \A slots, prompt :
                 IsCollector([s EXCEPT !.slots = slots, !.prompt = prompt], slots, prompt,
                             s.key, s.leads, s.pending)
           /\ \A slots, leads, prompt :
                 IsCollector([[s EXCEPT !.slots = slots, !.leads = leads]
                                 EXCEPT !.pending = None, !.prompt = prompt],
                             slots, prompt, s.key, leads, None)
           /\ \A pending, prompt :
                 IsCollector([s EXCEPT !.pending = pending, !.prompt = prompt], s.slots,
                             prompt, s.key, s.leads, pending)
           /\ \A property :
                 IsCollector(Suggest(s, property),
                             IF property \in Properties
                             THEN [s.slots EXCEPT !.propertyName = Confirmed(property)]
                             ELSE s.slots,
                             s.prompt, s.key, s.leads, s.pending)
<1>1. IsCollector(Talk(s), s.slots, Plain("talk"), s.key, s.leads, None)
  BY DEF IsCollector, CollectorFields, Talk
<1>2. \A slots : IsCollector(Filled(s, slots), slots, NextPrompt(slots, s.leads),
                             s.key, s.leads, s.pending)
  BY DEF IsCollector, CollectorFields, Filled
<1>3. \A prompt : IsCollector([s EXCEPT !.prompt = prompt], s.slots, prompt, s.key,
                                      s.leads, s.pending)
  BY DEF IsCollector, CollectorFields
<1>4. \A slots, leads :
                 IsCollector([s EXCEPT !.slots = slots, !.leads = leads], slots, s.prompt,
                             s.key, leads, s.pending)
  BY DEF IsCollector, CollectorFields
<1>5. \A slots, prompt :
                 IsCollector([s EXCEPT !.slots = slots, !.prompt = prompt], slots, prompt,
                             s.key, s.leads, s.pending)
  BY DEF IsCollector, CollectorFields
<1>6. \A slots, leads, prompt :
                 IsCollector([[s EXCEPT !.slots = slots, !.leads = leads]
                                 EXCEPT !.pending = None, !.prompt = prompt],
                             slots, prompt, s.key, leads, None)
  BY DEF IsCollector, CollectorFields
<1>7. \A pending, prompt :
                 IsCollector([s EXCEPT !.pending = pending, !.prompt = prompt], s.slots,
                             prompt, s.key, s.leads, pending)
  BY DEF IsCollector, CollectorFields
<1>8. \A property :
                 IsCollector(Suggest(s, property),
                             IF property \in Properties
                             THEN [s.slots EXCEPT !.propertyName = Confirmed(property)]
                             ELSE s.slots,
                             s.prompt, s.key, s.leads, s.pending)
  BY DEF IsCollector, CollectorFields, Suggest
<1> QED
  BY <1>1, <1>2, <1>3, <1>4, <1>5, <1>6, <1>7, <1>8

LEMMA NewShape ==
    ASSUME NEW key
    PROVE  IsCollector(NewCollector(key), EmptySlots, Plain("talk"), key, {}, None)
BY DEF IsCollector, NewCollector, CollectorFields

LEMMA BeginShape ==
    ASSUME NEW s, NEW t, DOMAIN s = CollectorFields
    PROVE  IsCollector(Begin(s, t), ApplyUtterance(s.slots, t, TRUE),
                       NextPrompt(ApplyUtterance(s.slots, t, TRUE), t.leads),
                       s.key, t.leads, None)
<1> DEFINE slots == ApplyUtterance(s.slots, t, TRUE)
           prompt == NextPrompt(slots, t.leads)
<1>1. Begin(s, t) = [s EXCEPT !.slots = slots, !.leads = t.leads, !.pending = None,
                              !.prompt = prompt]
  BY DEF Begin
<1> HIDE DEF slots, prompt
<1>2. IsCollector(Begin(s, t), slots, prompt, s.key, t.leads, None)
  BY <1>1 DEF IsCollector, CollectorFields
<1> QED
  BY <1>2 DEF slots, prompt

Cleared(s, t) == [f \in SlotNames |-> IF f \in t.clears THEN UnknownSlot ELSE s.slots[f]]
Corrected(s, t) == ApplyUtterance(Cleared(s, t), t, TRUE)

LEMMA CorrectShape ==
    ASSUME NEW s, NEW t, NEW fresh, DOMAIN s = CollectorFields
    PROVE  IsCollector(Correct(s, t, fresh), Corrected(s, t),
                       NextPrompt(Corrected(s, t), s.leads \cup t.leads),
                       IF Material(s.slots, Corrected(s, t)) THEN fresh ELSE s.key,
                       s.leads \cup t.leads, None)
<1> DEFINE slots == Corrected(s, t)
           leads == s.leads \cup t.leads
           prompt == NextPrompt(slots, leads)
           key == IF Material(s.slots, slots) THEN fresh ELSE s.key
<1>1. Correct(s, t, fresh) = [s EXCEPT !.slots = slots, !.leads = leads, !.pending = None,
                                       !.key = key, !.prompt = prompt]
  BY DEF Correct, Corrected, Cleared
<1> HIDE DEF slots, leads, prompt, key
<1>2. IsCollector(Correct(s, t, fresh), slots, prompt, key, leads, None)
  BY <1>1 DEF IsCollector, CollectorFields
<1> QED
  BY <1>2 DEF slots, leads, prompt, key

LEMMA CollectorFrom ==
    ASSUME NEW s, NEW slots, NEW prompt, NEW key, NEW leads, NEW pending,
           IsCollector(s, slots, prompt, key, leads, pending),
           SlotsOK(slots), PromptOK(slots, prompt), LeadsOK(leads),
           prompt.field = "intent" => pending \in Texts
    PROVE  CollectorOK(s)
BY DEF IsCollector, CollectorOK

LEMMA LeadsTogether ==
    ASSUME NEW leads, NEW others, LeadsOK(leads), LeadsOK(others)
    PROVE  LeadsOK(leads \cup others)
<1>1. IsFiniteSet(leads \cup others)
  BY FS_Union DEF LeadsOK
<1>2. Pairs(leads \cup others) = Pairs(leads) \cup Pairs(others)
  BY DEF Pairs
<1> QED
  BY <1>1, <1>2 DEF LeadsOK

LEMMA TextLeads ==
    ASSUME NEW t \in Texts
    PROVE  LeadsOK(t.leads)
BY TextsAssumption DEF LeadsOK

LEMMA NewOK ==
    ASSUME NEW key
    PROVE  CollectorOK(NewCollector(key)) /\ NewCollector(key).key = key
<1>1. IsCollector(NewCollector(key), EmptySlots, Plain("talk"), key, {}, None)
  BY NewShape
<1>2. PromptOK(EmptySlots, Plain("talk")) /\ Plain("talk").field = ""
  <2>1. Plain("talk").field = ""
    BY DEF Plain
  <2> QED
    BY <2>1, PlainOK
<1>3. LeadsOK({})
  BY FS_EmptySet DEF LeadsOK, Pairs
<1> QED
  BY <1>1, <1>2, <1>3, EmptySlotsOK, CollectorFrom DEF IsCollector

LEMMA TalkOK ==
    ASSUME NEW s, CollectorOK(s)
    PROVE  CollectorOK(Talk(s)) /\ Talk(s).key = s.key
<1>1. IsCollector(Talk(s), s.slots, Plain("talk"), s.key, s.leads, None)
  BY SimpleShapes DEF CollectorOK
<1>2. Plain("talk").field = ""
  BY DEF Plain
<1>3. PromptOK(s.slots, Plain("talk"))
  BY PlainOK
<1> QED
  BY <1>1, <1>2, <1>3, CollectorFrom DEF CollectorOK, IsCollector

(* A question of another kind over the same slots.                          *)
LEMMA ReaskOK ==
    ASSUME NEW s, CollectorOK(s), NEW prompt, PromptOK(s.slots, prompt),
           prompt.field = "intent" => s.pending \in Texts
    PROVE  /\ CollectorOK([s EXCEPT !.prompt = prompt])
           /\ [s EXCEPT !.prompt = prompt].key = s.key
<1>1. IsCollector([s EXCEPT !.prompt = prompt], s.slots, prompt, s.key, s.leads, s.pending)
  BY SimpleShapes DEF CollectorOK
<1> QED
  BY <1>1, CollectorFrom DEF CollectorOK, IsCollector

LEMMA FilledOK ==
    ASSUME NEW s, CollectorOK(s), NEW slots, SlotsOK(slots)
    PROVE  CollectorOK(Filled(s, slots)) /\ Filled(s, slots).key = s.key
<1>1. IsCollector(Filled(s, slots), slots, NextPrompt(slots, s.leads), s.key, s.leads,
                  s.pending)
  BY SimpleShapes DEF CollectorOK
<1>2. LeadsOK(s.leads)
  BY DEF CollectorOK
<1> QED
  BY <1>1, <1>2, NextPromptOK, CollectorFrom DEF IsCollector

LEMMA BeginOK ==
    ASSUME NEW s, CollectorOK(s), NEW t \in Texts
    PROVE  CollectorOK(Begin(s, t)) /\ Begin(s, t).key = s.key
<1> DEFINE slots == ApplyUtterance(s.slots, t, TRUE)
<1>1. IsCollector(Begin(s, t), slots, NextPrompt(slots, t.leads), s.key, t.leads, None)
  BY BeginShape DEF CollectorOK
<1>2. SlotsOK(slots)
  BY ApplyOK DEF CollectorOK
<1> HIDE DEF slots
<1>3. LeadsOK(t.leads)
  BY TextLeads
<1> QED
  BY <1>1, <1>2, <1>3, NextPromptOK, CollectorFrom DEF IsCollector

LEMMA StartOverOK ==
    ASSUME NEW t \in Texts, NEW fresh
    PROVE  CollectorOK(StartOver(t, fresh)) /\ StartOver(t, fresh).key = fresh
BY NewOK, BeginOK DEF StartOver

LEMMA CorrectOK ==
    ASSUME NEW s, CollectorOK(s), NEW t \in Texts, NEW fresh
    PROVE  CollectorOK(Correct(s, t, fresh)) /\ Correct(s, t, fresh).key \in {s.key, fresh}
<1> DEFINE slots == Corrected(s, t)
           leads == s.leads \cup t.leads
<1>1. IsCollector(Correct(s, t, fresh), slots, NextPrompt(slots, leads),
                  IF Material(s.slots, slots) THEN fresh ELSE s.key, leads, None)
  BY CorrectShape DEF CollectorOK
<1>2. SlotsOK(Cleared(s, t))
  <2>1. ("category" \in t.clears) = ("subcategory" \in t.clears)
    BY TextsAssumption
  <2> QED
    BY <2>1, FieldNames DEF CollectorOK, SlotsOK, Cleared, SlotReady, UnknownSlot
<1>3. SlotsOK(slots)
  BY <1>2, ApplyOK DEF Corrected
<1>4. LeadsOK(leads)
  BY TextLeads, LeadsTogether DEF CollectorOK
<1> HIDE DEF slots, leads
<1>5. PromptOK(slots, NextPrompt(slots, leads)) /\ NextPrompt(slots, leads).field # "intent"
  BY <1>3, <1>4, NextPromptOK
<1>6. CollectorOK(Correct(s, t, fresh))
  BY <1>1, <1>3, <1>4, <1>5, CollectorFrom
<1> QED
  BY <1>1, <1>6 DEF IsCollector

LEMMA ChangeMenuOK ==
    ASSUME NEW s, CollectorOK(s)
    PROVE  CollectorOK(ChangeMenu(s)) /\ ChangeMenu(s).key = s.key
<1> DEFINE p == Choice("the property", Emptied({"propertyName"}))
           a == Choice("the amount", Emptied({"amountEur"}))
           c == Choice("the category", Emptied({"category", "subcategory"}))
           prompt == Question("description", <<p, a, c>>, FALSE, "")
<1>1. ChangeMenu(s) = [s EXCEPT !.prompt = prompt]
  BY DEF ChangeMenu, Ask
<1>2. SlotsOK(s.slots)
  BY DEF CollectorOK
<1>3. /\ SlotsOK(Override(s.slots, Emptied({"propertyName"})))
      /\ SlotsOK(Override(s.slots, Emptied({"amountEur"})))
      /\ SlotsOK(Override(s.slots, Emptied({"category", "subcategory"})))
  BY <1>2, FillNothing
<1>4. /\ ChoiceOK(s.slots, "description", p) /\ ChoiceOK(s.slots, "description", a)
      /\ ChoiceOK(s.slots, "description", c)
  BY <1>3, FillChoiceOK
<1>5. prompt.field = "description"
  BY DEF Question
<1> HIDE DEF p, a, c
<1>6. \A i \in DOMAIN <<p, a, c>> : ChoiceOK(s.slots, "description", <<p, a, c>>[i])
  BY <1>4
<1>7. PromptOK(s.slots, prompt)
  BY <1>6, FieldNames, QuestionOK
<1> HIDE DEF prompt
<1> QED
  BY <1>1, <1>5, <1>7, ReaskOK

LEMMA IntentQuestionOK ==
    ASSUME NEW slots
    PROVE  PromptOK(slots, IntentQuestion) /\ IntentQuestion.field = "intent"
<1> DEFINE n == Command("new transaction", "intent:new")
           x == Command("a correction", "intent:fix")
           c == Command("cancel", "intent:cancel")
<1>1. IntentQuestion = Question("intent", <<n, x, c>>, FALSE, "")
  BY DEF IntentQuestion, Ask
<1>2. /\ ChoiceOK(slots, "intent", n) /\ ChoiceOK(slots, "intent", x)
      /\ ChoiceOK(slots, "intent", c)
  BY DEF ChoiceOK, Command
<1>3. IntentQuestion.field = "intent"
  BY <1>1 DEF Question
<1> HIDE DEF n, x, c
<1>4. \A i \in DOMAIN <<n, x, c>> : ChoiceOK(slots, "intent", <<n, x, c>>[i])
  BY <1>2
<1> QED
  BY <1>1, <1>3, <1>4, QuestionOK

LEMMA ChooseOK ==
    ASSUME NEW s, CollectorOK(s), NEW i \in DOMAIN s.prompt.choices, NEW fresh
    PROVE  LET r == Choose(s, s.prompt.choices[i], fresh)
           IN  CollectorOK(r) /\ r.key \in {s.key, fresh}
<1> DEFINE c == s.prompt.choices[i]
           r == Choose(s, c, fresh)
<1> SUFFICES CollectorOK(r) /\ r.key \in {s.key, fresh}
  OBVIOUS
<1>1. ChoiceOK(s.slots, s.prompt.field, c)
  BY DEF CollectorOK, PromptOK
<1> HIDE DEF c
<1>2. CASE c.then = "fill"
  <2>1. r = Filled(s, Override(s.slots, c.sub))
    BY <1>2 DEF Choose
  <2>2. SlotsOK(Override(s.slots, c.sub))
    BY <1>1, <1>2 DEF ChoiceOK
  <2> HIDE DEF r
  <2> QED
    BY <2>1, <2>2, FilledOK
<1>3. CASE c.then = "charge:yes"
  <2>1. r = [s EXCEPT !.prompt = ChargeAmount]
    BY <1>3 DEF Choose
  <2>2. ChargeAmount.field = "clientCharge"
    BY DEF ChargeAmount, Question
  <2>3. PromptOK(s.slots, ChargeAmount)
    BY ChargeQuestionsOK DEF CollectorOK
  <2> HIDE DEF r
  <2> QED
    BY <2>1, <2>2, <2>3, ReaskOK
<1>4. CASE s.prompt.field = "intent" /\ c.then \in {"intent:new", "intent:fix", "intent:cancel"}
  <2>1. s.pending \in Texts
    BY <1>4 DEF CollectorOK
  <2>2. CASE c.then = "intent:new"
    <3>1. r = StartOver(s.pending, fresh)
      BY <2>2 DEF Choose
    <3> HIDE DEF r
    <3> QED
      BY <2>1, <3>1, StartOverOK
  <2>3. CASE c.then = "intent:fix"
    <3>1. r = Correct(s, s.pending, fresh)
      BY <2>3 DEF Choose
    <3> HIDE DEF r
    <3> QED
      BY <2>1, <3>1, CorrectOK
  <2>4. CASE c.then = "intent:cancel"
    <3>1. r = NewCollector(fresh)
      BY <2>4 DEF Choose
    <3> HIDE DEF r
    <3> QED
      BY <3>1, NewOK
  <2> QED
    BY <1>4, <2>2, <2>3, <2>4
<1> QED
  BY <1>1, <1>2, <1>3, <1>4 DEF ChoiceOK

LEMMA UnknownIs ==
    ASSUME NEW s
    PROVE  /\ s.prompt.field = "propertyName" =>
                  ChooseUnknown(s) = Filled(s, Override(s.slots, One("propertyName", Null)))
           /\ s.prompt.field = "clientCharge" =>
                  ChooseUnknown(s)
                      = [s EXCEPT !.prompt = Question("clientCharge", <<NoCharge>>, FALSE, "")]
           /\ s.prompt.field \notin {"propertyName", "clientCharge"} => ChooseUnknown(s) = s
<1>1. s.prompt.field = "propertyName" =>
          ChooseUnknown(s) = Filled(s, Override(s.slots, One("propertyName", Null)))
  BY Zenon DEF ChooseUnknown
<1>2. s.prompt.field = "clientCharge" =>
          ChooseUnknown(s)
              = [s EXCEPT !.prompt = Question("clientCharge", <<NoCharge>>, FALSE, "")]
  BY Zenon DEF ChooseUnknown
<1>3. s.prompt.field \notin {"propertyName", "clientCharge"} => ChooseUnknown(s) = s
  BY Zenon DEF ChooseUnknown
<1> QED
  BY <1>1, <1>2, <1>3

LEMMA ChooseUnknownOK ==
    ASSUME NEW s, CollectorOK(s)
    PROVE  CollectorOK(ChooseUnknown(s)) /\ ChooseUnknown(s).key = s.key
<1>1. SlotsOK(s.slots)
  BY DEF CollectorOK
<1>2. CASE s.prompt.field = "propertyName"
  <2>1. ChooseUnknown(s) = Filled(s, Override(s.slots, One("propertyName", Null)))
    BY <1>2, UnknownIs
  <2>2. SlotsOK(Override(s.slots, One("propertyName", Null)))
    BY <1>1, NoNameOK
  <2> QED
    BY <2>1, <2>2, FilledOK
<1>3. CASE s.prompt.field = "clientCharge"
  <2>1. Question("clientCharge", <<NoCharge>>, FALSE, "").field = "clientCharge"
    BY DEF Question
  <2> QED
    <3> DEFINE prompt == Question("clientCharge", <<NoCharge>>, FALSE, "")
    <3>1. ChooseUnknown(s) = [s EXCEPT !.prompt = prompt]
      BY <1>3, UnknownIs
    <3>2. PromptOK(s.slots, prompt) /\ prompt.field # "intent"
      BY <1>1, <2>1, ChargeQuestionsOK
    <3> HIDE DEF prompt
    <3> QED
      BY <3>1, <3>2, ReaskOK
<1> QED
  BY <1>2, <1>3, UnknownIs

LEMMA OtherShape ==
    ASSUME NEW s, CollectorOK(s)
    PROVE  \E prompt :
               /\ ChooseOther(s) = [s EXCEPT !.prompt = prompt]
               /\ DOMAIN prompt = PromptFields
               /\ prompt.kind = s.prompt.kind /\ prompt.field = s.prompt.field
               /\ prompt.choices = <<>> /\ prompt.step = s.prompt.step
               /\ prompt.search = (s.prompt.field = "propertyName")
<1> DEFINE prompt == [s.prompt EXCEPT !.choices = <<>>,
                                      !.search = (s.prompt.field = "propertyName")]
<1>1. DOMAIN s = CollectorFields /\ DOMAIN s.prompt = PromptFields
  BY DEF CollectorOK, PromptOK
<1>2. ChooseOther(s) = [s EXCEPT !.prompt = prompt]
  BY <1>1 DEF ChooseOther, CollectorFields, PromptFields
<1>3. /\ DOMAIN prompt = PromptFields
      /\ prompt.kind = s.prompt.kind /\ prompt.field = s.prompt.field
      /\ prompt.choices = <<>> /\ prompt.step = s.prompt.step
      /\ prompt.search = (s.prompt.field = "propertyName")
  BY <1>1 DEF PromptFields
<1> QED
  BY <1>2, <1>3

LEMMA ChooseOtherOK ==
    ASSUME NEW s, CollectorOK(s)
    PROVE  CollectorOK(ChooseOther(s)) /\ ChooseOther(s).key = s.key
<1>1. PICK prompt :
          /\ ChooseOther(s) = [s EXCEPT !.prompt = prompt]
          /\ DOMAIN prompt = PromptFields
          /\ prompt.kind = s.prompt.kind /\ prompt.field = s.prompt.field
          /\ prompt.choices = <<>>
  BY OtherShape
<1>2. \A i \in DOMAIN prompt.choices : ChoiceOK(s.slots, prompt.field, prompt.choices[i])
  BY <1>1
<1>3. PromptOK(s.slots, prompt)
  BY <1>1, <1>2 DEF PromptOK, CollectorOK
<1>4. prompt.field = "intent" => s.pending \in Texts
  BY <1>1 DEF CollectorOK
<1> QED
  BY <1>1, <1>3, <1>4, ReaskOK

LEMMA AnswerChargeOK ==
    ASSUME NEW s, CollectorOK(s), NEW t \in Texts
    PROVE  CollectorOK(AnswerCharge(s, t)) /\ AnswerCharge(s, t).key = s.key
<1> DEFINE r == AnswerCharge(s, t)
<1>1. SlotsOK(s.slots)
  BY DEF CollectorOK
<1>2. \/ r = Filled(s, Override(s.slots, One("clientCharge", Null)))
      \/ /\ "clientCharge" \in DOMAIN t.types
         /\ r = Filled(s, Override(s.slots, One("clientCharge", t.types["clientCharge"])))
      \/ r = [s EXCEPT !.prompt = ChargeAmount]
      \/ r = [s EXCEPT !.prompt = ChargeDecision]
  BY DEF AnswerCharge
<1> HIDE DEF r
<1>3. CASE r = Filled(s, Override(s.slots, One("clientCharge", Null)))
  BY <1>1, <1>3, NoNameOK, FilledOK DEF r
<1>4. CASE /\ "clientCharge" \in DOMAIN t.types
           /\ r = Filled(s, Override(s.slots, One("clientCharge", t.types["clientCharge"])))
  <2>1. t.types["clientCharge"] # None
    BY <1>4, TextsAssumption DEF Reads
  <2>2. SlotsOK(Override(s.slots, One("clientCharge", t.types["clientCharge"])))
    BY <1>1, <2>1, FillOne, FieldNames DEF Optional
  <2> QED
    BY <1>4, <2>2, FilledOK DEF r
<1>5. CASE r = [s EXCEPT !.prompt = ChargeAmount] \/ r = [s EXCEPT !.prompt = ChargeDecision]
  <2>1. ChargeAmount.field = "clientCharge" /\ ChargeDecision.field = "clientCharge"
    BY DEF ChargeAmount, ChargeDecision, Question
  <2>2. PromptOK(s.slots, ChargeAmount) /\ PromptOK(s.slots, ChargeDecision)
    BY <1>1, ChargeQuestionsOK
  <2>3. /\ CollectorOK([s EXCEPT !.prompt = ChargeAmount])
        /\ [s EXCEPT !.prompt = ChargeAmount].key = s.key
    BY <2>1, <2>2, ReaskOK
  <2>4. /\ CollectorOK([s EXCEPT !.prompt = ChargeDecision])
        /\ [s EXCEPT !.prompt = ChargeDecision].key = s.key
    BY <2>1, <2>2, ReaskOK
  <2> QED
    BY <1>5, <2>3, <2>4 DEF r
<1> QED
  BY <1>2, <1>3, <1>4, <1>5

(* A typed answer confirms its field, and with a category its subcategory.   *)
LEMMA TypedOK ==
    ASSUME NEW s, SlotsOK(s.slots), NEW t \in Texts, NEW field \in Fields \ {"clientCharge"},
           field = "subcategory" => s.slots["category"].status = "confirmed",
           DOMAIN TypedValue(s, field, t) # {}
    PROVE  /\ SlotsOK(Override(s.slots, TypedValue(s, field, t)))
           /\ \A f \in DOMAIN TypedValue(s, field, t) :
                  f = field \/ (field = "category" /\ f = "subcategory")
<1> DEFINE v == TypedValue(s, field, t)
<1> SUFFICES /\ SlotsOK(Override(s.slots, v))
             /\ \A f \in DOMAIN v : f = field \/ (field = "category" /\ f = "subcategory")
  OBVIOUS
<1>0. DOMAIN <<>> = {} /\ DOMAIN v # {}
  OBVIOUS
<1>1. \A f, x : DOMAIN One(f, x) = {f}
  BY DEF One
<1>2. CASE field \in {"payer", "payee", "description"}
  <2>1. v = One(field, t.word)
    BY <1>2 DEF TypedValue
  <2>2. t.word \notin {Null, None}
    BY TextsAssumption
  <2> HIDE DEF v
  <2>3. SlotsOK(Override(s.slots, One(field, t.word)))
    BY <1>2, <2>2, FieldNames, FillOne
  <2>4. DOMAIN v = {field}
    BY <1>1, <2>1
  <2> QED
    BY <2>1, <2>3, <2>4
<1>3. CASE field = "subcategory"
  <2>1. v = TypedSub(s, t)
    BY <1>3 DEF TypedValue
  <2> HIDE DEF v
  <2>2. /\ t.types["subcategory"] \in ToSet(SubcategoriesOf[s.slots["category"].value])
        /\ v = One("subcategory", t.types["subcategory"])
    BY <1>0, <2>1 DEF TypedSub
  <2>3. SlotsOK(Override(s.slots, v))
    BY <1>3, <2>2, FillSubcategory
  <2> QED
    BY <1>1, <1>3, <2>2, <2>3
<1>4. CASE field = "category"
  <2>1. v = IF "category" \notin DOMAIN t.types THEN <<>>
            ELSE IF "subcategory" \in DOMAIN t.types
            THEN Pair(t.types["category"], t.types["subcategory"])
            ELSE CategoryOnly(t.types["category"])
    BY <1>4 DEF TypedValue
  <2> HIDE DEF v
  <2>2. "category" \in DOMAIN t.types
    BY <1>0, <2>1
  <2>3. /\ t.types["category"] \in ToSet(Categories)
        /\ "subcategory" \in DOMAIN t.types =>
               t.types["subcategory"] \in ToSet(SubcategoriesOf[t.types["category"]])
    BY <2>2, TextsAssumption DEF Reads
  <2>4. \A c, x : DOMAIN Pair(c, x) = {"category", "subcategory"}
                  /\ DOMAIN CategoryOnly(c) = {"category", "subcategory"}
    BY DEF Pair, CategoryOnly, ConfirmAll
  <2>5. SlotsOK(Override(s.slots, v))
    BY <2>1, <2>2, <2>3, FillPair, FillCategory
  <2>6. DOMAIN v = {"category", "subcategory"}
    BY <2>1, <2>2, <2>4
  <2> QED
    BY <1>4, <2>5, <2>6
<1>5. CASE field \in {"amountEur", "date", "propertyName"}
  <2>1. v = IF field \in DOMAIN t.types THEN One(field, t.types[field]) ELSE <<>>
    BY <1>5 DEF TypedValue
  <2> HIDE DEF v
  <2>2. field \in DOMAIN t.types /\ v = One(field, t.types[field])
    BY <1>0, <2>1
  <2>3. t.types[field] # None /\ (t.types[field] = Null => field \in Optional)
    BY <2>2, TextsAssumption DEF Reads
  <2>4. SlotsOK(Override(s.slots, v))
    BY <1>5, <2>2, <2>3, FieldNames, FillOne
  <2>5. DOMAIN v = {field}
    BY <1>1, <2>2
  <2> QED
    BY <2>4, <2>5
<1> QED
  BY <1>2, <1>3, <1>4, <1>5, FieldNames

(* The fields whose question is asked again when the answer is not one.     *)
LEMMA AskAgainIs ==
    ASSUME NEW s, NEW field, NEW t
    PROVE  /\ field = "propertyName" =>
                  AskAgain(s, field, t)
                      = [s EXCEPT !.prompt = PropertyQuestion(NearProperties(t.leads))]
           /\ field = "category" =>
                  AskAgain(s, field, t)
                      = [s EXCEPT !.prompt = Ask(field, CategoryChoices(Pairs(t.leads)))]
           /\ field = "subcategory" =>
                  AskAgain(s, field, t)
                      = [s EXCEPT !.prompt = QuestionFor(field, s.slots, {})]
           /\ field \notin {"propertyName", "category", "subcategory"} =>
                  AskAgain(s, field, t) = s
<1>1. field = "propertyName" =>
          AskAgain(s, field, t)
              = [s EXCEPT !.prompt = PropertyQuestion(NearProperties(t.leads))]
  BY Zenon DEF AskAgain
<1>2. field = "category" =>
          AskAgain(s, field, t)
              = [s EXCEPT !.prompt = Ask(field, CategoryChoices(Pairs(t.leads)))]
  BY Zenon DEF AskAgain
<1>3. field = "subcategory" =>
          AskAgain(s, field, t) = [s EXCEPT !.prompt = QuestionFor(field, s.slots, {})]
  BY Zenon DEF AskAgain
<1>4. field \notin {"propertyName", "category", "subcategory"} => AskAgain(s, field, t) = s
  BY Zenon DEF AskAgain
<1> QED
  BY <1>1, <1>2, <1>3, <1>4

(* The answer to a question whose value is typed.                           *)
LEMMA AnswerTypedOK ==
    ASSUME NEW s, DOMAIN s = CollectorFields, SlotsOK(s.slots), LeadsOK(s.leads),
           NEW t \in Texts, NEW field \in Fields \ {"clientCharge"},
           field = "subcategory" => s.slots["category"].status = "confirmed",
           field = "category" => ~SlotReady(s.slots["category"]),
           field \in {"amountEur", "date"} => field \in DOMAIN t.types
    PROVE  CollectorOK(AnswerTyped(s, field, t)) /\ AnswerTyped(s, field, t).key = s.key
<1> DEFINE v == TypedValue(s, field, t)
           r == AnswerTyped(s, field, t)
<1> SUFFICES CollectorOK(r) /\ r.key = s.key
  OBVIOUS
<1>1. LeadsOK(t.leads) /\ LeadsOK(s.leads \cup t.leads)
  BY TextLeads, LeadsTogether
<1>2. CASE DOMAIN v # {}
  <2> DEFINE slots == Override(s.slots, v)
             leads == s.leads \cup t.leads
  <2>1. r = [s EXCEPT !.slots = slots, !.prompt = NextPrompt(slots, leads)]
    BY <1>2 DEF AnswerTyped
  <2>2. SlotsOK(slots)
    BY <1>2, TypedOK
  <2> HIDE DEF slots, leads, r, v
  <2>3. IsCollector(r, slots, NextPrompt(slots, leads), s.key, s.leads, s.pending)
    BY <2>1, SimpleShapes
  <2>4. PromptOK(slots, NextPrompt(slots, leads)) /\ NextPrompt(slots, leads).field # "intent"
    BY <1>1, <2>2, NextPromptOK DEF leads
  <2> QED
    BY <2>2, <2>3, <2>4, CollectorFrom DEF IsCollector
<1>3. CASE DOMAIN v = {}
  <2>0. r = AskAgain(s, field, t)
    BY <1>3 DEF AnswerTyped
  <2>1. field \in {"propertyName", "category", "subcategory"}
    <3>1. \A x : DOMAIN One(field, x) # {}
      BY DEF One
    <3>2. field \in {"payer", "payee", "description"} => v = One(field, t.word)
      BY DEF TypedValue
    <3>3. field \in {"amountEur", "date"} => v = One(field, t.types[field])
      BY DEF TypedValue
    <3> HIDE DEF v
    <3> QED
      BY <1>3, <3>1, <3>2, <3>3, FieldNames
  <2> HIDE DEF r, v
  <2>2. ASSUME NEW prompt, PromptOK(s.slots, prompt), prompt.field # "intent",
               r = [s EXCEPT !.prompt = prompt]
        PROVE  CollectorOK(r) /\ r.key = s.key
    <3>1. IsCollector(r, s.slots, prompt, s.key, s.leads, s.pending)
      BY <2>2, SimpleShapes
    <3> QED
      BY <2>2, <3>1, CollectorFrom DEF IsCollector
  <2>3. CASE field = "propertyName"
    <3>1. NearProperties(t.leads) \in SUBSET Properties
      BY DEF NearProperties
    <3>2. PromptOK(s.slots, PropertyQuestion(NearProperties(t.leads)))
      BY <3>1, PropertyQuestionOK
    <3>3. PropertyQuestion(NearProperties(t.leads)).field # "intent"
      BY DEF PropertyQuestion, Question
    <3> QED
      BY <2>0, <2>2, <2>3, <3>2, <3>3, AskAgainIs
  <2>4. CASE field = "category"
    <3> DEFINE prompt == Question(field, CategoryChoices(Pairs(t.leads)), FALSE, "")
    <3>1. prompt.field # "intent"
      BY <2>4 DEF Question
    <3>2. PromptOK(s.slots, prompt)
      BY <1>1, <2>4, CategoryChoicesOK, QuestionOK
    <3>3. r = [s EXCEPT !.prompt = Ask(field, CategoryChoices(Pairs(t.leads)))]
      BY <2>0, <2>4, AskAgainIs
    <3>4. Ask(field, CategoryChoices(Pairs(t.leads))) = prompt
      BY DEF Ask
    <3> HIDE DEF prompt
    <3> QED
      BY <2>2, <3>1, <3>2, <3>3, <3>4
  <2>5. CASE field = "subcategory"
    <3> DEFINE prompt == QuestionFor(field, s.slots, {})
    <3>1. r = [s EXCEPT !.prompt = prompt]
      BY <2>0, <2>5, AskAgainIs
    <3>2. LeadsOK({})
      BY FS_EmptySet DEF LeadsOK, Pairs
    <3>3. PromptOK(s.slots, prompt) /\ prompt.field = field
      BY <2>5, <3>2, QuestionForOK
    <3>4. prompt.field # "intent"
      BY <2>5, <3>3
    <3> HIDE DEF prompt
    <3> QED
      BY <2>2, <3>1, <3>3, <3>4
  <2> QED
    BY <2>1, <2>3, <2>4, <2>5
<1> QED
  BY <1>2, <1>3

-----------------------------------------------------------------------------
(* A text that answers nothing, by what it is taken for.                    *)
Heard(s, t) == [s EXCEPT !.slots = ApplyUtterance(s.slots, t, FALSE),
                         !.leads = s.leads \cup t.leads]

Typed(s, t) ==
    /\ s.prompt.kind = "question"
    /\ s.prompt.field # "intent"
    /\ s.prompt.choices = <<>> \/ s.prompt.search
    /\ s.prompt.field \in {"amountEur", "date"} => s.prompt.field \in DOMAIN t.types

AskIntent(s, t) == [s EXCEPT !.pending = t, !.prompt = IntentQuestion]

GoOn(s, t) ==
    [Heard(s, t) EXCEPT !.pending = None,
                        !.prompt = NextPrompt(ApplyUtterance(s.slots, t, FALSE),
                                              s.leads \cup t.leads)]

LEMMA TakeTurnIs ==
    ASSUME NEW s, NEW t, NEW fresh
    PROVE  /\ t.kind = "exit" => TakeTurn(s, t, fresh) = NewCollector(fresh)
           /\ Strong(t) /\ HasProposal(s.slots) => TakeTurn(s, t, fresh) = StartOver(t, fresh)
           /\ t.kind = "correction" => TakeTurn(s, t, fresh) = Correct(s, t, fresh)
           /\ Unclear(s, t) => TakeTurn(s, t, fresh) = AskIntent(s, t)
           /\ /\ t.kind \notin {"exit", "correction"}
              /\ ~(Strong(t) /\ HasProposal(s.slots))
              /\ ~Unclear(s, t)
              => TakeTurn(s, t, fresh)
                     = IF Typed(s, t) THEN AnswerTyped(Heard(s, t), s.prompt.field, t)
                       ELSE GoOn(s, t)
<1>0. /\ Strong(t) => t.kind = "report"
      /\ Unclear(s, t) => t.kind \notin {"exit", "correction"} /\ ~Strong(t)
  BY DEF Strong, Unclear
<1>1. t.kind = "exit" => TakeTurn(s, t, fresh) = NewCollector(fresh)
  BY <1>0, Zenon DEF TakeTurn
<1>2. Strong(t) /\ HasProposal(s.slots) => TakeTurn(s, t, fresh) = StartOver(t, fresh)
  BY <1>0, Zenon DEF TakeTurn
<1>3. t.kind = "correction" => TakeTurn(s, t, fresh) = Correct(s, t, fresh)
  BY <1>0, Zenon DEF TakeTurn
<1>4. Unclear(s, t) => TakeTurn(s, t, fresh) = AskIntent(s, t)
  BY <1>0, Zenon DEF TakeTurn, AskIntent
<1>5. /\ t.kind \notin {"exit", "correction"}
      /\ ~(Strong(t) /\ HasProposal(s.slots))
      /\ ~Unclear(s, t)
      => TakeTurn(s, t, fresh)
             = IF Typed(s, t) THEN AnswerTyped(Heard(s, t), s.prompt.field, t)
               ELSE GoOn(s, t)
  BY <1>0, Zenon DEF TakeTurn, Typed, Heard, GoOn
<1> QED
  BY <1>1, <1>2, <1>3, <1>4, <1>5

Picks(s, t) == s.prompt.kind = "question" /\ Picked(s, t) # 0

Unaddressed(s, t) ==
    /\ t.kind \notin {"change", "offtopic"}
    /\ ~Picks(s, t)
    /\ ~(s.prompt.kind = "question" /\ t.kind \in {"other", "unknown"})

(* A text that is given to the collector as a whole, while a question is     *)
(* open, in the middle of a collection, or before one.                      *)
Answers(s, t) == s.prompt.kind = "question" /\ t.kind \notin {"exit", "correction"}

LEMMA SayIs ==
    ASSUME NEW s, NEW t, NEW fresh
    PROVE  /\ t.kind = "change" =>
                  Say(s, t, fresh) = IF Collecting(s) THEN ChangeMenu(s) ELSE Talk(s)
           /\ t.kind = "offtopic" => Say(s, t, fresh) = [s EXCEPT !.prompt = Plain("unsupported")]
           /\ t.kind \notin {"change", "offtopic"} /\ Picks(s, t) =>
                  Say(s, t, fresh) = Choose(s, s.prompt.choices[Picked(s, t)], fresh)
           /\ s.prompt.kind = "question" /\ ~Picks(s, t) /\ t.kind = "other" =>
                  Say(s, t, fresh) = ChooseOther(s)
           /\ s.prompt.kind = "question" /\ ~Picks(s, t) /\ t.kind = "unknown" =>
                  Say(s, t, fresh) = ChooseUnknown(s)
           /\ Unaddressed(s, t) =>
                  /\ Answers(s, t) /\ s.prompt.field = "clientCharge" =>
                         Say(s, t, fresh) = AnswerCharge(s, t)
                  /\ Answers(s, t) /\ s.prompt.field \in TypedFirst =>
                         Say(s, t, fresh) = AnswerTyped(s, s.prompt.field, t)
                  /\ ~(Answers(s, t) /\ s.prompt.field \in TypedFirst \cup {"clientCharge"}) =>
                         /\ Collecting(s) /\ t.kind = "noCharge" =>
                                Say(s, t, fresh)
                                    = Filled(s, Override(s.slots, One("clientCharge", Null)))
                         /\ Collecting(s) /\ t.kind # "noCharge" =>
                                Say(s, t, fresh) = TakeTurn(s, t, fresh)
                         /\ ~Collecting(s) /\ t.kind = "exit" =>
                                Say(s, t, fresh) = NewCollector(s.key)
                         /\ ~Collecting(s) /\ t.kind = "report" =>
                                Say(s, t, fresh) = Begin(s, t)
                         /\ ~Collecting(s) /\ t.kind \notin {"exit", "report"} =>
                                Say(s, t, fresh) = Talk(s)
<1> DEFINE asked == s.prompt.kind = "question"
           before == CASE t.kind = "exit" -> NewCollector(s.key)
                       [] t.kind = "report" -> Begin(s, t)
                       [] OTHER -> Talk(s)
           whole ==
               IF asked /\ t.kind \notin {"exit", "correction"} /\ s.prompt.field = "clientCharge"
               THEN AnswerCharge(s, t)
               ELSE IF asked /\ t.kind \notin {"exit", "correction"}
                             /\ s.prompt.field \in TypedFirst
               THEN AnswerTyped(s, s.prompt.field, t)
               ELSE IF Collecting(s) /\ t.kind = "noCharge"
               THEN Filled(s, Override(s.slots, One("clientCharge", Null)))
               ELSE IF Collecting(s) THEN TakeTurn(s, t, fresh)
               ELSE before
<1>0. Say(s, t, fresh) =
          CASE t.kind = "change" -> (IF Collecting(s) THEN ChangeMenu(s) ELSE Talk(s))
            [] t.kind = "offtopic" -> [s EXCEPT !.prompt = Plain("unsupported")]
            [] t.kind \notin {"change", "offtopic"} /\ Picks(s, t) ->
                   Choose(s, s.prompt.choices[Picked(s, t)], fresh)
            [] asked /\ ~Picks(s, t) /\ t.kind = "other" -> ChooseOther(s)
            [] asked /\ ~Picks(s, t) /\ t.kind = "unknown" -> ChooseUnknown(s)
            [] OTHER -> whole
  BY Zenon DEF Say, Picks
<1> HIDE DEF whole
<1>1. t.kind = "change" =>
          Say(s, t, fresh) = IF Collecting(s) THEN ChangeMenu(s) ELSE Talk(s)
  BY <1>0, Zenon
<1>2. t.kind = "offtopic" => Say(s, t, fresh) = [s EXCEPT !.prompt = Plain("unsupported")]
  BY <1>0, Zenon
<1>3. t.kind \notin {"change", "offtopic"} /\ Picks(s, t) =>
          Say(s, t, fresh) = Choose(s, s.prompt.choices[Picked(s, t)], fresh)
  BY <1>0, Zenon
<1>4. asked /\ ~Picks(s, t) /\ t.kind = "other" => Say(s, t, fresh) = ChooseOther(s)
  BY <1>0, Zenon
<1>5. asked /\ ~Picks(s, t) /\ t.kind = "unknown" => Say(s, t, fresh) = ChooseUnknown(s)
  BY <1>0, Zenon
<1>6. Unaddressed(s, t) => Say(s, t, fresh) = whole
  BY <1>0, Zenon DEF Unaddressed
<1>7. /\ t.kind = "exit" => before = NewCollector(s.key)
      /\ t.kind = "report" => before = Begin(s, t)
      /\ t.kind \notin {"exit", "report"} => before = Talk(s)
  BY Zenon
<1> HIDE DEF before
<1>8. /\ Answers(s, t) /\ s.prompt.field = "clientCharge" => whole = AnswerCharge(s, t)
      /\ Answers(s, t) /\ s.prompt.field \in TypedFirst =>
             whole = AnswerTyped(s, s.prompt.field, t)
      /\ ~(Answers(s, t) /\ s.prompt.field \in TypedFirst \cup {"clientCharge"}) =>
             /\ Collecting(s) /\ t.kind = "noCharge" =>
                    whole = Filled(s, Override(s.slots, One("clientCharge", Null)))
             /\ Collecting(s) /\ t.kind # "noCharge" => whole = TakeTurn(s, t, fresh)
             /\ ~Collecting(s) => whole = before
  BY DEF whole, Answers, TypedFirst
<1> QED
  BY <1>1, <1>2, <1>3, <1>4, <1>5, <1>6, <1>7, <1>8

LEMMA HeardOK ==
    ASSUME NEW s, CollectorOK(s), NEW t \in Texts,
           t.kind \notin {"exit", "correction"}
    PROVE  /\ DOMAIN Heard(s, t) = CollectorFields
           /\ SlotsOK(ApplyUtterance(s.slots, t, FALSE))
           /\ LeadsOK(s.leads \cup t.leads)
           /\ IsCollector(Heard(s, t), ApplyUtterance(s.slots, t, FALSE), s.prompt, s.key,
                          s.leads \cup t.leads, s.pending)
<1>2. SlotsOK(ApplyUtterance(s.slots, t, FALSE))
  BY ApplyOK DEF CollectorOK
<1>3. LeadsOK(s.leads \cup t.leads)
  BY TextLeads, LeadsTogether DEF CollectorOK
<1>4. IsCollector(Heard(s, t), ApplyUtterance(s.slots, t, FALSE), s.prompt, s.key,
                  s.leads \cup t.leads, s.pending)
  BY SimpleShapes DEF CollectorOK, Heard
<1> QED
  BY <1>2, <1>3, <1>4 DEF IsCollector

LEMMA TakeTurnOK ==
    ASSUME NEW s, CollectorOK(s), NEW t \in Texts, NEW fresh,
           Answers(s, t) => s.prompt.field \notin TypedFirst \cup {"clientCharge"}
    PROVE  CollectorOK(TakeTurn(s, t, fresh)) /\ TakeTurn(s, t, fresh).key \in {s.key, fresh}
<1> DEFINE r == TakeTurn(s, t, fresh)
<1> SUFFICES CollectorOK(r) /\ r.key \in {s.key, fresh}
  OBVIOUS
<1>1. CASE t.kind = "exit"
  <2>1. r = NewCollector(fresh)
    BY <1>1, TakeTurnIs
  <2> QED
    BY <2>1, NewOK
<1>2. CASE Strong(t) /\ HasProposal(s.slots)
  <2>1. r = StartOver(t, fresh)
    BY <1>2, TakeTurnIs
  <2> QED
    BY <2>1, StartOverOK
<1>3. CASE t.kind = "correction"
  <2>1. r = Correct(s, t, fresh)
    BY <1>3, TakeTurnIs
  <2> QED
    BY <2>1, CorrectOK
<1>4. CASE Unclear(s, t)
  <2>1. r = [s EXCEPT !.pending = t, !.prompt = IntentQuestion]
    BY <1>4, TakeTurnIs DEF AskIntent
  <2> HIDE DEF r
  <2>2. IsCollector(r, s.slots, IntentQuestion, s.key, s.leads, t)
    BY <2>1, SimpleShapes DEF CollectorOK
  <2> QED
    BY <2>2, IntentQuestionOK, CollectorFrom DEF CollectorOK, IsCollector
<1>5. CASE /\ t.kind \notin {"exit", "correction"}
           /\ ~(Strong(t) /\ HasProposal(s.slots))
           /\ ~Unclear(s, t)
  <2> DEFINE slots == ApplyUtterance(s.slots, t, FALSE)
             leads == s.leads \cup t.leads
             h == Heard(s, t)
             prompt == NextPrompt(slots, leads)
             field == s.prompt.field
  <2>0. r = IF Typed(s, t) THEN AnswerTyped(h, field, t)
            ELSE GoOn(s, t)
    BY <1>5, TakeTurnIs
  <2>1. /\ SlotsOK(slots) /\ LeadsOK(leads)
        /\ IsCollector(h, slots, s.prompt, s.key, leads, s.pending)
    BY <1>5, HeardOK
  <2>4. GoOn(s, t) = [h EXCEPT !.pending = None, !.prompt = prompt]
    BY DEF GoOn
  <2> HIDE DEF r, slots, leads, h, prompt
  <2>2. CASE Typed(s, t)
    <3>1. field \in {"amountEur", "date", "propertyName", "description"}
      BY <1>5, <2>2, FieldNames DEF Typed, Answers, TypedFirst, CollectorOK, PromptOK
    <3>2. field \in {"amountEur", "date"} => field \in DOMAIN t.types
      BY <2>2 DEF Typed
    <3>3. field \in Fields \ {"clientCharge"}
      BY <3>1, FieldNames
    <3>4. CollectorOK(AnswerTyped(h, field, t)) /\ AnswerTyped(h, field, t).key = h.key
      BY <2>1, <3>1, <3>2, <3>3, AnswerTypedOK DEF IsCollector
    <3> QED
      BY <2>0, <2>1, <2>2, <3>4 DEF IsCollector
  <2>3. CASE ~Typed(s, t)
    <3>1. IsCollector(r, slots, prompt, s.key, leads, None)
      BY <2>0, <2>1, <2>3, <2>4 DEF IsCollector, CollectorFields
    <3>2. PromptOK(slots, prompt) /\ prompt.field # "intent"
      BY <2>1, NextPromptOK DEF prompt
    <3> QED
      BY <2>1, <3>1, <3>2, CollectorFrom DEF IsCollector
  <2> QED
    BY <2>2, <2>3
<1> QED
  BY <1>1, <1>2, <1>3, <1>4, <1>5

LEMMA PickedOK ==
    ASSUME NEW s, NEW t, Picks(s, t)
    PROVE  Picked(s, t) \in DOMAIN s.prompt.choices
BY DEF Picks, Picked

(* Whatever is said, the collector stays one, under its key or a fresh one.  *)
LEMMA SayOK ==
    ASSUME NEW s, CollectorOK(s), NEW t \in Texts, NEW fresh
    PROVE  CollectorOK(Say(s, t, fresh)) /\ Say(s, t, fresh).key \in {s.key, fresh}
<1> DEFINE r == Say(s, t, fresh)
<1> SUFFICES CollectorOK(r) /\ r.key \in {s.key, fresh}
  OBVIOUS
<1>1. CASE t.kind = "change"
  BY <1>1, SayIs, ChangeMenuOK, TalkOK
<1>2. CASE t.kind = "offtopic"
  <2>1. r = [s EXCEPT !.prompt = Plain("unsupported")]
    BY <1>2, SayIs
  <2>2. PromptOK(s.slots, Plain("unsupported"))
    BY PlainOK
  <2>3. Plain("unsupported").field = ""
    BY DEF Plain
  <2> HIDE DEF r
  <2> QED
    BY <2>1, <2>2, <2>3, ReaskOK
<1>3. CASE t.kind \notin {"change", "offtopic"} /\ Picks(s, t)
  <2>1. r = Choose(s, s.prompt.choices[Picked(s, t)], fresh)
    BY <1>3, SayIs
  <2>2. Picked(s, t) \in DOMAIN s.prompt.choices
    BY <1>3, PickedOK
  <2> HIDE DEF r
  <2> QED
    BY <2>1, <2>2, ChooseOK
<1>4. CASE s.prompt.kind = "question" /\ ~Picks(s, t) /\ t.kind = "other"
  BY <1>4, SayIs, ChooseOtherOK
<1>5. CASE s.prompt.kind = "question" /\ ~Picks(s, t) /\ t.kind = "unknown"
  BY <1>5, SayIs, ChooseUnknownOK
<1>6. CASE Unaddressed(s, t)
  <2> DEFINE field == s.prompt.field
  <2>1. CASE Answers(s, t) /\ field = "clientCharge"
    BY <1>6, <2>1, SayIs, AnswerChargeOK
  <2>2. CASE Answers(s, t) /\ field \in TypedFirst
    <3>1. r = AnswerTyped(s, field, t)
      BY <1>6, <2>2, SayIs
    <3>2. /\ DOMAIN s = CollectorFields /\ SlotsOK(s.slots) /\ LeadsOK(s.leads)
          /\ field = "subcategory" => s.slots["category"].status = "confirmed"
          /\ field = "category" => ~SlotReady(s.slots["category"])
      BY DEF CollectorOK, PromptOK
    <3>3. field \in Fields \ {"clientCharge"} /\ field \notin {"amountEur", "date"}
      BY <2>2, FieldNames DEF TypedFirst
    <3> HIDE DEF r, field
    <3>4. CollectorOK(AnswerTyped(s, field, t)) /\ AnswerTyped(s, field, t).key = s.key
      BY <3>2, <3>3, AnswerTypedOK
    <3> QED
      BY <3>1, <3>4
  <2>3. CASE ~(Answers(s, t) /\ field \in TypedFirst \cup {"clientCharge"})
    <3>1. CASE Collecting(s) /\ t.kind = "noCharge"
      <4>1. r = Filled(s, Override(s.slots, One("clientCharge", Null)))
        BY <1>6, <2>3, <3>1, SayIs
      <4>2. SlotsOK(Override(s.slots, One("clientCharge", Null)))
        BY NoNameOK DEF CollectorOK
      <4> HIDE DEF r
      <4> QED
        BY <4>1, <4>2, FilledOK
    <3>2. CASE Collecting(s) /\ t.kind # "noCharge"
      <4>1. r = TakeTurn(s, t, fresh)
        BY <1>6, <2>3, <3>2, SayIs
      <4> HIDE DEF r
      <4> QED
        BY <2>3, <4>1, TakeTurnOK
    <3>3. CASE ~Collecting(s) /\ t.kind = "exit"
      BY <1>6, <2>3, <3>3, SayIs, NewOK
    <3>4. CASE ~Collecting(s) /\ t.kind = "report"
      BY <1>6, <2>3, <3>4, SayIs, BeginOK
    <3>5. CASE ~Collecting(s) /\ t.kind \notin {"exit", "report"}
      BY <1>6, <2>3, <3>5, SayIs, TalkOK
    <3> QED
      BY <3>1, <3>2, <3>3, <3>4, <3>5
  <2> QED
    BY <2>1, <2>2, <2>3
<1> HIDE DEF r
<1> QED
  BY <1>1, <1>2, <1>3, <1>4, <1>5, <1>6 DEF Unaddressed

-----------------------------------------------------------------------------
(* Nothing that is said depends on the key of the collector or on the key    *)
(* drawn for it.                                                           *)
Alike(s, r) ==
    /\ DOMAIN s = CollectorFields /\ DOMAIN r = CollectorFields
    /\ s.slots = r.slots /\ s.prompt = r.prompt
    /\ s.leads = r.leads /\ s.pending = r.pending

LEMMA AlikeShapes ==
    ASSUME NEW s, NEW r, NEW slots, NEW prompt, NEW k1, NEW k2, NEW leads, NEW pending,
           IsCollector(s, slots, prompt, k1, leads, pending),
           IsCollector(r, slots, prompt, k2, leads, pending)
    PROVE  Alike(s, r)
BY DEF IsCollector, Alike

LEMMA SimpleAlike ==
    ASSUME NEW s, NEW r, Alike(s, r)
    PROVE  /\ Alike(Talk(s), Talk(r))
           /\ \A slots : Alike(Filled(s, slots), Filled(r, slots))
           /\ \A prompt : Alike([s EXCEPT !.prompt = prompt], [r EXCEPT !.prompt = prompt])
           /\ \A slots, leads : Alike([s EXCEPT !.slots = slots, !.leads = leads],
                                      [r EXCEPT !.slots = slots, !.leads = leads])
           /\ \A slots, prompt : Alike([s EXCEPT !.slots = slots, !.prompt = prompt],
                                       [r EXCEPT !.slots = slots, !.prompt = prompt])
           /\ \A pending, prompt : Alike([s EXCEPT !.pending = pending, !.prompt = prompt],
                                         [r EXCEPT !.pending = pending, !.prompt = prompt])
<1>0. /\ DOMAIN s = CollectorFields /\ DOMAIN r = CollectorFields
      /\ s.slots = r.slots /\ s.prompt = r.prompt
      /\ s.leads = r.leads /\ s.pending = r.pending
  BY DEF Alike
<1>1. Alike(Talk(s), Talk(r))
  BY <1>0 DEF Talk, Alike, CollectorFields
<1>2. \A slots : Alike(Filled(s, slots), Filled(r, slots))
  BY <1>0 DEF Filled, Alike, CollectorFields
<1>3. \A prompt : Alike([s EXCEPT !.prompt = prompt], [r EXCEPT !.prompt = prompt])
  BY <1>0 DEF Alike, CollectorFields
<1>4. \A slots, leads : Alike([s EXCEPT !.slots = slots, !.leads = leads],
                              [r EXCEPT !.slots = slots, !.leads = leads])
  BY <1>0 DEF Alike, CollectorFields
<1>5. \A slots, prompt : Alike([s EXCEPT !.slots = slots, !.prompt = prompt],
                               [r EXCEPT !.slots = slots, !.prompt = prompt])
  BY <1>0 DEF Alike, CollectorFields
<1>6. \A pending, prompt : Alike([s EXCEPT !.pending = pending, !.prompt = prompt],
                                 [r EXCEPT !.pending = pending, !.prompt = prompt])
  BY <1>0 DEF Alike, CollectorFields
<1> QED
  BY <1>1, <1>2, <1>3, <1>4, <1>5, <1>6

LEMMA NewAlike ==
    ASSUME NEW k1, NEW k2
    PROVE  Alike(NewCollector(k1), NewCollector(k2))
BY NewShape, AlikeShapes

LEMMA BeginAlike ==
    ASSUME NEW s, NEW r, Alike(s, r), NEW t
    PROVE  Alike(Begin(s, t), Begin(r, t))
<1>1. /\ DOMAIN s = CollectorFields /\ DOMAIN r = CollectorFields /\ s.slots = r.slots
  BY DEF Alike
<1>2. /\ IsCollector(Begin(s, t), ApplyUtterance(s.slots, t, TRUE),
                     NextPrompt(ApplyUtterance(s.slots, t, TRUE), t.leads), s.key, t.leads, None)
      /\ IsCollector(Begin(r, t), ApplyUtterance(s.slots, t, TRUE),
                     NextPrompt(ApplyUtterance(s.slots, t, TRUE), t.leads), r.key, t.leads, None)
  BY <1>1, BeginShape
<1> QED
  BY <1>2, AlikeShapes

LEMMA StartOverAlike ==
    ASSUME NEW t, NEW k1, NEW k2
    PROVE  Alike(StartOver(t, k1), StartOver(t, k2))
BY NewAlike, BeginAlike DEF StartOver

LEMMA CorrectAlike ==
    ASSUME NEW s, NEW r, Alike(s, r), NEW t, NEW k1, NEW k2
    PROVE  Alike(Correct(s, t, k1), Correct(r, t, k2))
<1>1. /\ DOMAIN s = CollectorFields /\ DOMAIN r = CollectorFields
      /\ s.slots = r.slots /\ s.leads = r.leads
  BY DEF Alike
<1>2. Corrected(r, t) = Corrected(s, t)
  BY <1>1 DEF Corrected, Cleared
<1>3. /\ IsCollector(Correct(s, t, k1), Corrected(s, t),
                     NextPrompt(Corrected(s, t), s.leads \cup t.leads),
                     IF Material(s.slots, Corrected(s, t)) THEN k1 ELSE s.key,
                     s.leads \cup t.leads, None)
      /\ IsCollector(Correct(r, t, k2), Corrected(r, t),
                     NextPrompt(Corrected(r, t), r.leads \cup t.leads),
                     IF Material(r.slots, Corrected(r, t)) THEN k2 ELSE r.key,
                     r.leads \cup t.leads, None)
  BY <1>1, CorrectShape
<1> QED
  BY <1>1, <1>2, <1>3, AlikeShapes

LEMMA ChooseAlike ==
    ASSUME NEW s, NEW r, Alike(s, r), CollectorOK(s), NEW i \in DOMAIN s.prompt.choices,
           NEW k1, NEW k2
    PROVE  Alike(Choose(s, s.prompt.choices[i], k1), Choose(r, s.prompt.choices[i], k2))
<1> DEFINE c == s.prompt.choices[i]
<1>0. s.slots = r.slots /\ s.pending = r.pending
  BY DEF Alike
<1>1. c.then \in {"fill", "charge:yes", "intent:new", "intent:fix", "intent:cancel"}
  BY DEF CollectorOK, PromptOK, ChoiceOK
<1> HIDE DEF c
<1>2. CASE c.then = "fill"
  <2>1. /\ Choose(s, c, k1) = Filled(s, Override(s.slots, c.sub))
        /\ Choose(r, c, k2) = Filled(r, Override(r.slots, c.sub))
    BY <1>2 DEF Choose
  <2>2. Alike(Filled(s, Override(s.slots, c.sub)), Filled(r, Override(s.slots, c.sub)))
    BY SimpleAlike
  <2> QED
    BY <1>0, <2>1, <2>2 DEF c
<1>3. CASE c.then = "charge:yes"
  <2>1. /\ Choose(s, c, k1) = [s EXCEPT !.prompt = ChargeAmount]
        /\ Choose(r, c, k2) = [r EXCEPT !.prompt = ChargeAmount]
    BY <1>3 DEF Choose
  <2>2. Alike([s EXCEPT !.prompt = ChargeAmount], [r EXCEPT !.prompt = ChargeAmount])
    BY SimpleAlike
  <2> QED
    BY <2>1, <2>2 DEF c
<1>4. CASE c.then = "intent:new"
  <2>1. /\ Choose(s, c, k1) = StartOver(s.pending, k1)
        /\ Choose(r, c, k2) = StartOver(r.pending, k2)
    BY <1>4 DEF Choose
  <2> QED
    BY <1>0, <2>1, StartOverAlike DEF c
<1>5. CASE c.then = "intent:fix"
  <2>1. /\ Choose(s, c, k1) = Correct(s, s.pending, k1)
        /\ Choose(r, c, k2) = Correct(r, r.pending, k2)
    BY <1>5 DEF Choose
  <2> QED
    BY <1>0, <2>1, CorrectAlike DEF c
<1>6. CASE c.then = "intent:cancel"
  <2>1. /\ Choose(s, c, k1) = NewCollector(k1)
        /\ Choose(r, c, k2) = NewCollector(k2)
    BY <1>6 DEF Choose
  <2> QED
    BY <2>1, NewAlike DEF c
<1> QED
  BY <1>1, <1>2, <1>3, <1>4, <1>5, <1>6 DEF c

LEMMA UnknownAlike ==
    ASSUME NEW s, NEW r, Alike(s, r)
    PROVE  Alike(ChooseUnknown(s), ChooseUnknown(r))
<1>0. s.slots = r.slots /\ s.prompt = r.prompt
  BY DEF Alike
<1>1. CASE s.prompt.field = "propertyName"
  <2>1. /\ ChooseUnknown(s) = Filled(s, Override(s.slots, One("propertyName", Null)))
        /\ ChooseUnknown(r) = Filled(r, Override(r.slots, One("propertyName", Null)))
    BY <1>0, <1>1, UnknownIs
  <2> DEFINE slots == Override(s.slots, One("propertyName", Null))
  <2>2. Alike(Filled(s, slots), Filled(r, slots))
    BY SimpleAlike
  <2> QED
    BY <1>0, <2>1, <2>2
<1>2. CASE s.prompt.field = "clientCharge"
  <2> DEFINE q == Question("clientCharge", <<NoCharge>>, FALSE, "")
  <2>1. /\ ChooseUnknown(s) = [s EXCEPT !.prompt = q]
        /\ ChooseUnknown(r) = [r EXCEPT !.prompt = q]
    BY <1>0, <1>2, UnknownIs
  <2> HIDE DEF q
  <2>2. Alike([s EXCEPT !.prompt = q], [r EXCEPT !.prompt = q])
    BY SimpleAlike
  <2> QED
    BY <2>1, <2>2
<1> QED
  BY <1>0, <1>1, <1>2, UnknownIs

LEMMA OtherAlike ==
    ASSUME NEW s, NEW r, Alike(s, r), DOMAIN s.prompt = PromptFields
    PROVE  Alike(ChooseOther(s), ChooseOther(r))
<1> DEFINE prompt == [s.prompt EXCEPT !.choices = <<>>,
                                      !.search = (s.prompt.field = "propertyName")]
<1>0. /\ DOMAIN s = CollectorFields /\ DOMAIN r = CollectorFields
      /\ s.prompt = r.prompt
  BY DEF Alike
<1>1. ChooseOther(s) = [s EXCEPT !.prompt = prompt]
  BY <1>0 DEF ChooseOther, CollectorFields, PromptFields
<1>2. ChooseOther(r) = [r EXCEPT !.prompt = prompt]
  BY <1>0 DEF ChooseOther, CollectorFields, PromptFields
<1> HIDE DEF prompt
<1>3. Alike([s EXCEPT !.prompt = prompt], [r EXCEPT !.prompt = prompt])
  BY SimpleAlike
<1> QED
  BY <1>1, <1>2, <1>3

LEMMA ChargeAlike ==
    ASSUME NEW s, NEW r, Alike(s, r), NEW t
    PROVE  Alike(AnswerCharge(s, t), AnswerCharge(r, t))
<1>0. s.slots = r.slots /\ s.prompt = r.prompt
  BY DEF Alike
<1>1. /\ Alike([s EXCEPT !.prompt = ChargeAmount], [r EXCEPT !.prompt = ChargeAmount])
      /\ Alike([s EXCEPT !.prompt = ChargeDecision], [r EXCEPT !.prompt = ChargeDecision])
      /\ \A slots : Alike(Filled(s, slots), Filled(r, slots))
  BY SimpleAlike
<1> QED
  BY <1>0, <1>1 DEF AnswerCharge

LEMMA TypedAlike ==
    ASSUME NEW s, NEW r, Alike(s, r), NEW t, NEW field
    PROVE  Alike(AnswerTyped(s, field, t), AnswerTyped(r, field, t))
<1>0. s.slots = r.slots /\ s.leads = r.leads
  BY DEF Alike
<1> DEFINE v == TypedValue(s, field, t)
<1>1. v = TypedValue(r, field, t)
  BY <1>0 DEF TypedValue, TypedSub
<1>2. CASE DOMAIN v # {}
  <2> DEFINE slots == Override(s.slots, v)
             prompt == NextPrompt(slots, s.leads \cup t.leads)
  <2>1. AnswerTyped(s, field, t) = [s EXCEPT !.slots = slots, !.prompt = prompt]
    BY <1>2 DEF AnswerTyped
  <2>2. AnswerTyped(r, field, t) = [r EXCEPT !.slots = slots, !.prompt = prompt]
    BY <1>0, <1>1, <1>2 DEF AnswerTyped
  <2> HIDE DEF slots, prompt
  <2>3. Alike([s EXCEPT !.slots = slots, !.prompt = prompt],
              [r EXCEPT !.slots = slots, !.prompt = prompt])
    BY SimpleAlike
  <2> QED
    BY <2>1, <2>2, <2>3
<1>3. CASE DOMAIN v = {}
  <2>1. /\ AnswerTyped(s, field, t) = AskAgain(s, field, t)
        /\ AnswerTyped(r, field, t) = AskAgain(r, field, t)
    BY <1>1, <1>3 DEF AnswerTyped
  <2>2. \A prompt : Alike([s EXCEPT !.prompt = prompt], [r EXCEPT !.prompt = prompt])
    BY SimpleAlike
  <2> HIDE DEF v
  <2>3. CASE field = "propertyName"
    BY <2>1, <2>2, <2>3, AskAgainIs
  <2>4. CASE field = "category"
    BY <2>1, <2>2, <2>4, AskAgainIs
  <2>5. CASE field = "subcategory"
    BY <1>0, <2>1, <2>2, <2>5, AskAgainIs
  <2> QED
    BY <2>1, <2>3, <2>4, <2>5, AskAgainIs
<1> QED
  BY <1>2, <1>3

LEMMA TurnAlike ==
    ASSUME NEW s, NEW r, Alike(s, r), NEW t, NEW k1, NEW k2
    PROVE  Alike(TakeTurn(s, t, k1), TakeTurn(r, t, k2))
<1>0. /\ s.slots = r.slots /\ s.prompt = r.prompt /\ s.leads = r.leads
      /\ s.pending = r.pending
  BY DEF Alike
<1>1. CASE t.kind = "exit"
  BY <1>1, TakeTurnIs, NewAlike
<1>2. CASE Strong(t) /\ HasProposal(s.slots)
  BY <1>0, <1>2, TakeTurnIs, StartOverAlike
<1>3. CASE t.kind = "correction"
  BY <1>3, TakeTurnIs, CorrectAlike
<1>4. CASE Unclear(s, t)
  <2>0. Unclear(r, t)
    BY <1>0, <1>4 DEF Unclear
  <2>1. TakeTurn(s, t, k1) = AskIntent(s, t) /\ TakeTurn(r, t, k2) = AskIntent(r, t)
    BY <1>4, <2>0, TakeTurnIs
  <2>2. Alike(AskIntent(s, t), AskIntent(r, t))
    BY SimpleAlike DEF AskIntent
  <2> QED
    BY <2>1, <2>2
<1>5. CASE /\ t.kind \notin {"exit", "correction"}
           /\ ~(Strong(t) /\ HasProposal(s.slots))
           /\ ~Unclear(s, t)
  <2> DEFINE field == s.prompt.field
  <2>1. /\ TakeTurn(s, t, k1) = IF Typed(s, t) THEN AnswerTyped(Heard(s, t), field, t)
                                ELSE GoOn(s, t)
        /\ TakeTurn(r, t, k2) = IF Typed(r, t) THEN AnswerTyped(Heard(r, t), field, t)
                                ELSE GoOn(r, t)
    <3>1. Unclear(s, t) <=> Unclear(r, t)
      BY <1>0 DEF Unclear
    <3> QED
      BY <1>0, <1>5, <3>1, TakeTurnIs
  <2>2. Typed(s, t) <=> Typed(r, t)
    BY <1>0 DEF Typed
  <2>3. Alike(Heard(s, t), Heard(r, t))
    BY <1>0, SimpleAlike DEF Heard
  <2>4. Alike(GoOn(s, t), GoOn(r, t))
    <3> DEFINE h == Heard(s, t)
               g == Heard(r, t)
               prompt == NextPrompt(ApplyUtterance(s.slots, t, FALSE), s.leads \cup t.leads)
    <3>1. GoOn(s, t) = [h EXCEPT !.pending = None, !.prompt = prompt]
      BY DEF GoOn
    <3>2. GoOn(r, t) = [g EXCEPT !.pending = None, !.prompt = prompt]
      BY <1>0 DEF GoOn
    <3>3. Alike(h, g)
      BY <2>3
    <3> HIDE DEF h, g, prompt
    <3>4. Alike([h EXCEPT !.pending = None, !.prompt = prompt],
                [g EXCEPT !.pending = None, !.prompt = prompt])
      BY <3>3, SimpleAlike
    <3> QED
      BY <3>1, <3>2, <3>4
  <2>5. Alike(AnswerTyped(Heard(s, t), field, t), AnswerTyped(Heard(r, t), field, t))
    BY <2>3, TypedAlike
  <2> QED
    BY <2>1, <2>2, <2>4, <2>5
<1> QED
  BY <1>0, <1>1, <1>2, <1>3, <1>4, <1>5

LEMMA SayAlike ==
    ASSUME NEW s, NEW r, Alike(s, r), CollectorOK(s), NEW t, NEW k1, NEW k2
    PROVE  Alike(Say(s, t, k1), Say(r, t, k2))
<1>0. /\ s.slots = r.slots /\ s.prompt = r.prompt
      /\ Picked(s, t) = Picked(r, t)
  BY DEF Alike, Picked
<1>a. /\ Collecting(s) <=> Collecting(r)
      /\ Picks(s, t) <=> Picks(r, t)
      /\ Unaddressed(s, t) <=> Unaddressed(r, t)
      /\ Answers(s, t) <=> Answers(r, t)
  BY <1>0 DEF Collecting, Picks, Unaddressed, Answers
<1>1. CASE t.kind = "change"
  <2>1. /\ Say(s, t, k1) = IF Collecting(s) THEN ChangeMenu(s) ELSE Talk(s)
        /\ Say(r, t, k2) = IF Collecting(r) THEN ChangeMenu(r) ELSE Talk(r)
    BY <1>1, SayIs
  <2>2. Alike(ChangeMenu(s), ChangeMenu(r))
    BY SimpleAlike DEF ChangeMenu
  <2> QED
    BY <1>a, <2>1, <2>2, SimpleAlike
<1>2. CASE t.kind = "offtopic"
  <2>1. /\ Say(s, t, k1) = [s EXCEPT !.prompt = Plain("unsupported")]
        /\ Say(r, t, k2) = [r EXCEPT !.prompt = Plain("unsupported")]
    BY <1>2, SayIs
  <2>2. Alike([s EXCEPT !.prompt = Plain("unsupported")],
              [r EXCEPT !.prompt = Plain("unsupported")])
    BY SimpleAlike
  <2> QED
    BY <2>1, <2>2
<1>3. CASE t.kind \notin {"change", "offtopic"} /\ Picks(s, t)
  <2>1. /\ Say(s, t, k1) = Choose(s, s.prompt.choices[Picked(s, t)], k1)
        /\ Say(r, t, k2) = Choose(r, r.prompt.choices[Picked(r, t)], k2)
    BY <1>3, <1>a, SayIs
  <2>2. Picked(s, t) \in DOMAIN s.prompt.choices
    BY <1>3, PickedOK
  <2>3. Alike(Choose(s, s.prompt.choices[Picked(s, t)], k1),
              Choose(r, s.prompt.choices[Picked(s, t)], k2))
    BY <2>2, ChooseAlike
  <2> QED
    BY <1>0, <2>1, <2>3
<1>4. CASE s.prompt.kind = "question" /\ ~Picks(s, t) /\ t.kind = "other"
  <2>1. Say(s, t, k1) = ChooseOther(s) /\ Say(r, t, k2) = ChooseOther(r)
    BY <1>0, <1>4, <1>a, SayIs
  <2> QED
    BY <2>1, OtherAlike DEF CollectorOK, PromptOK
<1>5. CASE s.prompt.kind = "question" /\ ~Picks(s, t) /\ t.kind = "unknown"
  <2>1. Say(s, t, k1) = ChooseUnknown(s) /\ Say(r, t, k2) = ChooseUnknown(r)
    BY <1>0, <1>5, <1>a, SayIs
  <2> QED
    BY <2>1, UnknownAlike
<1>6. CASE Unaddressed(s, t)
  <2> DEFINE field == s.prompt.field
  <2>1. CASE Answers(s, t) /\ field = "clientCharge"
    <3>1. Say(s, t, k1) = AnswerCharge(s, t) /\ Say(r, t, k2) = AnswerCharge(r, t)
      BY <1>0, <1>6, <1>a, <2>1, SayIs
    <3> QED
      BY <3>1, ChargeAlike
  <2>2. CASE Answers(s, t) /\ field \in TypedFirst
    <3>1. /\ Say(s, t, k1) = AnswerTyped(s, field, t)
          /\ Say(r, t, k2) = AnswerTyped(r, field, t)
      BY <1>0, <1>6, <1>a, <2>2, SayIs
    <3> QED
      BY <3>1, TypedAlike
  <2>3. CASE ~(Answers(s, t) /\ field \in TypedFirst \cup {"clientCharge"})
    <3>0. ~(Answers(r, t) /\ r.prompt.field \in TypedFirst \cup {"clientCharge"})
      BY <1>0, <1>a, <2>3
    <3>1. CASE Collecting(s) /\ t.kind = "noCharge"
      <4> DEFINE slots == Override(s.slots, One("clientCharge", Null))
      <4>1. Say(s, t, k1) = Filled(s, slots) /\ Say(r, t, k2) = Filled(r, slots)
        BY <1>0, <1>6, <1>a, <2>3, <3>0, <3>1, SayIs
      <4>2. Alike(Filled(s, slots), Filled(r, slots))
        BY SimpleAlike
      <4> QED
        BY <4>1, <4>2
    <3>2. CASE Collecting(s) /\ t.kind # "noCharge"
      <4>1. Say(s, t, k1) = TakeTurn(s, t, k1) /\ Say(r, t, k2) = TakeTurn(r, t, k2)
        BY <1>6, <1>a, <2>3, <3>0, <3>2, SayIs
      <4> QED
        BY <4>1, TurnAlike
    <3>3. CASE ~Collecting(s) /\ t.kind = "exit"
      <4>1. Say(s, t, k1) = NewCollector(s.key) /\ Say(r, t, k2) = NewCollector(r.key)
        BY <1>6, <1>a, <2>3, <3>0, <3>3, SayIs
      <4> QED
        BY <4>1, NewAlike
    <3>4. CASE ~Collecting(s) /\ t.kind = "report"
      <4>1. Say(s, t, k1) = Begin(s, t) /\ Say(r, t, k2) = Begin(r, t)
        BY <1>6, <1>a, <2>3, <3>0, <3>4, SayIs
      <4> QED
        BY <4>1, BeginAlike
    <3>5. CASE ~Collecting(s) /\ t.kind \notin {"exit", "report"}
      <4>1. Say(s, t, k1) = Talk(s) /\ Say(r, t, k2) = Talk(r)
        BY <1>6, <1>a, <2>3, <3>0, <3>5, SayIs
      <4>2. Alike(Talk(s), Talk(r))
        BY SimpleAlike
      <4> QED
        BY <4>1, <4>2
    <3> QED
      BY <3>1, <3>2, <3>3, <3>4, <3>5
  <2> QED
    BY <2>1, <2>2, <2>3
<1> QED
  BY <1>1, <1>2, <1>3, <1>4, <1>5, <1>6 DEF Unaddressed

-----------------------------------------------------------------------------
(* What a text leaves alone.                                               *)
LEMMA TypedLeaves ==
    ASSUME NEW s, DOMAIN s = CollectorFields, SlotsOK(s.slots), NEW t \in Texts,
           NEW field \in Fields \ {"clientCharge"},
           field = "subcategory" => s.slots["category"].status = "confirmed",
           NEW f \in SlotNames \ {field}, field = "category" => f # "subcategory"
    PROVE  AnswerTyped(s, field, t).slots[f] = s.slots[f]
<1> DEFINE v == TypedValue(s, field, t)
           slots == Override(s.slots, v)
           prompt == NextPrompt(slots, s.leads \cup t.leads)
<1>1. CASE DOMAIN v # {}
  <2>1. f \notin DOMAIN v
    BY <1>1, TypedOK
  <2>2. AnswerTyped(s, field, t) = [s EXCEPT !.slots = slots, !.prompt = prompt]
    BY <1>1 DEF AnswerTyped
  <2>3. slots[f] = s.slots[f]
    BY <2>1, OverrideValues
  <2> HIDE DEF slots, prompt, v
  <2> QED
    BY <2>2, <2>3 DEF CollectorFields
<1>2. CASE DOMAIN v = {}
  <2>1. AnswerTyped(s, field, t) = AskAgain(s, field, t)
    BY <1>2 DEF AnswerTyped
  <2> HIDE DEF v
  <2>3. AskAgain(s, field, t).slots = s.slots
    <3>1. CASE field = "propertyName"
      <4> DEFINE p == PropertyQuestion(NearProperties(t.leads))
      <4>1. AskAgain(s, field, t) = [s EXCEPT !.prompt = p]
        BY <3>1, AskAgainIs
      <4> HIDE DEF p
      <4> QED
        BY <4>1 DEF CollectorFields
    <3>2. CASE field = "category"
      <4> DEFINE p == Ask(field, CategoryChoices(Pairs(t.leads)))
      <4>1. AskAgain(s, field, t) = [s EXCEPT !.prompt = p]
        BY <3>2, AskAgainIs
      <4> HIDE DEF p
      <4> QED
        BY <4>1 DEF CollectorFields
    <3>3. CASE field = "subcategory"
      <4> DEFINE p == QuestionFor(field, s.slots, {})
      <4>1. AskAgain(s, field, t) = [s EXCEPT !.prompt = p]
        BY <3>3, AskAgainIs
      <4> HIDE DEF p
      <4> QED
        BY <4>1 DEF CollectorFields
    <3> QED
      BY <3>1, <3>2, <3>3, AskAgainIs
  <2> QED
    BY <2>1, <2>3
<1> QED
  BY <1>1, <1>2

(* Without a verb of payment or correction, a confirmed value is changed by  *)
(* a choice or by an answer about it only.                                  *)
LEMMA SayLeavesConfirmed ==
    ASSUME NEW s, CollectorOK(s), NEW t \in Texts, NEW fresh, NEW f \in Fields,
           s.slots[f].status = "confirmed",
           t.kind \notin {"report", "correction", "exit", "noCharge"},
           s.prompt.field # f,
           Picked(s, t) = 0
    PROVE  Say(s, t, fresh).slots[f] = s.slots[f]
<1> DEFINE r == Say(s, t, fresh)
           field == s.prompt.field
<1>0. /\ DOMAIN s = CollectorFields /\ SlotsOK(s.slots)
      /\ f \in SlotNames
      /\ field = "category" => f # "subcategory"
      /\ field = "subcategory" => s.slots["category"].status = "confirmed"
      /\ ~Picks(s, t)
  BY DEF CollectorOK, PromptOK, SlotsOK, SlotReady, SlotNames, Picks
<1>1. /\ \A p : [s EXCEPT !.prompt = p].slots = s.slots
      /\ Talk(s).slots = s.slots
      /\ \A slots : Filled(s, slots).slots = slots
  BY <1>0, SimpleShapes DEF IsCollector
<1>2. CASE t.kind = "change"
  <2>1. ChangeMenu(s).slots = s.slots
    BY <1>1 DEF ChangeMenu
  <2> QED
    BY <1>1, <1>2, <2>1, SayIs
<1>3. CASE t.kind = "offtopic"
  <2>1. r = [s EXCEPT !.prompt = Plain("unsupported")]
    BY <1>3, SayIs
  <2> HIDE DEF r
  <2>2. r.slots = s.slots
    BY <1>1, <2>1
  <2> QED
    BY <2>2 DEF r
<1>4. CASE s.prompt.kind = "question" /\ t.kind = "other"
  <2>1. PICK prompt : ChooseOther(s) = [s EXCEPT !.prompt = prompt]
    BY OtherShape
  <2>2. r = ChooseOther(s)
    BY <1>0, <1>4, SayIs
  <2> QED
    BY <1>1, <2>1, <2>2
<1>5. CASE s.prompt.kind = "question" /\ t.kind = "unknown"
  <2>1. r = ChooseUnknown(s)
    BY <1>0, <1>5, SayIs
  <2>2. CASE field = "propertyName"
    <3> DEFINE slots == Override(s.slots, One("propertyName", Null))
    <3>1. r = Filled(s, slots)
      BY <2>1, <2>2, UnknownIs
    <3>2. slots[f] = s.slots[f]
      BY <1>0, <2>2, OverrideValues DEF One
    <3> HIDE DEF slots, r
    <3>3. r.slots = slots
      BY <1>1, <3>1
    <3> QED
      BY <3>2, <3>3 DEF r
  <2>3. CASE field = "clientCharge"
    <3> DEFINE q == Question("clientCharge", <<NoCharge>>, FALSE, "")
    <3>1. r = [s EXCEPT !.prompt = q]
      BY <2>1, <2>3, UnknownIs
    <3> HIDE DEF q, r
    <3>2. r.slots = s.slots
      BY <1>1, <3>1
    <3> QED
      BY <3>2 DEF r
  <2> QED
    BY <2>1, <2>2, <2>3, UnknownIs
<1>6. CASE Unaddressed(s, t)
  <2>1. CASE Answers(s, t) /\ field = "clientCharge"
    <3>1. r = AnswerCharge(s, t)
      BY <1>6, <2>1, SayIs
    <3>2. \/ \E x : r = Filled(s, Override(s.slots, One("clientCharge", x)))
          \/ r = [s EXCEPT !.prompt = ChargeAmount]
          \/ r = [s EXCEPT !.prompt = ChargeDecision]
      BY <3>1 DEF AnswerCharge
    <3>3. \A x : Override(s.slots, One("clientCharge", x))[f] = s.slots[f]
      BY <1>0, <2>1, OverrideValues DEF One
    <3> HIDE DEF r
    <3>4. r.slots[f] = s.slots[f]
      <4>1. CASE \E x : r = Filled(s, Override(s.slots, One("clientCharge", x)))
        <5>1. PICK x : r = Filled(s, Override(s.slots, One("clientCharge", x)))
          BY <4>1
        <5>2. r.slots = Override(s.slots, One("clientCharge", x))
          BY <1>1, <5>1
        <5> QED
          BY <3>3, <5>2
      <4>2. CASE r = [s EXCEPT !.prompt = ChargeAmount]
        BY <1>1, <4>2
      <4>3. CASE r = [s EXCEPT !.prompt = ChargeDecision]
        BY <1>1, <4>3
      <4> QED
        BY <3>2, <4>1, <4>2, <4>3
    <3> QED
      BY <3>4 DEF r
  <2>2. CASE Answers(s, t) /\ field \in TypedFirst
    <3>1. r = AnswerTyped(s, field, t)
      BY <1>6, <2>2, SayIs
    <3>2. field \in Fields \ {"clientCharge"}
      BY <2>2, FieldNames DEF TypedFirst
    <3> HIDE DEF r, field
    <3>3. AnswerTyped(s, field, t).slots[f] = s.slots[f]
      BY <1>0, <3>2, TypedLeaves DEF field
    <3> QED
      BY <3>1, <3>3 DEF r
  <2>3. CASE ~(Answers(s, t) /\ field \in TypedFirst \cup {"clientCharge"})
    <3>0. Strong(t) => t.kind = "report"
      BY DEF Strong
    <3>3. CASE Collecting(s) /\ Unclear(s, t)
      <4>1. r = AskIntent(s, t)
        BY <1>6, <2>3, <3>3, SayIs, TakeTurnIs
      <4>2. AskIntent(s, t).slots = s.slots
        BY <1>0 DEF AskIntent, CollectorFields
      <4> HIDE DEF r
      <4> QED
        BY <4>1, <4>2 DEF r
    <3>1. CASE Collecting(s) /\ ~Unclear(s, t)
      <4> DEFINE h == Heard(s, t)
                 slots == ApplyUtterance(s.slots, t, FALSE)
      <4>1. r = IF Typed(s, t) THEN AnswerTyped(h, field, t) ELSE GoOn(s, t)
        <5>1. r = TakeTurn(s, t, fresh)
          BY <1>6, <2>3, <3>1, SayIs
        <5>2. TakeTurn(s, t, fresh)
                  = IF Typed(s, t) THEN AnswerTyped(h, field, t) ELSE GoOn(s, t)
          BY <3>0, <3>1, TakeTurnIs
        <5> QED
          BY <5>1, <5>2
      <4>2. slots[f] = s.slots[f]
        BY <1>0, FieldNames DEF ApplyUtterance, SetSlot, SlotReady
      <4>3. IsCollector(h, slots, s.prompt, s.key, s.leads \cup t.leads, s.pending)
            /\ SlotsOK(slots)
        BY HeardOK
      <4>4. GoOn(s, t).slots = slots
        BY <4>3 DEF GoOn, IsCollector, CollectorFields
      <4>5. CASE Typed(s, t)
        <5>1. field \in {"amountEur", "date", "propertyName", "description"}
          BY <2>3, <4>5, FieldNames DEF Typed, Answers, TypedFirst, CollectorOK, PromptOK
        <5>2. field \in Fields \ {"clientCharge"}
          BY <5>1, FieldNames
        <5> HIDE DEF r, h, slots, field
        <5>3. AnswerTyped(h, field, t).slots[f] = h.slots[f]
          BY <1>0, <4>3, <5>1, <5>2, TypedLeaves DEF IsCollector, field
        <5> QED
          BY <4>1, <4>2, <4>3, <4>5, <5>3 DEF IsCollector, r
      <4> QED
        BY <4>1, <4>2, <4>4, <4>5
    <3>2. CASE ~Collecting(s)
      BY <1>1, <1>6, <2>3, <3>2, SayIs
    <3> QED
      BY <3>1, <3>2, <3>3
  <2> QED
    BY <2>1, <2>2, <2>3
<1> QED
  BY <1>0, <1>2, <1>3, <1>4, <1>5, <1>6 DEF Unaddressed

(* A correction that picks no choice changes a material value under a fresh  *)
(* key only.                                                               *)
LEMMA SayCorrects ==
    ASSUME NEW s, CollectorOK(s), NEW t \in Texts, NEW fresh, fresh # s.key,
           t.kind = "correction", Picked(s, t) = 0,
           Say(s, t, fresh).key = s.key
    PROVE  \A f \in MaterialFields : Say(s, t, fresh).slots[f].value = s.slots[f].value
<1>1. Unaddressed(s, t) /\ ~Answers(s, t)
  BY DEF Unaddressed, Answers, Picks
<1>2. CASE Collecting(s)
  <2>1. Say(s, t, fresh) = Correct(s, t, fresh)
    <3>1. Say(s, t, fresh) = TakeTurn(s, t, fresh)
      BY <1>1, <1>2, SayIs
    <3> QED
      BY <3>1, TakeTurnIs
  <2>0. IsCollector(Correct(s, t, fresh), Corrected(s, t),
                    NextPrompt(Corrected(s, t), s.leads \cup t.leads),
                    IF Material(s.slots, Corrected(s, t)) THEN fresh ELSE s.key,
                    s.leads \cup t.leads, None)
    BY CorrectShape DEF CollectorOK
  <2>2. /\ Correct(s, t, fresh).slots = Corrected(s, t)
        /\ Correct(s, t, fresh).key = IF Material(s.slots, Corrected(s, t)) THEN fresh ELSE s.key
    BY <2>0 DEF IsCollector
  <2>3. ~Material(s.slots, Corrected(s, t))
    BY <2>1, <2>2
  <2> QED
    BY <2>1, <2>2, <2>3 DEF Material
<1>3. CASE ~Collecting(s)
  <2>1. Say(s, t, fresh) = Talk(s)
    BY <1>1, <1>3, SayIs
  <2>2. Talk(s).slots = s.slots
    BY SimpleShapes DEF IsCollector, CollectorOK
  <2> QED
    BY <2>1, <2>2
<1> QED
  BY <1>2, <1>3

-----------------------------------------------------------------------------
(* The replay of a conversation, for every number of texts.                 *)
LEMMA MinimalNatural ==
    ASSUME NEW S \in SUBSET Nat, S # {}
    PROVE  \E m \in S : \A k \in S : m <= k
<1>1. PICK m \in S : \A k \in S : <<k, m>> \notin OpToRel(<, Nat)
  BY WFMin, NatLessThanWellFounded, Zenon
<1>2. \A k \in S : ~(k < m)
  BY <1>1, Zenon DEF OpToRel
<1> QED
  BY <1>2

LEMMA IntervalInduction ==
    ASSUME NEW n \in Nat, NEW G,
           0 \in G, \A i \in 1..n : i - 1 \in G => i \in G
    PROVE  n \in G
<1> DEFINE Bad == {i \in 0..n : i \notin G}
<1>1. SUFFICES ASSUME Bad # {} PROVE FALSE
  OBVIOUS
<1>2. Bad \in SUBSET Nat
  OBVIOUS
<1>3. PICK i \in Bad : \A k \in Bad : i <= k
  BY <1>1, <1>2, MinimalNatural
<1>4. i \in 1..n /\ i - 1 \in 0..n
  BY <1>3
<1>5. i - 1 \notin Bad
  BY <1>3, <1>4
<1> QED
  BY <1>3, <1>4, <1>5

(* The collectors after the first texts, up to the n-th.                    *)
ReplayOn(texts, n, key, fresh, property, after) ==
    after = [i \in 0..n |-> IF i = 0 THEN Suggest(NewCollector(key), property)
                            ELSE Say(after[i - 1], texts[i], fresh)]

LEMMA ReplayExists ==
    ASSUME NEW texts, NEW n \in Nat, NEW key, NEW fresh, NEW property
    PROVE  \E after : ReplayOn(texts, n, key, fresh, property, after)
<1> DEFINE G == {k \in Nat : \E after : ReplayOn(texts, k, key, fresh, property, after)}
<1>1. 0 \in G
  <2>1. ReplayOn(texts, 0, key, fresh, property,
                 [i \in 0..0 |-> Suggest(NewCollector(key), property)])
    BY DEF ReplayOn
  <2> QED
    BY <2>1
<1>2. ASSUME NEW i \in 1..n, i - 1 \in G
      PROVE  i \in G
  <2>1. PICK s : ReplayOn(texts, i - 1, key, fresh, property, s)
    BY <1>2
  <2> DEFINE t == [j \in 0..i |-> IF j = i THEN Say(s[i - 1], texts[i], fresh) ELSE s[j]]
  <2>2. \A j \in 0..i : t[j] = IF j = 0 THEN Suggest(NewCollector(key), property)
                               ELSE Say(t[j - 1], texts[j], fresh)
    BY <2>1 DEF ReplayOn
  <2>3. ReplayOn(texts, i, key, fresh, property, t)
    BY <2>2 DEF ReplayOn
  <2> QED
    BY <2>3
<1> HIDE DEF G
<1>3. n \in G
  BY <1>1, <1>2, IntervalInduction
<1> QED
  BY <1>3 DEF G

LEMMA ReplaySolves ==
    ASSUME NEW texts, Len(texts) \in Nat, NEW key, NEW fresh, NEW property
    PROVE  \E after : /\ ReplayOn(texts, Len(texts), key, fresh, property, after)
                      /\ Replay(texts, key, fresh, property) = after[Len(texts)]
<1> DEFINE c == CHOOSE after : ReplayOn(texts, Len(texts), key, fresh, property, after)
<1>1. ReplayOn(texts, Len(texts), key, fresh, property, c)
  BY ReplayExists
<1>2. Replay(texts, key, fresh, property) = c[Len(texts)]
  BY DEF Replay, ReplayOn
<1> QED
  BY <1>1, <1>2

(* What the user saved so far leads to a collector that does not depend on   *)
(* the keys it drew.                                                       *)
LEMMA SuggestOK ==
    ASSUME NEW key, NEW property
    PROVE  LET s == Suggest(NewCollector(key), property)
           IN  CollectorOK(s) /\ s.key = key /\ s.prompt.kind = "talk"
<1> DEFINE n == NewCollector(key)
           s == Suggest(n, property)
           slots == IF property \in Properties
                    THEN [n.slots EXCEPT !.propertyName = Confirmed(property)]
                    ELSE n.slots
<1>1. IsCollector(n, EmptySlots, Plain("talk"), key, {}, None)
  BY NewShape
<1>2. IsCollector(s, slots, n.prompt, n.key, n.leads, n.pending)
  <2>1. DOMAIN n = CollectorFields
    BY <1>1 DEF IsCollector
  <2> HIDE DEF n
  <2> QED
    BY <2>1, SimpleShapes
<1>3. SlotsOK(slots)
  <2>1. SlotsOK(n.slots) /\ n.slots = EmptySlots
    BY <1>1, EmptySlotsOK DEF IsCollector
  <2>2. property \in Properties => property # None /\ property # Null
    BY Catalog
  <2> QED
    BY <2>1, <2>2, FieldNames DEF SlotsOK, SlotReady, Confirmed
<1>4. PromptOK(slots, Plain("talk")) /\ Plain("talk").field = "" /\ Plain("talk").kind = "talk"
  BY PlainOK DEF Plain
<1>5. CollectorOK(n)
  BY NewOK
<1> HIDE DEF n, s, slots
<1>6. CollectorOK(s)
  BY <1>1, <1>2, <1>3, <1>4, <1>5, CollectorFrom DEF IsCollector, CollectorOK
<1> QED
  BY <1>1, <1>2, <1>4, <1>6 DEF IsCollector, n, s

LEMMA SuggestAlike ==
    ASSUME NEW k1, NEW k2, NEW property
    PROVE  Alike(Suggest(NewCollector(k1), property), Suggest(NewCollector(k2), property))
<1> DEFINE n1 == NewCollector(k1)
           n2 == NewCollector(k2)
           slots == IF property \in Properties
                    THEN [EmptySlots EXCEPT !.propertyName = Confirmed(property)]
                    ELSE EmptySlots
<1>1. /\ IsCollector(n1, EmptySlots, Plain("talk"), k1, {}, None)
      /\ IsCollector(n2, EmptySlots, Plain("talk"), k2, {}, None)
  BY NewShape
<1> HIDE DEF n1, n2
<1>2. /\ IsCollector(Suggest(n1, property), slots, Plain("talk"), k1, {}, None)
      /\ IsCollector(Suggest(n2, property), slots, Plain("talk"), k2, {}, None)
  BY <1>1 DEF Suggest, IsCollector, CollectorFields
<1> HIDE DEF slots
<1> QED
  BY <1>2, AlikeShapes DEF n1, n2

LEMMA ReplayOK ==
    ASSUME NEW texts \in Seq(Texts), NEW key, NEW fresh
    PROVE  LET s == Replay(texts, key, fresh, Suggested)
           IN  CollectorOK(s) /\ s.key \in {key, fresh}
<1> DEFINE n == Len(texts)
<1>0. n \in Nat /\ \A i \in 1..n : texts[i] \in Texts
  OBVIOUS
<1>1. PICK after : /\ ReplayOn(texts, n, key, fresh, Suggested, after)
                   /\ Replay(texts, key, fresh, Suggested) = after[n]
  BY <1>0, ReplaySolves
<1> DEFINE G == {i \in 0..n : CollectorOK(after[i]) /\ after[i].key \in {key, fresh}}
<1> HIDE DEF n
<1>2. \A i \in 0..n : after[i] = IF i = 0 THEN Suggest(NewCollector(key), Suggested)
                                 ELSE Say(after[i - 1], texts[i], fresh)
  BY <1>1 DEF ReplayOn
<1>3. 0 \in G
  <2>1. after[0] = Suggest(NewCollector(key), Suggested)
    BY <1>0, <1>2
  <2> QED
    BY <1>0, <2>1, SuggestOK
<1>4. ASSUME NEW i \in 1..n, i - 1 \in G
      PROVE  i \in G
  <2>1. after[i] = Say(after[i - 1], texts[i], fresh)
    BY <1>0, <1>2
  <2>2. CollectorOK(after[i]) /\ after[i].key \in {after[i - 1].key, fresh}
    BY <1>0, <1>4, <2>1, SayOK
  <2> QED
    BY <1>0, <1>4, <2>2
<1> HIDE DEF G
<1>5. n \in G
  BY <1>0, <1>3, <1>4, IntervalInduction
<1> QED
  BY <1>1, <1>5 DEF G

LEMMA ReplayAlike ==
    ASSUME NEW texts \in Seq(Texts), NEW k1, NEW f1, NEW k2, NEW f2
    PROVE  Alike(Replay(texts, k1, f1, Suggested), Replay(texts, k2, f2, Suggested))
<1> DEFINE n == Len(texts)
<1>0. n \in Nat /\ \A i \in 1..n : texts[i] \in Texts
  OBVIOUS
<1>1. PICK a : /\ ReplayOn(texts, n, k1, f1, Suggested, a)
               /\ Replay(texts, k1, f1, Suggested) = a[n]
  BY <1>0, ReplaySolves
<1>2. PICK b : /\ ReplayOn(texts, n, k2, f2, Suggested, b)
               /\ Replay(texts, k2, f2, Suggested) = b[n]
  BY <1>0, ReplaySolves
<1> DEFINE G == {i \in 0..n : CollectorOK(a[i]) /\ Alike(a[i], b[i])}
<1> HIDE DEF n
<1>3. \A i \in 0..n :
          /\ a[i] = IF i = 0 THEN Suggest(NewCollector(k1), Suggested)
                    ELSE Say(a[i - 1], texts[i], f1)
          /\ b[i] = IF i = 0 THEN Suggest(NewCollector(k2), Suggested)
                    ELSE Say(b[i - 1], texts[i], f2)
  BY <1>1, <1>2 DEF ReplayOn
<1>4. 0 \in G
  <2>1. /\ a[0] = Suggest(NewCollector(k1), Suggested)
        /\ b[0] = Suggest(NewCollector(k2), Suggested)
    BY <1>0, <1>3
  <2> QED
    BY <1>0, <2>1, SuggestOK, SuggestAlike
<1>5. ASSUME NEW i \in 1..n, i - 1 \in G
      PROVE  i \in G
  <2>1. a[i] = Say(a[i - 1], texts[i], f1) /\ b[i] = Say(b[i - 1], texts[i], f2)
    BY <1>0, <1>3
  <2>2. CollectorOK(a[i])
    BY <1>0, <1>5, <2>1, SayOK
  <2>3. Alike(a[i], b[i])
    BY <1>5, <2>1, SayAlike
  <2> QED
    BY <1>0, <2>2, <2>3
<1> HIDE DEF G
<1>6. n \in G
  BY <1>0, <1>4, <1>5, IntervalInduction
<1> QED
  BY <1>1, <1>2, <1>6 DEF G

(* No text, and one text more.                                             *)
LEMMA ReplayNothing ==
    ASSUME NEW key, NEW fresh
    PROVE  Replay(<<>>, key, fresh, Suggested) = Suggest(NewCollector(key), Suggested)
<1>1. Len(<<>>) = 0
  OBVIOUS
<1>2. PICK after : /\ ReplayOn(<<>>, 0, key, fresh, Suggested, after)
                   /\ Replay(<<>>, key, fresh, Suggested) = after[0]
  BY <1>1, ReplaySolves
<1> QED
  BY <1>2 DEF ReplayOn

LEMMA ReplayStep ==
    ASSUME NEW texts \in Seq(Texts), NEW t \in Texts, NEW key, NEW fresh
    PROVE  Replay(Append(texts, t), key, fresh, Suggested)
               = Say(Replay(texts, key, fresh, Suggested), t, fresh)
<1> DEFINE n == Len(texts)
           more == Append(texts, t)
<1>0. /\ n \in Nat /\ Len(more) = n + 1 /\ more[n + 1] = t
      /\ \A i \in 1..n : more[i] = texts[i]
  OBVIOUS
<1>1. PICK a : /\ ReplayOn(texts, n, key, fresh, Suggested, a)
               /\ Replay(texts, key, fresh, Suggested) = a[n]
  BY <1>0, ReplaySolves
<1> HIDE DEF more
<1>2. PICK b : /\ ReplayOn(more, n + 1, key, fresh, Suggested, b)
               /\ Replay(more, key, fresh, Suggested) = b[n + 1]
  <2>1. Len(more) \in Nat
    BY <1>0
  <2> QED
    BY <1>0, <2>1, ReplaySolves
<1> DEFINE G == {i \in 0..n : a[i] = b[i]}
<1> HIDE DEF n
<1>3. /\ \A i \in 0..n :
            a[i] = IF i = 0 THEN Suggest(NewCollector(key), Suggested)
                   ELSE Say(a[i - 1], texts[i], fresh)
      /\ \A i \in 0..(n + 1) :
            b[i] = IF i = 0 THEN Suggest(NewCollector(key), Suggested)
                   ELSE Say(b[i - 1], more[i], fresh)
  BY <1>1, <1>2 DEF ReplayOn
<1>4. 0 \in G
  BY <1>0, <1>3
<1>5. \A i \in 1..n : i - 1 \in G => i \in G
  BY <1>0, <1>3
<1> HIDE DEF G
<1>6. n \in G
  BY <1>0, <1>4, <1>5, IntervalInduction
<1>7. b[n + 1] = Say(b[n], t, fresh)
  BY <1>0, <1>3
<1> QED
  BY <1>1, <1>2, <1>6, <1>7 DEF G, more

-----------------------------------------------------------------------------
IsDraft(d) ==
    d = [values |-> d.values, status |-> d.status, tx |-> d.tx, edited |-> d.edited]

(* A draft is a row and None is not.                                        *)
NoneIsNoDraft == \A d : IsDraft(d) => d # None

-----------------------------------------------------------------------------
(* Transactions are numbered as they are posted; a draft is posted exactly  *)
(* when it has a number, no two have the same, and every number is used.    *)
DraftsTyped ==
    /\ DOMAIN drafts = Keys
    /\ \A k \in Made : IsDraft(drafts[k])
    /\ \E S : posted \in Seq(S)

NumbersFit ==
    \A k \in Made :
        /\ drafts[k].tx \in 0..Len(posted)
        /\ (drafts[k].status = "posted") <=> (drafts[k].tx # 0)
        /\ drafts[k].tx # 0 => drafts[k].values = posted[drafts[k].tx]

NumbersAreUsedOnce ==
    /\ \A j, k \in Made : drafts[j].tx = drafts[k].tx /\ drafts[k].tx # 0 => j = k
    /\ \A i \in 1..Len(posted) : \E k \in Made : drafts[k].tx = i

FormIsOfADraft == form # None => form.draft \in Made

DraftsInv == DraftsTyped /\ NumbersFit /\ NumbersAreUsedOnce /\ FormIsOfADraft

(* The part of the invariant about the table of drafts and the ledger.      *)
TableInv == DraftsTyped /\ NumbersFit /\ NumbersAreUsedOnce

(* What is posted is a sequence.                                            *)
LEMMA Indexed ==
    ASSUME NEW s, \E S : s \in Seq(S)
    PROVE  Len(s) \in Nat /\ DOMAIN s = 1..Len(s)
OBVIOUS

LEMMA OneDraft ==
    ASSUME NEW v, NEW s, NEW n, NEW e, NEW d,
           d \in [values : {v}, status : {s}, tx : {n}, edited : {e}]
    PROVE  d = [values |-> v, status |-> s, tx |-> n, edited |-> e]
OBVIOUS

(* What the updates of a draft leave in it.                                 *)
LEMMA EditOfADraft ==
    ASSUME NEW d, IsDraft(d)
    PROVE  \A w, t, b : [d EXCEPT !.values = w, !.status = t, !.edited = b]
                         = [values |-> w, status |-> t, tx |-> d.tx, edited |-> b]
<1>1. PICK v, s, n, e : d = [values |-> v, status |-> s, tx |-> n, edited |-> e]
  BY Zenon DEF IsDraft
<1>2. d \in [values : {v}, status : {s}, tx : {n}, edited : {e}] /\ n = d.tx
  BY <1>1
<1> SUFFICES ASSUME NEW w, NEW t, NEW b
             PROVE  [d EXCEPT !.values = w, !.status = t, !.edited = b]
                    = [values |-> w, status |-> t, tx |-> n, edited |-> b]
  BY <1>2, Zenon
<1>3. [d EXCEPT !.values = w, !.status = t, !.edited = b]
          \in [values : {w}, status : {t}, tx : {n}, edited : {b}]
  BY <1>2
<1> QED
  BY <1>3, OneDraft, Zenon

LEMMA PostingOfADraft ==
    ASSUME NEW d, IsDraft(d), NEW t, NEW m
    PROVE  [d EXCEPT !.status = t, !.tx = m]
           = [values |-> d.values, status |-> t, tx |-> m, edited |-> d.edited]
<1>1. PICK v, s, n, e : d = [values |-> v, status |-> s, tx |-> n, edited |-> e]
  BY Zenon DEF IsDraft
<1>2. /\ d \in [values : {v}, status : {s}, tx : {n}, edited : {e}]
      /\ v = d.values /\ e = d.edited
  BY <1>1
<1>3. [d EXCEPT !.status = t, !.tx = m]
          \in [values : {v}, status : {t}, tx : {m}, edited : {e}]
  BY <1>2
<1> QED
  BY <1>2, <1>3, OneDraft, Zenon

(* Writing a draft that has no number over one that has none.               *)
LEMMA UnpostedWrite ==
    ASSUME TableInv, NoneIsNoDraft, NEW k \in Keys, NEW d, IsDraft(d),
           d.tx = 0, d.status # "posted",
           k \in Made => drafts[k].tx = 0,
           drafts' = [drafts EXCEPT ![k] = d], UNCHANGED posted
    PROVE  TableInv' /\ Made' = Made \cup {k}
<1>1. /\ DOMAIN drafts' = Keys
      /\ drafts'[k] = d
      /\ \A j \in Keys \ {k} : drafts'[j] = drafts[j]
  BY DEF TableInv, DraftsTyped
<1>2. d # None
  BY DEF NoneIsNoDraft
<1>3. Made' = Made \cup {k}
  BY <1>1, <1>2 DEF Made, Keys
<1>4. DraftsTyped'
  <2>1. \A j \in Made' : IsDraft(drafts'[j])
    BY <1>1, <1>3 DEF TableInv, DraftsTyped, Made
  <2>2. \E S : posted' \in Seq(S)
    BY DEF TableInv, DraftsTyped
  <2> QED
    BY <1>1, <2>1, <2>2 DEF DraftsTyped, Keys, Made, IsDraft
<1>5. Len(posted) \in Nat
  BY Indexed DEF TableInv, DraftsTyped
<1>6. NumbersFit'
  BY <1>1, <1>3, <1>5 DEF TableInv, NumbersFit, Made
<1>7. NumbersAreUsedOnce'
  <2>1. \A i, j \in Made' : drafts'[i].tx = drafts'[j].tx /\ drafts'[j].tx # 0 => i = j
    BY <1>1, <1>3 DEF TableInv, NumbersAreUsedOnce, Made
  <2>2. ASSUME NEW i \in 1..Len(posted)
        PROVE  \E j \in Made' : drafts'[j].tx = i
    <3>1. PICK j \in Made : drafts[j].tx = i
      BY DEF TableInv, NumbersAreUsedOnce
    <3>2. j # k
      BY <1>5, <3>1
    <3> QED
      BY <1>1, <1>3, <3>1, <3>2 DEF Made
  <2> QED
    BY <2>1, <2>2 DEF NumbersAreUsedOnce
<1> QED
  BY <1>3, <1>4, <1>6, <1>7 DEF TableInv

(* A step that touches neither the drafts nor the ledger.                   *)
LEMMA TableUntouched ==
    ASSUME TableInv, UNCHANGED <<drafts, posted>>
    PROVE  TableInv' /\ Made' = Made
BY DEF TableInv, DraftsTyped, NumbersFit, NumbersAreUsedOnce, Made, Keys, IsDraft

LEMMA SubmitStep ==
    ASSUME DraftsInv, NoneIsNoDraft, NEW values, form # None, SubmitForm(values)
    PROVE  DraftsInv'
<1>1. TableInv /\ form.draft \in Made
  BY DEF DraftsInv, TableInv, FormIsOfADraft
<1>2. FormIsOfADraft'
  BY DEF SubmitForm, FormIsOfADraft
<1>3. CASE UNCHANGED drafts
  BY <1>1, <1>2, <1>3, TableUntouched DEF SubmitForm, TableInv, DraftsInv
<1>4. CASE ~UNCHANGED drafts
  <2> DEFINE old == drafts[form.draft]
             new == [values |-> values, status |-> DraftStatus(values),
                     tx |-> old.tx, edited |-> TRUE]
  <2>1. /\ old.status \in Editable
        /\ drafts' = [drafts EXCEPT ![form.draft] =
                         [@ EXCEPT !.values = values, !.status = DraftStatus(values),
                                   !.edited = TRUE]]
    BY <1>4 DEF SubmitForm, Updatable
  <2>2. IsDraft(old) /\ form.draft \in Keys /\ DOMAIN drafts = Keys
    BY <1>1 DEF TableInv, DraftsTyped, Made
  <2>3. [old EXCEPT !.values = values, !.status = DraftStatus(values),
                    !.edited = TRUE] = new
    <3> HIDE DEF old
    <3>1. \A w, t, b : [old EXCEPT !.values = w, !.status = t, !.edited = b]
                       = [values |-> w, status |-> t, tx |-> old.tx, edited |-> b]
      BY <2>2, EditOfADraft
    <3> QED
      BY <3>1, Zenon
  <2>4. drafts' = [drafts EXCEPT ![form.draft] = new]
    BY <2>1, <2>2, <2>3
  <2>5. old.tx = 0
    BY <1>1, <2>1 DEF TableInv, NumbersFit, Editable
  <2>6. IsDraft(new) /\ new.tx = 0 /\ new.status # "posted"
    BY <2>5 DEF IsDraft, DraftStatus
  <2>7. UNCHANGED posted
    BY DEF SubmitForm
  <2> HIDE DEF new, old
  <2>8. TableInv'
    BY <1>1, <2>2, <2>4, <2>5, <2>6, <2>7, UnpostedWrite DEF old
  <2> QED
    BY <1>2, <2>8 DEF TableInv, DraftsInv
<1> QED
  BY <1>3, <1>4

LEMMA RejectStep ==
    ASSUME DraftsInv, NoneIsNoDraft, NEW k \in Made, Reject(k)
    PROVE  DraftsInv'
<1> DEFINE old == drafts[k]
           new == [values |-> old.values, status |-> "rejected",
                   tx |-> old.tx, edited |-> old.edited]
<1>1. TableInv
  BY DEF DraftsInv, TableInv
<1>2. IsDraft(old) /\ k \in Keys /\ DOMAIN drafts = Keys
  BY <1>1 DEF TableInv, DraftsTyped, Made
<1>3. [old EXCEPT !.status = "rejected"] = new
  BY <1>2 DEF IsDraft
<1>4. drafts' = [drafts EXCEPT ![k] = new]
  BY <1>2, <1>3 DEF Reject
<1>5. old.tx = 0
  BY <1>1 DEF TableInv, NumbersFit, Reject, Editable
<1>6. IsDraft(new) /\ new.tx = 0 /\ new.status # "posted"
  BY <1>5 DEF IsDraft
<1>7. UNCHANGED <<posted, form>>
  BY DEF Reject, staffVars
<1> HIDE DEF new, old
<1>8. TableInv' /\ Made' = Made \cup {k}
  BY <1>1, <1>2, <1>4, <1>5, <1>6, <1>7, UnpostedWrite DEF old
<1> QED
  BY <1>7, <1>8 DEF DraftsInv, TableInv, FormIsOfADraft

(* The draft gets the next number.                                          *)
LEMMA ApproveStep ==
    ASSUME DraftsInv, NoneIsNoDraft, NEW k \in Made, Approve(k)
    PROVE  DraftsInv'
<1> DEFINE old == drafts[k]
           n   == Len(posted)
           new == [values |-> old.values, status |-> "posted",
                   tx |-> n + 1, edited |-> old.edited]
<1>1. IsDraft(old) /\ k \in Keys /\ DOMAIN drafts = Keys
  BY DEF DraftsInv, DraftsTyped, Made
<1>2. [old EXCEPT !.status = "posted", !.tx = n + 1] = new
  <2> HIDE DEF old, n
  <2> QED
    BY <1>1, PostingOfADraft, Zenon
<1>3. drafts' = [drafts EXCEPT ![k] = new]
  BY <1>1, <1>2 DEF Approve
<1>4. /\ n \in Nat
      /\ \E S : posted' \in Seq(S)
      /\ Len(posted') = n + 1
      /\ \A i \in 1..n : posted'[i] = posted[i]
      /\ posted'[n + 1] = old.values
  <2>1. posted' = Append(posted, old.values)
    BY DEF Approve
  <2>2. PICK S : posted \in Seq(S)
    BY DEF DraftsInv, DraftsTyped
  <2> HIDE DEF old
  <2>3. posted \in Seq(S \cup {old.values}) /\ old.values \in S \cup {old.values}
    BY <2>2
  <2>4. posted' \in Seq(S \cup {old.values})
    BY <2>1, <2>3
  <2>5. \E T : posted' \in Seq(T)
    BY <2>4
  <2> QED
    BY <2>1, <2>3, <2>5
<1>5. old.tx = 0
  BY DEF DraftsInv, NumbersFit, Approve, Editable
<1>6. /\ IsDraft(new) /\ new.tx = n + 1 /\ new.status = "posted"
      /\ new.values = old.values
  BY DEF IsDraft
<1>7. new # None
  BY <1>6 DEF NoneIsNoDraft
<1> HIDE DEF new, old, n
<1>8. /\ DOMAIN drafts' = Keys
      /\ drafts'[k] = new
      /\ \A j \in Keys \ {k} : drafts'[j] = drafts[j]
  BY <1>1, <1>3
<1>9. Made' = Made
  BY <1>7, <1>8 DEF Made, Keys
<1>10. DraftsTyped'
  <2>1. \A j \in Made' : IsDraft(drafts'[j])
    BY <1>6, <1>8, <1>9 DEF DraftsInv, DraftsTyped, Made
  <2> QED
    BY <1>4, <1>8, <2>1 DEF DraftsTyped, Keys, Made, IsDraft
<1>11. \A j \in Made \ {k} :
          /\ drafts'[j] = drafts[j]
          /\ drafts[j].tx \in 0..n
          /\ (drafts[j].status = "posted") <=> (drafts[j].tx # 0)
          /\ drafts[j].tx # 0 => drafts[j].values = posted[drafts[j].tx]
  BY <1>8 DEF DraftsInv, NumbersFit, Made, n
<1>12. NumbersFit'
  <2>1. ASSUME NEW j \in Made \ {k}
        PROVE  /\ drafts'[j].tx \in 0..Len(posted')
               /\ (drafts'[j].status = "posted") <=> (drafts'[j].tx # 0)
               /\ drafts'[j].tx # 0 => drafts'[j].values = posted'[drafts'[j].tx]
    BY <1>4, <1>11
  <2>2. /\ drafts'[k].tx \in 0..Len(posted')
        /\ (drafts'[k].status = "posted") <=> (drafts'[k].tx # 0)
        /\ drafts'[k].tx # 0 => drafts'[k].values = posted'[drafts'[k].tx]
    BY <1>4, <1>6, <1>8
  <2> QED
    BY <1>9, <2>1, <2>2 DEF NumbersFit
<1>13. NumbersAreUsedOnce'
  <2>1. \A i, j \in Made : drafts'[i].tx = drafts'[j].tx /\ drafts'[j].tx # 0 => i = j
    BY <1>4, <1>6, <1>8, <1>11 DEF DraftsInv, NumbersAreUsedOnce
  <2>2. ASSUME NEW i \in 1..n
        PROVE  \E j \in Made : drafts'[j].tx = i
    <3>1. PICK j \in Made : drafts[j].tx = i
      BY DEF DraftsInv, NumbersAreUsedOnce, n
    <3>2. j # k
      BY <1>4, <1>5, <3>1 DEF old
    <3> QED
      BY <1>11, <3>1, <3>2
  <2>3. \E j \in Made : drafts'[j].tx = n + 1
    BY <1>6, <1>8
  <2>4. \A i \in 1..Len(posted') : i \in 1..n \/ i = n + 1
    BY <1>4
  <2> QED
    BY <1>9, <2>1, <2>2, <2>3, <2>4 DEF NumbersAreUsedOnce
<1>14. FormIsOfADraft'
  BY <1>9 DEF DraftsInv, FormIsOfADraft, Approve, staffVars
<1> QED
  BY <1>10, <1>12, <1>13, <1>14 DEF DraftsInv

LEMMA ServerStep ==
    ASSUME DraftsInv, NoneIsNoDraft, ServerCreates
    PROVE  DraftsInv'
<1> DEFINE k == call.collector.key
           new == NewDraft(Values(call.collector.slots))
<1>1. TableInv
  BY DEF DraftsInv, TableInv
<1>2. UNCHANGED <<posted, form>>
  BY DEF ServerCreates, staffVars
<1>3. CASE UNCHANGED drafts
  BY <1>1, <1>2, <1>3, TableUntouched DEF DraftsInv, TableInv, FormIsOfADraft
<1>4. CASE ~UNCHANGED drafts
  <2>1. drafts' = [drafts EXCEPT ![k] = new] /\ k \notin Made
    BY <1>4 DEF ServerCreates
  <2>2. IsDraft(new) /\ new.tx = 0 /\ new.status # "posted"
    BY DEF NewDraft, IsDraft, DraftStatus
  <2> HIDE DEF k, new
  <2>3. CASE k \in Keys
    <3>1. TableInv' /\ Made' = Made \cup {k}
      BY <1>1, <1>2, <2>1, <2>2, <2>3, UnpostedWrite
    <3> QED
      BY <1>2, <3>1 DEF DraftsInv, TableInv, FormIsOfADraft
  <2>4. CASE k \notin Keys
    <3>1. TableInv' /\ Made' = Made
      <4>1. DOMAIN drafts' = Keys /\ \A j \in Keys : drafts'[j] = drafts[j]
        BY <1>1, <2>1, <2>4 DEF TableInv, DraftsTyped
      <4>2. Made' = Made
        BY <4>1 DEF Made, Keys
      <4>3. \A j \in Made : drafts'[j] = drafts[j]
        BY <4>1 DEF Made
      <4>4. DraftsTyped'
        <5>1. \A j \in Made' : IsDraft(drafts'[j])
          BY <1>1, <4>2, <4>3 DEF TableInv, DraftsTyped
        <5> QED
          BY <1>1, <1>2, <4>1, <5>1 DEF TableInv, DraftsTyped, Keys, Made, IsDraft
      <4>5. NumbersFit'
        BY <1>1, <1>2, <4>2, <4>3 DEF TableInv, NumbersFit
      <4>6. NumbersAreUsedOnce'
        <5>1. \A i, j \in Made : drafts'[i].tx = drafts'[j].tx /\ drafts'[j].tx # 0 => i = j
          BY <1>1, <4>3 DEF TableInv, NumbersAreUsedOnce
        <5>2. \A i \in 1..Len(posted) : \E j \in Made : drafts'[j].tx = i
          BY <1>1, <4>3 DEF TableInv, NumbersAreUsedOnce
        <5> QED
          BY <1>2, <4>2, <5>1, <5>2 DEF NumbersAreUsedOnce
      <4> QED
        BY <4>2, <4>4, <4>5, <4>6 DEF TableInv
    <3> QED
      BY <1>2, <3>1 DEF DraftsInv, TableInv, FormIsOfADraft
  <2> QED
    BY <2>3, <2>4
<1> QED
  BY <1>3, <1>4

(* Every other step leaves drafts and ledger alone, and opens at most a     *)
(* form on a draft there is.                                                *)
LEMMA OtherStep ==
    ASSUME DraftsInv, UNCHANGED <<drafts, posted>>,
           UNCHANGED form \/ \E k \in Made : form' = [draft |-> k, values |-> drafts[k].values]
    PROVE  DraftsInv'
<1>1. TableInv' /\ Made' = Made
  BY TableUntouched DEF DraftsInv, TableInv
<1>2. FormIsOfADraft'
  BY <1>1 DEF DraftsInv, FormIsOfADraft
<1> QED
  BY <1>1, <1>2 DEF DraftsInv, TableInv

LEMMA InitInv ==
    ASSUME Init
    PROVE  DraftsInv
<1>1. DOMAIN drafts = Keys /\ Made = {}
  BY DEF Init, Made
<1>2. posted = <<>> /\ posted \in Seq({}) /\ Len(posted) = 0
  BY DEF Init
<1> QED
  BY <1>1, <1>2 DEF DraftsInv, DraftsTyped, NumbersFit, NumbersAreUsedOnce,
                    FormIsOfADraft, Init

LEMMA NextInv ==
    ASSUME DraftsInv, NoneIsNoDraft, [Next]_vars
    PROVE  DraftsInv'
<1>1. CASE UNCHANGED vars
  BY <1>1, OtherStep DEF vars, staffVars
<1>2. CASE ServerCreates
  BY <1>2, ServerStep
<1>3. ASSUME NEW t \in Texts, Send(t) \/ SendToCash(t) \/ SendLost(t)
      PROVE  DraftsInv'
  <2>1. UNCHANGED <<drafts, posted, form>>
    BY <1>3, Zenon DEF Send, SendToCash, SendLost, staffVars
  <2> QED
    BY <2>1, OtherStep
<1>4. CASE LeaveCash \/ RecordCash \/ StartAgain \/ PressCreate \/ AnswerCreated \/ CreateFails
  <2>1. UNCHANGED <<drafts, posted, form>>
    BY <1>4, Zenon DEF LeaveCash, RecordCash, StartAgain, PressCreate, AnswerCreated, CreateFails, staffVars
  <2> QED
    BY <2>1, OtherStep
<1>5. CASE OpenTab \/ HistoryArrives
  <2>1. UNCHANGED <<drafts, posted, form>>
    BY <1>5, Zenon DEF OpenTab, HistoryArrives, staffVars
  <2> QED
    BY <2>1, OtherStep
<1>6. ASSUME NEW k \in Made, OpenForm(k)
      PROVE  DraftsInv'
  BY <1>6, OtherStep DEF OpenForm
<1>7. ASSUME NEW k \in Made, Reject(k)
      PROVE  DraftsInv'
  BY <1>7, RejectStep
<1>8. ASSUME NEW k \in Made, Approve(k)
      PROVE  DraftsInv'
  BY <1>8, ApproveStep
<1>9. ASSUME form # None, NEW values \in EditorValues, SubmitForm(values)
      PROVE  DraftsInv'
  BY <1>9, SubmitStep
<1> QED
  BY <1>1, <1>2, <1>3, <1>4, <1>5, <1>6, <1>7, <1>8, <1>9
     DEF Next, ChatStep, StaffStep

LEMMA DraftsInvHolds ==
    ASSUME NoneIsNoDraft
    PROVE  Spec => []DraftsInv
<1>1. Init => DraftsInv
  BY InitInv
<1>2. DraftsInv /\ [Next]_vars => DraftsInv'
  BY NextInv
<1> QED
  BY <1>1, <1>2, PTL DEF Spec

LEMMA NumberedDraftsStay ==
    ASSUME DraftsInv
    PROVE  PostedDraftsStay
<1>1. DOMAIN posted = 1..Len(posted)
  BY Indexed DEF DraftsInv, DraftsTyped
<1>2. ASSUME NEW i \in 1..Len(posted)
      PROVE  \E k \in Made : /\ {j \in Made : drafts[j].tx = i} = {k}
                             /\ drafts[k].status = "posted"
                             /\ drafts[k].values = posted[i]
  <2>1. PICK k \in Made : drafts[k].tx = i
    BY DEF DraftsInv, NumbersAreUsedOnce
  <2>2. drafts[k].tx # 0
    BY <2>1, Indexed DEF DraftsInv, DraftsTyped
  <2>3. {j \in Made : drafts[j].tx = i} = {k}
    BY <2>1, <2>2 DEF DraftsInv, NumbersAreUsedOnce
  <2> QED
    BY <2>1, <2>2, <2>3 DEF DraftsInv, NumbersFit
<1> QED
  BY <1>1, <1>2 DEF PostedDraftsStay

(* Every posted transaction is that of exactly one draft, which stays posted *)
(* with the values that were approved: edit forms opened earlier, calls sent *)
(* again and late rejections change neither (20260918090000, approve and     *)
(* reject; updateAgentTransactionDraft).                                    *)
THEOREM PostedDraftsNeverChange ==
    ASSUME NoneIsNoDraft
    PROVE  Spec => []PostedDraftsStay
<1>1. DraftsInv => PostedDraftsStay
  BY NumberedDraftsStay
<1> QED
  BY <1>1, DraftsInvHolds, PTL

-----------------------------------------------------------------------------
(* None is not a draft, a call or a conversation.                          *)
NoneIsApart ==
    /\ NoneIsNoDraft
    /\ \A c, a : [collector |-> c, at |-> a] # None
    /\ None \notin Seq(Texts)

-----------------------------------------------------------------------------
(* Keys are drawn in order, and drafts are made under keys that were drawn.  *)
KeysFit ==
    /\ keys \in Keys
    /\ collector.key \in 1..keys
    /\ Made \subseteq 1..keys

CollectorFits == CollectorOK(collector) /\ saved \in Seq(Texts)

(* The collector of a call is one that was reviewed.                       *)
CallFits ==
    call # None =>
        /\ \E c, a : call = [collector |-> c, at |-> a]
        /\ call.at = "made" => call.collector.key \in Made
        /\ call.collector.key \in 1..keys
        /\ CollectorOK(call.collector)
        /\ call.collector.prompt.kind = "ready"

CreatedFits == created # 0 => created = collector.key /\ created \in Made

(* An unedited draft has a value for every field that was asked for.        *)
DraftsReviewed ==
    \A k \in Made :
        /\ drafts[k].status \in Editable \cup {"rejected", "posted"}
        /\ ~drafts[k].edited =>
               \A f \in Fields : /\ drafts[k].values[f] # None
                                 /\ drafts[k].values[f] = Null => f \in Optional

SameMaterial(values, slots) == \A f \in MaterialFields : values[f] = slots[f].value

(* A draft holds what the collector of its key shows, or the key is one that *)
(* was kept over a change.                                                 *)
KeyOfTheTab ==
    /\ collector.key \in Made \ unasked
    /\ ~drafts[collector.key].edited
    => SameMaterial(drafts[collector.key].values, collector.slots)

KeyOfTheCall ==
    /\ call # None
    /\ call.collector.key \in Made \ unasked
    /\ ~drafts[call.collector.key].edited
    => SameMaterial(drafts[call.collector.key].values, call.collector.slots)

TabAndCall ==
    /\ call # None
    /\ call.collector.key = collector.key
    /\ collector.key \notin unasked
    => SameMaterial(Values(call.collector.slots), collector.slots)

(* What the saved texts lead to.                                           *)
Remembered == Replay(saved, 1, 1, Suggested)

Reloads ==
    /\ listing # None => listing \in Seq(Texts)
    /\ ~apart /\ listing # None =>
           listing = saved /\ collector.prompt.kind = "talk" /\ call = None
    /\ ~apart /\ listing = None => Alike(collector, Remembered)
    /\ ~apart /\ call # None => Alike(call.collector, Remembered)

ConversationInv ==
    /\ KeysFit /\ CollectorFits /\ CallFits /\ CreatedFits /\ DraftsReviewed
    /\ KeyOfTheTab /\ KeyOfTheCall /\ TabAndCall
    /\ Reloads

-----------------------------------------------------------------------------
LEMMA MadeKept ==
    ASSUME UNCHANGED drafts
    PROVE  Made' = Made
BY DEF Made, Keys

LEMMA InitConversation ==
    ASSUME Init
    PROVE  ConversationInv
<1>1. Made = {}
  BY DEF Init, Made
<1>2. CollectorOK(collector) /\ collector.key = 1
  BY SuggestOK DEF Init
<1>3. KeysFit
  BY <1>1, <1>2, DraftAssumption DEF Init, KeysFit, Keys
<1>4. CollectorFits
  BY <1>2 DEF Init, CollectorFits
<1>5. CallFits /\ CreatedFits /\ KeyOfTheCall /\ TabAndCall
  BY DEF Init, CallFits, CreatedFits, KeyOfTheCall, TabAndCall
<1>6. DraftsReviewed /\ KeyOfTheTab
  BY <1>1 DEF DraftsReviewed, KeyOfTheTab
<1>7. Reloads
  <2>1. Replay(<<>>, 1, 1, Suggested) = Suggest(NewCollector(1), Suggested)
    BY ReplayNothing
  <2>2. Alike(collector, Remembered)
    BY <2>1, SuggestAlike DEF Init, Remembered
  <2> QED
    BY <2>2 DEF Init, Reloads
<1> QED
  BY <1>3, <1>4, <1>5, <1>6, <1>7 DEF ConversationInv

(* A text: the collector keeps its key or takes one that has no draft yet.   *)
LEMMA SendConversation ==
    ASSUME ConversationInv, NEW t \in Texts, Send(t)
    PROVE  ConversationInv'
<1> DEFINE next == Say(collector, t, keys + 1)
<1>0. /\ call = None /\ call' = None /\ created = 0 /\ created' = 0
      /\ next.key \in Keys /\ collector' = next
      /\ saved' = Append(saved, t)
      /\ listing' \in {listing, None}
      /\ keys' = IF next.key > keys THEN next.key ELSE keys
      /\ apart' = (apart \/ listing # None)
      /\ unasked' = unasked \cup KeptKey(collector, next, t)
      /\ UNCHANGED drafts
  BY DEF Send, Free, Saving
<1>1. /\ CollectorOK(collector) /\ saved \in Seq(Texts)
      /\ keys \in Keys /\ collector.key \in 1..keys /\ Made \subseteq 1..keys
  BY DEF ConversationInv, CollectorFits, KeysFit
<1>2. CollectorOK(next) /\ next.key \in {collector.key, keys + 1}
  BY <1>1, SayOK
<1>3. Made' = Made
  BY <1>0, MadeKept
<1> HIDE DEF next
<1>4. NumKeys \in Nat /\ keys \in Nat
  BY <1>1, DraftAssumption DEF Keys
<1>5. KeysFit'
  BY <1>0, <1>1, <1>2, <1>3, <1>4 DEF KeysFit, Keys
<1>6. CollectorFits'
  BY <1>0, <1>1, <1>2 DEF CollectorFits
<1>7. CallFits' /\ CreatedFits' /\ KeyOfTheCall' /\ TabAndCall'
  BY <1>0 DEF CallFits, CreatedFits, KeyOfTheCall, TabAndCall
<1>8. DraftsReviewed'
  BY <1>0, <1>3 DEF ConversationInv, DraftsReviewed
<1>9. KeyOfTheTab'
  <2> SUFFICES ASSUME next.key \in Made, next.key \notin unasked',
                      ~drafts[next.key].edited
               PROVE  SameMaterial(drafts[next.key].values, next.slots)
    BY <1>0, <1>3 DEF KeyOfTheTab, SameMaterial
  <2>1. next.key = collector.key
    BY <1>1, <1>2, <1>4
  <2>2. SameMaterial(drafts[next.key].values, collector.slots)
    BY <1>0, <2>1 DEF ConversationInv, KeyOfTheTab
  <2>3. next.key \notin KeptKey(collector, next, t)
    BY <1>0
  <2>4. \/ Values(next.slots) = Values(collector.slots)
        \/ t.kind = "correction" /\ Picked(collector, t) = 0
    BY <2>1, <2>3 DEF KeptKey
  <2>5. \A f \in MaterialFields : next.slots[f].value = collector.slots[f].value
    <3>1. CASE Values(next.slots) = Values(collector.slots)
      <4>1. \A f \in SlotNames : Values(next.slots)[f] = next.slots[f].value
                                 /\ Values(collector.slots)[f] = collector.slots[f].value
        BY DEF Values
      <4>2. MaterialFields \subseteq SlotNames
        BY DEF MaterialFields, SlotNames
      <4> QED
        BY <3>1, <4>1, <4>2
    <3>2. CASE t.kind = "correction" /\ Picked(collector, t) = 0
      BY <1>1, <1>4, <2>1, <3>2, SayCorrects DEF next
    <3> QED
      BY <2>4, <3>1, <3>2
  <2> QED
    BY <2>2, <2>5 DEF SameMaterial
<1>10. Reloads'
  <2>1. /\ listing # None => listing \in Seq(Texts)
        /\ ~apart /\ listing = None => Alike(collector, Remembered)
    BY DEF ConversationInv, Reloads
  <2>2. ~apart' => listing = None /\ listing' = None /\ ~apart
    BY <1>0
  <2>3. ASSUME ~apart'
        PROVE  Alike(next, Replay(saved', 1, 1, Suggested))
    <3> DEFINE before == Replay(saved, 1, 1, Suggested)
    <3>1. Replay(saved', 1, 1, Suggested) = Say(before, t, 1)
      BY <1>0, <1>1, ReplayStep
    <3>2. Alike(collector, before)
      BY <2>1, <2>2, <2>3 DEF Remembered
    <3> HIDE DEF before
    <3>3. Alike(next, Say(before, t, 1))
      BY <1>1, <3>2, SayAlike DEF next
    <3> QED
      BY <3>1, <3>3
  <2> QED
    BY <1>0, <2>1, <2>2, <2>3 DEF Reloads, Remembered, Replay, Suggest, NewCollector
<1> QED
  BY <1>5, <1>6, <1>7, <1>8, <1>9, <1>10 DEF ConversationInv

(* A step that leaves the tab, its keys and the drafts alone.               *)
LEMMA LostConversation ==
    ASSUME ConversationInv, NEW t \in Texts, SendLost(t) \/ SendToCash(t)
    PROVE  ConversationInv'
<1>0. /\ saved' = Append(saved, t) /\ apart' = TRUE
      /\ UNCHANGED <<collector, created, call, listing, keys, drafts, unasked>>
  BY DEF SendLost, SendToCash, Saving
<1>1. Made' = Made
  BY <1>0, MadeKept
<1>2. KeysFit' /\ CollectorFits' /\ CallFits' /\ CreatedFits'
  BY <1>0, <1>1 DEF ConversationInv, KeysFit, CollectorFits, CallFits, CreatedFits, Keys
<1>3. DraftsReviewed' /\ KeyOfTheTab' /\ KeyOfTheCall' /\ TabAndCall'
  BY <1>0, <1>1 DEF ConversationInv, DraftsReviewed, KeyOfTheTab, KeyOfTheCall, TabAndCall,
                    SameMaterial, Values
<1>4. Reloads'
  BY <1>0 DEF ConversationInv, Reloads
<1> QED
  BY <1>2, <1>3, <1>4 DEF ConversationInv

(* A collector of its own, under a key that has no draft.                   *)
LEMMA FreshConversation ==
    ASSUME ConversationInv, keys < NumKeys, keys' = keys + 1,
           collector' = NewCollector(keys + 1), call' = None, created' = 0,
           UNCHANGED <<saved, drafts, unasked>>
    PROVE  /\ KeysFit' /\ CollectorFits' /\ CallFits' /\ CreatedFits'
           /\ DraftsReviewed' /\ KeyOfTheTab' /\ KeyOfTheCall' /\ TabAndCall'
           /\ collector'.prompt.kind = "talk"
<1>0. Made' = Made
  BY MadeKept
<1>1. /\ saved \in Seq(Texts) /\ keys \in Keys /\ Made \subseteq 1..keys
  BY DEF ConversationInv, CollectorFits, KeysFit
<1>2. NumKeys \in Nat /\ keys \in Nat
  BY <1>1, DraftAssumption DEF Keys
<1>3. CollectorOK(collector') /\ collector'.key = keys + 1
  BY NewOK
<1>4. collector'.prompt.kind = "talk"
  BY DEF NewCollector, Plain
<1>5. KeysFit'
  BY <1>0, <1>1, <1>2, <1>3 DEF KeysFit, Keys
<1>6. CollectorFits'
  BY <1>1, <1>3 DEF CollectorFits
<1>7. CallFits' /\ CreatedFits' /\ KeyOfTheCall' /\ TabAndCall'
  BY DEF CallFits, CreatedFits, KeyOfTheCall, TabAndCall
<1>8. DraftsReviewed'
  BY <1>0 DEF ConversationInv, DraftsReviewed
<1>9. KeyOfTheTab'
  <2>1. collector'.key \notin Made'
    BY <1>0, <1>1, <1>2, <1>3
  <2> QED
    BY <2>1 DEF KeyOfTheTab
<1> QED
  BY <1>4, <1>5, <1>6, <1>7, <1>8, <1>9

LEMMA StartConversation ==
    ASSUME ConversationInv, StartAgain
    PROVE  ConversationInv'
<1>1. /\ keys < NumKeys /\ keys' = keys + 1 /\ collector' = NewCollector(keys + 1)
      /\ call' = None /\ created' = 0 /\ apart' = TRUE
      /\ UNCHANGED <<saved, drafts, unasked, listing>>
  BY DEF StartAgain, Free
<1>2. /\ KeysFit' /\ CollectorFits' /\ CallFits' /\ CreatedFits'
      /\ DraftsReviewed' /\ KeyOfTheTab' /\ KeyOfTheCall' /\ TabAndCall'
  BY <1>1, FreshConversation
<1>3. Reloads'
  BY <1>1 DEF ConversationInv, Reloads
<1> QED
  BY <1>2, <1>3 DEF ConversationInv

LEMMA OpenConversation ==
    ASSUME ConversationInv, NoneIsApart, OpenTab
    PROVE  ConversationInv'
<1>1. /\ keys < NumKeys /\ keys' = keys + 1 /\ collector' = NewCollector(keys + 1)
      /\ call' = None /\ created' = 0 /\ listing' = saved
      /\ UNCHANGED <<saved, drafts, unasked>>
  BY DEF OpenTab
<1>2. /\ KeysFit' /\ CollectorFits' /\ CallFits' /\ CreatedFits'
      /\ DraftsReviewed' /\ KeyOfTheTab' /\ KeyOfTheCall' /\ TabAndCall'
      /\ collector'.prompt.kind = "talk"
  BY <1>1, FreshConversation
<1>3. saved \in Seq(Texts) /\ saved # None
  BY DEF ConversationInv, CollectorFits, NoneIsApart
<1>4. Reloads'
  BY <1>1, <1>2, <1>3 DEF Reloads
<1> QED
  BY <1>2, <1>4 DEF ConversationInv

LEMMA PressConversation ==
    ASSUME ConversationInv, NoneIsApart, PressCreate
    PROVE  ConversationInv'
<1>0. /\ call = None /\ created = 0 /\ collector.prompt.kind = "ready"
      /\ call' = [collector |-> collector, at |-> "sent"]
      /\ UNCHANGED <<collector, created, listing, saved, keys, drafts, apart, unasked>>
  BY DEF PressCreate, Free
<1>1. Made' = Made
  BY <1>0, MadeKept
<1>2. call'.collector = collector /\ call'.at = "sent" /\ call' # None
  BY <1>0 DEF NoneIsApart
<1>3. KeysFit' /\ CollectorFits' /\ CreatedFits'
  BY <1>0, <1>1 DEF ConversationInv, KeysFit, CollectorFits, CreatedFits, Keys
<1>4. CallFits'
  <2>1. \E c, a : call' = [collector |-> c, at |-> a]
    BY <1>0
  <2>2. CollectorOK(collector) /\ collector.key \in 1..keys
    BY DEF ConversationInv, CollectorFits, KeysFit
  <2> QED
    BY <1>0, <1>2, <2>1, <2>2 DEF CallFits
<1>5. DraftsReviewed' /\ KeyOfTheTab'
  BY <1>0, <1>1 DEF ConversationInv, DraftsReviewed, KeyOfTheTab, SameMaterial
<1>6. KeyOfTheCall'
  BY <1>0, <1>1, <1>2 DEF ConversationInv, KeyOfTheTab, KeyOfTheCall, SameMaterial
<1>7. TabAndCall'
  <2>1. SameMaterial(Values(collector.slots), collector.slots)
    BY DEF SameMaterial, Values, MaterialFields, SlotNames
  <2> QED
    BY <1>0, <1>2, <2>1 DEF TabAndCall
<1>8. Reloads'
  <2>1. Reloads
    BY DEF ConversationInv
  <2>2. ~apart => listing = None
    BY <1>0, <2>1 DEF Reloads
  <2>3. Remembered' = Remembered
    BY <1>0 DEF Remembered
  <2> QED
    BY <1>0, <1>2, <2>1, <2>2, <2>3 DEF Reloads
<1> QED
  BY <1>3, <1>4, <1>5, <1>6, <1>7, <1>8 DEF ConversationInv

(* The answer brings back the collector the draft was made from.            *)
LEMMA AnswerConversation ==
    ASSUME ConversationInv, AnswerCreated
    PROVE  ConversationInv'
<1>0. /\ call # None /\ call.at = "made" /\ collector' = call.collector
      /\ created' = call.collector.key /\ call' = None
      /\ UNCHANGED <<listing, saved, keys, drafts, apart, unasked>>
  BY DEF AnswerCreated
<1>1. Made' = Made
  BY <1>0, MadeKept
<1>2. /\ call.collector.key \in Made /\ call.collector.key \in 1..keys
      /\ CollectorOK(call.collector)
  BY <1>0 DEF ConversationInv, CallFits
<1>3. KeysFit' /\ CollectorFits' /\ CreatedFits'
  BY <1>0, <1>1, <1>2 DEF ConversationInv, KeysFit, CollectorFits, CreatedFits, Keys
<1>4. CallFits' /\ KeyOfTheCall' /\ TabAndCall'
  BY <1>0 DEF CallFits, KeyOfTheCall, TabAndCall
<1>5. DraftsReviewed' /\ KeyOfTheTab'
  BY <1>0, <1>1 DEF ConversationInv, DraftsReviewed, KeyOfTheTab, KeyOfTheCall, SameMaterial
<1>6. Reloads'
  <2>1. Reloads
    BY DEF ConversationInv
  <2>2. Remembered' = Remembered
    BY <1>0 DEF Remembered
  <2> QED
    BY <1>0, <2>1, <2>2 DEF Reloads
<1> QED
  BY <1>3, <1>4, <1>5, <1>6 DEF ConversationInv

LEMMA FailConversation ==
    ASSUME ConversationInv, CreateFails
    PROVE  ConversationInv'
<1>0. /\ call' = None
      /\ UNCHANGED <<collector, created, listing, saved, keys, drafts, apart, unasked>>
  BY DEF CreateFails
<1>1. Made' = Made
  BY <1>0, MadeKept
<1>2. KeysFit' /\ CollectorFits' /\ CreatedFits'
  BY <1>0, <1>1 DEF ConversationInv, KeysFit, CollectorFits, CreatedFits, Keys
<1>3. CallFits' /\ KeyOfTheCall' /\ TabAndCall'
  BY <1>0 DEF CallFits, KeyOfTheCall, TabAndCall
<1>4. DraftsReviewed' /\ KeyOfTheTab'
  BY <1>0, <1>1 DEF ConversationInv, DraftsReviewed, KeyOfTheTab, SameMaterial
<1>5. Reloads'
  <2>1. Reloads
    BY DEF ConversationInv
  <2>2. Remembered' = Remembered
    BY <1>0 DEF Remembered
  <2> QED
    BY <1>0, <2>1, <2>2 DEF Reloads
<1> QED
  BY <1>2, <1>3, <1>4, <1>5 DEF ConversationInv

(* The history replaces the collector under the key of the tab.             *)
LEMMA HistoryConversation ==
    ASSUME ConversationInv, HistoryArrives
    PROVE  ConversationInv'
<1> DEFINE again == Rebuilt(listing, collector.key)
<1>0. /\ listing # None /\ again.key \in Keys /\ collector' = again
      /\ created' = 0 /\ listing' = None
      /\ keys' = IF again.key > keys THEN again.key ELSE keys
      /\ unasked' = unasked \cup ({again.key} \cap (Made \cup InFlight))
      /\ UNCHANGED <<call, saved, drafts, apart>>
  BY DEF HistoryArrives
<1>1. /\ keys \in Keys /\ collector.key \in 1..keys /\ Made \subseteq 1..keys
      /\ saved \in Seq(Texts) /\ listing \in Seq(Texts)
  BY <1>0 DEF ConversationInv, KeysFit, CollectorFits, Reloads
<1>2. CollectorOK(again) /\ again.key \in {collector.key, keys + 1}
  BY <1>1, ReplayOK DEF Rebuilt
<1>3. Alike(again, Replay(listing, 1, 1, Suggested))
  BY <1>1, ReplayAlike DEF Rebuilt
<1>4. Made' = Made
  BY <1>0, MadeKept
<1> HIDE DEF again
<1>5. NumKeys \in Nat /\ keys \in Nat
  BY <1>1, DraftAssumption DEF Keys
<1>6. KeysFit' /\ keys <= keys'
  BY <1>0, <1>1, <1>2, <1>4, <1>5 DEF KeysFit, Keys
<1>7. CollectorFits' /\ CreatedFits'
  BY <1>0, <1>1, <1>2 DEF CollectorFits, CreatedFits
<1>8. CallFits'
  <2>1. CallFits
    BY DEF ConversationInv
  <2>2. call # None => call.collector.key \in 1..keys'
    <3>1. keys' \in Nat
      BY <1>5, <1>6, DraftAssumption DEF KeysFit, Keys
    <3>2. 1..keys \subseteq 1..keys'
      BY <1>5, <1>6, <3>1
    <3> QED
      BY <2>1, <3>2 DEF CallFits
  <2> QED
    BY <1>0, <1>4, <2>1, <2>2 DEF CallFits
<1>9. DraftsReviewed'
  BY <1>0, <1>4 DEF ConversationInv, DraftsReviewed
<1>10. KeyOfTheTab'
  BY <1>0, <1>4 DEF KeyOfTheTab
<1>11. KeyOfTheCall'
  BY <1>0, <1>4 DEF ConversationInv, KeyOfTheCall, SameMaterial
<1>12. TabAndCall'
  <2>1. call # None => InFlight = {call.collector.key}
    BY DEF InFlight
  <2> QED
    BY <1>0, <2>1 DEF TabAndCall
<1>13. Reloads'
  <2>1. Reloads
    BY DEF ConversationInv
  <2>2. Remembered' = Remembered
    BY <1>0 DEF Remembered
  <2>3. ~apart => Alike(again, Remembered)
    BY <1>0, <1>3, <2>1 DEF Reloads, Remembered
  <2> QED
    BY <1>0, <2>1, <2>2, <2>3 DEF Reloads
<1> QED
  BY <1>6, <1>7, <1>8, <1>9, <1>10, <1>11, <1>12, <1>13 DEF ConversationInv

(* The draft made by a call has the values of a collector that was complete. *)
LEMMA ReviewedValues ==
    ASSUME NEW c, CollectorOK(c), c.prompt.kind = "ready"
    PROVE  \A f \in Fields : /\ Values(c.slots)[f] # None
                             /\ Values(c.slots)[f] = Null => f \in Optional
<1>1. \A f \in Fields : f \in SlotNames /\ SlotReady(c.slots[f])
  BY DEF CollectorOK, PromptOK, SlotNames
<1>2. \A f \in SlotNames : Values(c.slots)[f] = c.slots[f].value
  BY DEF Values
<1> QED
  BY <1>1, <1>2 DEF CollectorOK, SlotsOK

LEMMA ServerConversation ==
    ASSUME ConversationInv, DraftsInv, NoneIsApart, ServerCreates
    PROVE  ConversationInv'
<1> DEFINE c == call.collector
           k == call.collector.key
           new == NewDraft(Values(c.slots))
<1>0. /\ call # None /\ call.at = "sent"
      /\ drafts' = IF k \in Made THEN drafts ELSE [drafts EXCEPT ![k] = new]
      /\ call' = [call EXCEPT !.at = "made"]
      /\ UNCHANGED <<collector, created, listing, saved, keys, apart, unasked>>
  BY DEF ServerCreates
<1>1. /\ CollectorOK(c) /\ c.prompt.kind = "ready" /\ k \in 1..keys
      /\ \E x, a : call = [collector |-> x, at |-> a]
  BY <1>0 DEF ConversationInv, CallFits
<1>2. call' = [collector |-> c, at |-> "made"] /\ call' # None
  <2>1. PICK x, a : call = [collector |-> x, at |-> a]
    BY <1>1
  <2>2. call' = [collector |-> c, at |-> "made"]
    BY <1>0, <2>1
  <2> QED
    BY <2>2 DEF NoneIsApart
<1>3. keys \in Keys /\ k \in Keys /\ Made \subseteq 1..keys
  BY <1>1, DraftAssumption DEF ConversationInv, KeysFit, Keys
<1>4. /\ new.values = Values(c.slots) /\ new.status \in {"draft", "needs_review"}
      /\ new.edited = FALSE
  BY DEF NewDraft, DraftStatus
<1>5. new # None
  BY DEF NewDraft, IsDraft, NoneIsApart, NoneIsNoDraft
<1>6. DOMAIN drafts = Keys
  BY DEF DraftsInv, DraftsTyped
<1> HIDE DEF new, k
<1>7. /\ \A j \in Keys : drafts'[j] = IF j = k /\ k \notin Made THEN new ELSE drafts[j]
      /\ DOMAIN drafts' = Keys
  BY <1>0, <1>3, <1>6
<1>8. Made' = Made \cup {k}
  BY <1>3, <1>5, <1>7 DEF Made, Keys
<1>a. /\ call'.collector = c /\ call'.at = "made"
  BY <1>2
<1> HIDE DEF c
<1>9. KeysFit' /\ CollectorFits' /\ CreatedFits'
  BY <1>0, <1>1, <1>8 DEF ConversationInv, KeysFit, CollectorFits, CreatedFits, Keys, k, c
<1>10. CallFits'
  <2>1. \E x, a : call' = [collector |-> x, at |-> a]
    BY <1>2
  <2> QED
    BY <1>0, <1>1, <1>8, <1>a, <2>1 DEF CallFits, k, c
<1>11. DraftsReviewed'
  <2>1. ASSUME NEW j \in Made'
        PROVE  /\ drafts'[j].status \in Editable \cup {"rejected", "posted"}
               /\ ~drafts'[j].edited =>
                      \A f \in Fields : /\ drafts'[j].values[f] # None
                                        /\ drafts'[j].values[f] = Null => f \in Optional
    <3>1. CASE j \in Made
      <4>1. drafts'[j] = drafts[j]
        BY <1>7, <3>1 DEF Made
      <4> QED
        BY <3>1, <4>1 DEF ConversationInv, DraftsReviewed
    <3>2. CASE j \notin Made
      <4>1. drafts'[j] = new
        BY <1>3, <1>7, <1>8, <3>2
      <4> QED
        BY <1>1, <1>4, <4>1, ReviewedValues DEF Editable
    <3> QED
      BY <3>1, <3>2
  <2> QED
    BY <2>1 DEF DraftsReviewed
<1>12. ASSUME k \notin Made
       PROVE  drafts'[k].values = Values(c.slots)
  BY <1>3, <1>4, <1>7, <1>12
<1>13. \A j \in Made : drafts'[j] = drafts[j]
  BY <1>7 DEF Made
<1>14. \A f \in MaterialFields : Values(c.slots)[f] = c.slots[f].value
  BY DEF Values, MaterialFields, SlotNames
<1>15. KeyOfTheTab'
  <2>1. CASE collector.key \in Made
    BY <1>0, <1>13, <2>1 DEF ConversationInv, KeyOfTheTab, SameMaterial
  <2>2. CASE collector.key \notin Made
    <3> SUFFICES ASSUME collector.key \in Made', collector.key \notin unasked
                 PROVE  SameMaterial(drafts'[collector.key].values, collector.slots)
      BY <1>0 DEF KeyOfTheTab, SameMaterial
    <3>1. collector.key = k
      BY <1>8, <2>2
    <3>2. SameMaterial(Values(c.slots), collector.slots)
      BY <1>0, <3>1 DEF ConversationInv, TabAndCall, k, c
    <3> QED
      BY <1>12, <2>2, <3>1, <3>2
  <2> QED
    BY <2>1, <2>2
<1>16. KeyOfTheCall'
  <2>1. CASE k \in Made
    BY <1>0, <1>13, <1>a, <2>1 DEF ConversationInv, KeyOfTheCall, SameMaterial, k, c
  <2>2. CASE k \notin Made
    <3>1. \A f \in MaterialFields : drafts'[k].values[f] = c.slots[f].value
      BY <1>12, <1>14, <2>2
    <3> QED
      BY <1>a, <3>1 DEF KeyOfTheCall, SameMaterial, k, c
  <2> QED
    BY <2>1, <2>2
<1>17. TabAndCall'
  BY <1>0, <1>a DEF ConversationInv, TabAndCall, SameMaterial, Values, c
<1>18. Reloads'
  <2>1. Reloads
    BY DEF ConversationInv
  <2>2. Remembered' = Remembered
    BY <1>0 DEF Remembered
  <2> QED
    BY <1>0, <1>a, <2>1, <2>2 DEF Reloads, c
<1> QED
  BY <1>9, <1>10, <1>11, <1>15, <1>16, <1>17, <1>18 DEF ConversationInv

(* The inbox: a draft keeps its values until it is edited.                  *)
LEMMA InboxConversation ==
    ASSUME ConversationInv, Made' = Made,
           UNCHANGED <<collector, created, call, listing, saved, keys, apart, unasked>>,
           \A k \in Made :
               /\ drafts'[k].status \in Editable \cup {"rejected", "posted"}
               /\ ~drafts'[k].edited =>
                      ~drafts[k].edited /\ drafts'[k].values = drafts[k].values
    PROVE  ConversationInv'
<1>1. KeysFit' /\ CollectorFits' /\ CallFits' /\ CreatedFits'
  BY DEF ConversationInv, KeysFit, CollectorFits, CallFits, CreatedFits, Keys
<1>2. DraftsReviewed'
  BY DEF ConversationInv, DraftsReviewed
<1>3. KeyOfTheTab' /\ KeyOfTheCall'
  BY DEF ConversationInv, KeyOfTheTab, KeyOfTheCall, SameMaterial
<1>4. TabAndCall'
  BY DEF ConversationInv, TabAndCall, SameMaterial, Values
<1>5. Reloads'
  <2>1. Reloads
    BY DEF ConversationInv
  <2>2. Remembered' = Remembered
    BY DEF Remembered
  <2> QED
    BY <2>1, <2>2 DEF Reloads
<1> QED
  BY <1>1, <1>2, <1>3, <1>4, <1>5 DEF ConversationInv

LEMMA FormConversation ==
    ASSUME ConversationInv, NEW k \in Made, OpenForm(k)
    PROVE  ConversationInv'
<1>1. UNCHANGED <<collector, created, call, listing, saved, keys, drafts, apart, unasked>>
  BY DEF OpenForm, tabVars
<1>2. Made' = Made
  BY <1>1, MadeKept
<1>3. \A j \in Made : drafts[j].status \in Editable \cup {"rejected", "posted"}
  BY DEF ConversationInv, DraftsReviewed
<1> QED
  BY <1>1, <1>2, <1>3, InboxConversation

(* One draft is written over by another.                                    *)
LEMMA OverwriteConversation ==
    ASSUME ConversationInv, DraftsInv, NoneIsApart, NEW k \in Made, NEW d, IsDraft(d),
           drafts' = [drafts EXCEPT ![k] = d],
           d.status \in Editable \cup {"rejected", "posted"},
           ~d.edited => ~drafts[k].edited /\ d.values = drafts[k].values,
           UNCHANGED tabVars, UNCHANGED <<apart, unasked>>
    PROVE  ConversationInv'
<1>1. /\ DOMAIN drafts = Keys /\ k \in Keys /\ d # None
  BY DEF DraftsInv, DraftsTyped, Made, NoneIsApart, NoneIsNoDraft
<1>2. \A j \in Keys : drafts'[j] = IF j = k THEN d ELSE drafts[j]
  BY <1>1
<1>3. Made' = Made
  BY <1>1, <1>2 DEF Made, Keys
<1>4. \A j \in Made :
          /\ drafts'[j].status \in Editable \cup {"rejected", "posted"}
          /\ ~drafts'[j].edited =>
                 ~drafts[j].edited /\ drafts'[j].values = drafts[j].values
  BY <1>2 DEF ConversationInv, DraftsReviewed, Made
<1>5. UNCHANGED <<collector, created, call, listing, saved, keys, apart, unasked>>
  BY DEF tabVars
<1> QED
  BY <1>3, <1>4, <1>5, InboxConversation

LEMMA SubmitConversation ==
    ASSUME ConversationInv, DraftsInv, NoneIsApart, NEW values, form # None, SubmitForm(values)
    PROVE  ConversationInv'
<1>1. form.draft \in Made /\ UNCHANGED tabVars /\ UNCHANGED <<apart, unasked>>
  BY DEF DraftsInv, FormIsOfADraft, SubmitForm
<1>2. CASE UNCHANGED drafts
  <2>1. Made' = Made
    BY <1>2, MadeKept
  <2>2. \A j \in Made : drafts[j].status \in Editable \cup {"rejected", "posted"}
    BY DEF ConversationInv, DraftsReviewed
  <2>3. UNCHANGED <<collector, created, call, listing, saved, keys, apart, unasked>>
    BY <1>1 DEF tabVars
  <2> QED
    BY <1>2, <2>1, <2>2, <2>3, InboxConversation
<1>3. CASE ~UNCHANGED drafts
  <2> DEFINE old == drafts[form.draft]
             new == [values |-> values, status |-> DraftStatus(values),
                     tx |-> old.tx, edited |-> TRUE]
  <2>1. drafts' = [drafts EXCEPT ![form.draft] =
                      [@ EXCEPT !.values = values, !.status = DraftStatus(values),
                                !.edited = TRUE]]
    BY <1>3 DEF SubmitForm
  <2>2. IsDraft(old) /\ form.draft \in Keys /\ DOMAIN drafts = Keys
    BY <1>1 DEF DraftsInv, DraftsTyped, Made
  <2>3. [old EXCEPT !.values = values, !.status = DraftStatus(values),
                    !.edited = TRUE] = new
    <3> HIDE DEF old
    <3>1. \A w, t, b : [old EXCEPT !.values = w, !.status = t, !.edited = b]
                       = [values |-> w, status |-> t, tx |-> old.tx, edited |-> b]
      BY <2>2, EditOfADraft
    <3> QED
      BY <3>1, Zenon
  <2>4. drafts' = [drafts EXCEPT ![form.draft] = new]
    BY <2>1, <2>2, <2>3
  <2>5. IsDraft(new) /\ new.edited /\ new.status \in Editable
    BY DEF IsDraft, DraftStatus, Editable
  <2> HIDE DEF new
  <2> QED
    BY <1>1, <2>4, <2>5, OverwriteConversation
<1> QED
  BY <1>2, <1>3

LEMMA RejectConversation ==
    ASSUME ConversationInv, DraftsInv, NoneIsApart, NEW k \in Made, Reject(k)
    PROVE  ConversationInv'
<1> DEFINE old == drafts[k]
           new == [values |-> old.values, status |-> "rejected",
                   tx |-> old.tx, edited |-> old.edited]
<1>1. IsDraft(old) /\ k \in Keys /\ DOMAIN drafts = Keys
  BY DEF DraftsInv, DraftsTyped, Made
<1>2. [old EXCEPT !.status = "rejected"] = new
  BY <1>1 DEF IsDraft
<1>3. drafts' = [drafts EXCEPT ![k] = new]
  BY <1>1, <1>2 DEF Reject
<1>4. /\ IsDraft(new) /\ new.status = "rejected"
      /\ new.edited = old.edited /\ new.values = old.values
  BY DEF IsDraft
<1>5. UNCHANGED tabVars /\ UNCHANGED <<apart, unasked>>
  BY DEF Reject
<1> HIDE DEF new
<1> QED
  BY <1>3, <1>4, <1>5, OverwriteConversation

LEMMA ApproveConversation ==
    ASSUME ConversationInv, DraftsInv, NoneIsApart, NEW k \in Made, Approve(k)
    PROVE  ConversationInv'
<1> DEFINE old == drafts[k]
           n   == Len(posted)
           new == [values |-> old.values, status |-> "posted",
                   tx |-> n + 1, edited |-> old.edited]
<1>1. IsDraft(old) /\ k \in Keys /\ DOMAIN drafts = Keys
  BY DEF DraftsInv, DraftsTyped, Made
<1>2. [old EXCEPT !.status = "posted", !.tx = n + 1] = new
  <2> HIDE DEF old, n
  <2> QED
    BY <1>1, PostingOfADraft, Zenon
<1>3. drafts' = [drafts EXCEPT ![k] = new]
  BY <1>1, <1>2 DEF Approve
<1>4. /\ IsDraft(new) /\ new.status = "posted"
      /\ new.edited = old.edited /\ new.values = old.values
  BY DEF IsDraft
<1>5. UNCHANGED tabVars /\ UNCHANGED <<apart, unasked>>
  BY DEF Approve
<1> HIDE DEF new
<1> QED
  BY <1>3, <1>4, <1>5, OverwriteConversation

LEMMA NextConversation ==
    ASSUME ConversationInv, DraftsInv, NoneIsApart, [Next]_vars
    PROVE  ConversationInv'
<1>1. CASE UNCHANGED vars \/ LeaveCash \/ RecordCash
  <2>1. UNCHANGED <<collector, created, call, listing, saved, keys, drafts, apart, unasked>>
    BY <1>1 DEF vars, tabVars, LeaveCash, RecordCash
  <2>2. Made' = Made
    BY <2>1, MadeKept
  <2>3. \A j \in Made : drafts[j].status \in Editable \cup {"rejected", "posted"}
    BY DEF ConversationInv, DraftsReviewed
  <2> QED
    BY <2>1, <2>2, <2>3, InboxConversation
<1>2. ASSUME NEW t \in Texts, Send(t) \/ SendToCash(t) \/ SendLost(t)
      PROVE  ConversationInv'
  BY <1>2, SendConversation, LostConversation
<1>3. CASE StartAgain \/ PressCreate \/ ServerCreates \/ AnswerCreated \/ CreateFails
  BY <1>3, StartConversation, PressConversation, ServerConversation, AnswerConversation,
     FailConversation
<1>4. CASE OpenTab \/ HistoryArrives
  BY <1>4, OpenConversation, HistoryConversation
<1>5. ASSUME NEW k \in Made, OpenForm(k) \/ Reject(k) \/ Approve(k)
      PROVE  ConversationInv'
  BY <1>5, FormConversation, RejectConversation, ApproveConversation
<1>6. ASSUME form # None, NEW values \in EditorValues, SubmitForm(values)
      PROVE  ConversationInv'
  BY <1>6, SubmitConversation
<1> QED
  BY <1>1, <1>2, <1>3, <1>4, <1>5, <1>6 DEF Next, ChatStep, StaffStep

LEMMA ConversationHolds ==
    ASSUME NoneIsApart
    PROVE  Spec => [](DraftsInv /\ ConversationInv)
<1>1. NoneIsNoDraft
  BY DEF NoneIsApart
<1>2. Init => DraftsInv /\ ConversationInv
  BY InitInv, InitConversation
<1>3. DraftsInv /\ ConversationInv /\ [Next]_vars => DraftsInv' /\ ConversationInv'
  BY <1>1, NextInv, NextConversation
<1> QED
  BY <1>2, <1>3, PTL DEF Spec

-----------------------------------------------------------------------------
(* The tab, its key, its question, the drafts and the numbers of the posted  *)
(* ones have their types (AssistantChat, transactionDraftCollector).        *)
THEOREM ConversationTyped ==
    ASSUME NoneIsApart
    PROVE  Spec => []TypeOK
<1>1. DraftsInv /\ ConversationInv => TypeOK
  <2> SUFFICES ASSUME DraftsInv, ConversationInv PROVE TypeOK
    OBVIOUS
  <2>1. \A k \in Made : /\ drafts[k].status \in Editable \cup {"rejected", "posted"}
                        /\ (drafts[k].status = "posted") = (drafts[k].tx # 0)
    BY DEF DraftsInv, NumbersFit, ConversationInv, DraftsReviewed
  <2>2. /\ collector.prompt.kind \in {"talk", "unsupported", "question", "ready"}
        /\ collector.prompt.kind = "question" =>
               collector.prompt.field \in Fields \cup {"intent"}
    BY DEF ConversationInv, CollectorFits, CollectorOK, PromptOK
  <2>3. created \in {0} \cup Made
    BY DEF ConversationInv, CreatedFits
  <2> QED
    BY <2>1, <2>2, <2>3 DEF TypeOK, ConversationInv, KeysFit
<1> QED
  BY <1>1, ConversationHolds, PTL

(* A conversation opened again leads to the slots and the question of the   *)
(* tab that was moved by saved texts only: for any number of texts, and     *)
(* whatever keys the replay draws (replayUtterances, listOpsConversation).  *)
THEOREM ReviewsSurviveReload ==
    ASSUME NoneIsApart
    PROVE  Spec => []ReviewSurvivesReload
<1>1. ConversationInv => ReviewSurvivesReload
  <2> SUFFICES ASSUME ConversationInv, ~apart, listing = None
               PROVE  LET again == Rebuilt(saved, collector.key)
                      IN  /\ again.slots = collector.slots
                          /\ again.prompt = collector.prompt
    BY DEF ReviewSurvivesReload
  <2>1. Alike(collector, Remembered) /\ saved \in Seq(Texts)
    BY DEF ConversationInv, Reloads, CollectorFits
  <2>2. Alike(Rebuilt(saved, collector.key), Remembered)
    BY <2>1, ReplayAlike DEF Rebuilt, Remembered
  <2> QED
    BY <2>1, <2>2 DEF Alike
<1> QED
  BY <1>1, ConversationHolds, PTL

(* The draft a tab reports as created holds what the review showed, or its  *)
(* key is one that a change by a choice or a direct answer kept             *)
(* (applyCorrection, create_agent_transaction_draft ON CONFLICT).           *)
THEOREM CorrectionsGetTheirOwnDrafts ==
    ASSUME NoneIsApart
    PROVE  Spec => []CorrectionGetsItsOwnDraft
<1>1. ConversationInv => CorrectionGetsItsOwnDraft
  BY DEF ConversationInv, CreatedFits, KeyOfTheTab, SameMaterial, CorrectionGetsItsOwnDraft
<1> QED
  BY <1>1, ConversationHolds, PTL

(* A subcategory that was chosen or typed is one of the category, and so is  *)
(* one proposed with its category, in whatever order they were filled in     *)
(* (applyTypedField, applyChoiceId, resetForChangeDetails).                 *)
THEOREM SubcategoriesFitTheirCategories ==
    ASSUME NoneIsApart
    PROVE  Spec => []SubcategoryFitsItsCategory
<1>1. ConversationInv => SubcategoryFitsItsCategory
  BY DEF ConversationInv, CollectorFits, CollectorOK, SlotsOK, SubcategoryFitsItsCategory
<1> QED
  BY <1>1, ConversationHolds, PTL

(* A draft the assistant made with a property can be approved as it stands:  *)
(* nextPrompt asks for everything that approving requires.                  *)
THEOREM ReviewedDraftsArePostable ==
    ASSUME NoneIsApart
    PROVE  Spec => []ReviewedDraftIsPostable
<1>1. ConversationInv => ReviewedDraftIsPostable
  <2>1. PostingFields \subseteq Fields
        /\ \A f \in PostingFields : f \in Optional => f = "propertyName"
    BY FieldNames DEF PostingFields, Optional
  <2> QED
    BY <2>1 DEF ConversationInv, DraftsReviewed, ReviewedDraftIsPostable, Postable
<1> QED
  BY <1>1, ConversationHolds, PTL

(* A confirmed value gives way to a report, a correction, a choice or an    *)
(* answer to its own question, and to no other text (setSlot).              *)
THEOREM ConfirmedValuesAreKept ==
    ASSUME NoneIsApart
    PROVE  Spec => ConfirmedValuesStay
<1> DEFINE Kept ==
        \A t \in Texts, f \in Fields :
            /\ saved' = Append(saved, t)
            /\ collector.slots[f].status = "confirmed"
            /\ collector.slots[f].value # collector'.slots[f].value
            => \/ t.kind \in {"report", "correction", "exit", "noCharge"}
               \/ collector.prompt.field = f
               \/ Picked(collector, t) # 0
<1>1. ConversationInv /\ [Next]_vars => [Kept]_collector
  <2> SUFFICES ASSUME ConversationInv, [Next]_vars, collector' # collector,
                      NEW t \in Texts, NEW f \in Fields,
                      saved' = Append(saved, t),
                      collector.slots[f].status = "confirmed",
                      collector.slots[f].value # collector'.slots[f].value,
                      t.kind \notin {"report", "correction", "exit", "noCharge"},
                      collector.prompt.field # f,
                      Picked(collector, t) = 0
               PROVE  FALSE
    OBVIOUS
  <2>1. CollectorOK(collector) /\ saved \in Seq(Texts)
    BY DEF ConversationInv, CollectorFits
  <2>2. saved' # saved
    BY <2>1
  <2>3. PICK u \in Texts : Send(u)
    <3>1. Next
      BY <2>2 DEF vars, tabVars
    <3>2. StaffStep => UNCHANGED saved
      BY DEF StaffStep, OpenForm, Reject, Approve, SubmitForm, tabVars
    <3>3. LeaveCash \/ RecordCash \/ StartAgain \/ PressCreate \/ ServerCreates \/ AnswerCreated \/ CreateFails
              \/ OpenTab \/ HistoryArrives => UNCHANGED saved
      BY DEF LeaveCash, RecordCash, StartAgain, PressCreate, ServerCreates, AnswerCreated,
             CreateFails, OpenTab, HistoryArrives
    <3>4. \A u \in Texts : SendLost(u) \/ SendToCash(u) => UNCHANGED collector
      BY DEF SendLost, SendToCash
    <3> QED
      BY <2>2, <3>1, <3>2, <3>3, <3>4 DEF Next, ChatStep
  <2>4. saved' = Append(saved, u) /\ collector' = Say(collector, u, keys + 1)
    BY <2>3 DEF Send, Saving
  <2>5. u = t
    <3> DEFINE n == Len(saved) + 1
    <3>1. Append(saved, u)[n] = u
      BY <2>1
    <3>2. Append(saved, t)[n] = t
      BY <2>1
    <3>3. Append(saved, u) = Append(saved, t)
      BY <2>4
    <3> QED
      BY <3>1, <3>2, <3>3, Zenon
  <2>6. collector'.slots[f] = collector.slots[f]
    BY <2>1, <2>4, <2>5, SayLeavesConfirmed
  <2> QED
    BY <2>6
<1> QED
  BY <1>1, ConversationHolds, PTL DEF Spec, ConfirmedValuesStay
=============================================================================
