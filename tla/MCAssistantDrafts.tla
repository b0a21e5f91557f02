-------------------------- MODULE MCAssistantDrafts --------------------------
(***************************************************************************)
(* Instances of AssistantDrafts for TLC: one property, two categories with *)
(* two subcategories each, and texts that reach the review in two or three  *)
(* turns and change it in every way the collector knows.                   *)
(***************************************************************************)
EXTENDS AssistantDrafts, TLC

MCCategories == <<"Management", "Company">>
MCSubcategoriesOf == [Management |-> <<"Tenant Payment", "Water">>,
                      Company |-> <<"Rent", "Water">>]
MCPayers == <<"Jacob">>
MCPayees == <<"JJ", "Owner">>

NoFields == <<>>

Plainly(word) ==
    [kind |-> "answer", word |-> word, digit |-> 0, item |-> FALSE, cash |-> FALSE,
     finds |-> NoFields, defaults |-> NoFields, clears |-> {}, types |-> NoFields,
     leads |-> {}]

Told(word) == [description |-> word, notes |-> word]

\* "I received rent of 100 for the villa today"
Rent == [Plainly("rent") EXCEPT
    !.kind = "report",
    !.finds = [amountEur |-> 100, date |-> "today", propertyName |-> "villa",
               category |-> "Management", subcategory |-> "Tenant Payment",
               payer |-> "Tenant"],
    !.defaults = [clientCharge |-> Null, description |-> "rent", notes |-> "rent"],
    !.leads = {<<"villa">>, <<"Company", "Rent">>, <<"Management", "Tenant Payment">>}]

\* "I paid JJ 200 for water at the villa today": who paid and what the client
\* is charged are left to ask
Water == [Plainly("water bill") EXCEPT
    !.kind = "report",
    !.finds = [amountEur |-> 200, date |-> "today", propertyName |-> "villa",
               category |-> "Management", subcategory |-> "Water", payee |-> "JJ"],
    !.defaults = Told("water bill"),
    !.leads = {<<"villa">>, <<"Management", "Water">>, <<"Company", "Water">>}]

\* "I paid 50 for the villa today"
Bought == [Plainly("bought") EXCEPT
    !.kind = "report",
    !.finds = [amountEur |-> 50, date |-> "today", propertyName |-> "villa"],
    !.defaults = Told("bought"),
    !.leads = {<<"villa">>}]

\* "I paid", with nothing else
Paid == [Plainly("paid") EXCEPT !.kind = "report", !.defaults = [notes |-> "paid"]]

\* "The amount is 300"
Amount300 == [Plainly("300") EXCEPT
    !.kind = "correction", !.finds = [amountEur |-> 300]]

\* "I did not receive it, I paid"
NotReceived == [Plainly("not received") EXCEPT
    !.kind = "correction",
    !.clears = {"payer", "payee", "category", "subcategory"}]

\* "1. did I receive rent?"
AskedRent == [Plainly("asked rent") EXCEPT
    !.kind = "denial", !.digit = 1, !.item = TRUE,
    !.finds = [category |-> "Management", subcategory |-> "Tenant Payment",
               payer |-> "Tenant"],
    !.defaults = [clientCharge |-> Null, description |-> "rent", notes |-> "asked rent"],
    !.leads = {<<"Management", "Tenant Payment">>}]

\* "I gave Dan 90 of what we owe him"
Settled == [Plainly("settled") EXCEPT
    !.kind = "report", !.cash = TRUE,
    !.finds = [amountEur |-> 90],
    !.defaults = Told("settled")]

Two == [Plainly("2") EXCEPT
    !.digit = 2, !.item = TRUE, !.types = [amountEur |-> 2, clientCharge |-> 2]]

Mention == [Plainly("400 euro") EXCEPT
    !.finds = [amountEur |-> 400],
    !.types = [amountEur |-> 400, clientCharge |-> 400]]

RentName == [Plainly("Rent") EXCEPT
    !.types = [category |-> "Company", subcategory |-> "Rent"]]

Company == [Plainly("Company") EXCEPT !.types = [category |-> "Company"]]

Of(kind) == [Plainly(kind) EXCEPT !.kind = kind]

MCTexts ==
    {Rent, Water, Bought, Paid, NotReceived, AskedRent, Settled, Amount300, Mention, Two,
     Plainly("JJ"), RentName, Company} \cup
    {Of(kind) : kind \in {"charge", "noCharge", "change", "exit", "other",
                          "unknown", "offtopic"}}

\* A category is chosen, then the amount is emptied and asked for again, and
\* a text that passes for an answer proposes a subcategory.
MCLongTalks ==
    LET talk == <<Bought, Company, Of("change"), Two, AskedRent>>
    IN  {SubSeq(talk, 1, n) : n \in 4..5}
=============================================================================
