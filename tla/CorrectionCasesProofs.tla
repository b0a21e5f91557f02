------------------------ MODULE CorrectionCasesProofs ------------------------
(***************************************************************************)
(* Theorems about CorrectionCases, for any number of transactions,         *)
(* proposals, dialogs and server calls.                                    *)
(***************************************************************************)
EXTENDS CorrectionCases, FiniteSetTheorems, WellFoundedInduction, TLAPS

DialogRows == [key : Keys, series : Series \cup {None}, resume : 0..NumCases,
               waits : Calls \cup {None}, done : 0..NumCases]
ClerkRows == [case : CaseIds, to : Statuses \ {"applied"}]

RegisterTyped ==
    /\ version \in [Txs -> 0..MaxVersion]
    /\ deleted \subseteq Txs
    /\ active \in [Txs -> SUBSET Series]

CallersTyped ==
    /\ dialog \in [Dialogs -> DialogRows \cup {None}]
    /\ call \in [Calls -> CallRows \cup {None}]

(* Cases are opened under the next number, and a number not yet given has   *)
(* inserted nothing.                                                       *)
CasesTyped ==
    /\ cases \in [CaseIds -> CaseRows \cup {None}]
    /\ DOMAIN lineage = CaseIds
    /\ \E n \in 0..NumCases : Opened = 1..n
    /\ \A i \in CaseIds \ Opened : lineage[i] = <<>>
    /\ \A i \in Opened : cases[i].key # None => cases[i].key.tx = cases[i].tx

-----------------------------------------------------------------------------
(* A case of a proposal whose calls did not overlap has inserted its rows   *)
(* once at most, and only if it is applied.                                *)
InsertedOnce ==
    \A i \in Opened :
        cases[i].key \notin crossed =>
            \/ lineage[i] = <<>>
            \/ cases[i].status = "applied" /\ DOMAIN lineage[i] = {1}

(* Cases of the atomic reclassification are born applied and stay so.       *)
ReclassifiedCasesAreApplied ==
    \A i \in Opened :
        cases[i].key = None =>
            cases[i].status = "applied" /\ cases[i].content.type = "reclassification"

CasesInv == CasesTyped /\ InsertedOnce
            /\ ReclassifiedCasesAreApplied /\ ReclassifiedOncePerIdentity

(* A call that is about to approve or apply a case has a case of its key.   *)
AtCase(c) == call[c].at \in {"approve", "approving", "apply"}

CallsHaveTheirCase ==
    \A c \in Calls : call[c] # None =>
        /\ call[c].case \in {0} \cup Opened
        /\ AtCase(c) => /\ call[c].case \in Opened
                        /\ cases[call[c].case].key = call[c].key

ClerkHasACase ==
    clerk # None => /\ clerk \in ClerkRows
                    /\ clerk.case \in Opened
                    /\ cases[clerk.case].key # None

OneCall ==
    \A c, d \in Calls :
        /\ call[c] # None /\ call[d] # None
        /\ call[c].key = call[d].key
        /\ call[c].key \notin crossed
        => c = d

CallersInv == CallersTyped /\ CallsHaveTheirCase /\ ClerkHasACase
              /\ OneCall

Inv == RegisterTyped /\ CasesInv /\ CallersInv

-----------------------------------------------------------------------------
(* What a step may do to the cases so that the calls still fit them: it     *)
(* opens cases only, and their keys stay.                                  *)
CasesGrow ==
    /\ Opened \subseteq Opened'
    /\ \A i \in Opened : cases'[i].key = cases[i].key

LEMMA CaseFields ==
  ASSUME CasesTyped, NEW i \in Opened
  PROVE  /\ i \in CaseIds /\ i \in Nat /\ i # 0
         /\ cases[i] # None /\ cases[i] \in CaseRows
         /\ cases[i].tx \in Txs /\ cases[i].key \in Keys \cup {None}
         /\ cases[i].series \in Series /\ cases[i].status \in Statuses
         /\ cases[i].content \in Contents
BY CorrectionAssumption DEF CasesTyped, Opened, CaseIds, CaseRows

LEMMA CallFields ==
  ASSUME CallersTyped, NEW c \in Calls, call[c] # None
  PROVE  /\ call[c] \in CallRows
         /\ call[c].at \in Places /\ call[c].key \in Keys /\ call[c].key # None
         /\ call[c].key.tx \in Txs
         /\ call[c].series \in Series /\ call[c].case \in 0..NumCases
         /\ call[c].resume \in 0..NumCases
BY CorrectionAssumption DEF CallersTyped, CallRows, Keys

LEMMA DialogFields ==
  ASSUME CallersTyped, NEW d \in Dialogs, dialog[d] # None
  PROVE  /\ dialog[d] \in DialogRows
         /\ dialog[d].key \in Keys /\ dialog[d].series \in Series \cup {None}
         /\ dialog[d].resume \in 0..NumCases /\ dialog[d].done \in 0..NumCases
BY DEF CallersTyped, DialogRows

(* A number that was not given yet follows those that were.                 *)
LEMMA NextIdIsFree ==
  ASSUME CasesTyped, NextId \in CaseIds
  PROVE  /\ NextId \notin Opened
         /\ cases[NextId] = None
         /\ \E n \in 0..NumCases : Opened \cup {NextId} = 1..n
<1>1. PICK n \in 0..NumCases : Opened = 1..n
  BY DEF CasesTyped
<1>2. Cardinality(Opened) = n
  <2>1. n \in Int /\ n >= 0 /\ 1 \in Int
    BY CorrectionAssumption, <1>1
  <2>2. Cardinality(1..n) = IF 1 > n THEN 0 ELSE n - 1 + 1
    BY ONLY <2>1, FS_Interval
  <2>3. QED
    BY <1>1, <2>1, <2>2
<1>3. NextId = n + 1
  BY <1>2 DEF NextId
<1>4. n + 1 \in 0..NumCases
  BY <1>1, <1>3, CorrectionAssumption DEF CaseIds
<1>5. Opened \cup {NextId} = 1..(n + 1)
  <2>1. n \in Nat
    BY <1>1, CorrectionAssumption
  <2>2. (1..n) \cup {n + 1} = 1..(n + 1)
    BY <2>1
  <2>3. QED
    BY <1>1, <1>3, <2>2
<1>6. NextId \notin Opened
  BY <1>1, <1>3, CorrectionAssumption
<1>7. QED
  BY <1>4, <1>5, <1>6 DEF Opened

(* A non-empty set of numbers up to n has a largest one.                    *)
LEMMA LargestExists ==
  ASSUME NEW n \in Nat, NEW S \in SUBSET (0..n), S # {}
  PROVE  \E m \in S : \A k \in S : k <= m
<1> DEFINE T == {n - k : k \in S}
<1>1. T \subseteq Nat /\ T # {}
  <2>1. \A k \in S : k \in 0..n /\ n - k \in Nat
    OBVIOUS
  <2>2. QED
    BY <2>1, Zenon
<1>2. PICK x \in T : \A y \in T : <<y, x>> \notin OpToRel(<, Nat)
  BY <1>1, WFMin, NatLessThanWellFounded, Zenon
<1>3. \A y \in T : ~(y < x)
  BY <1>1, <1>2, Zenon DEF OpToRel
<1>4. PICK m \in S : x = n - m
  OBVIOUS
<1>5. ASSUME NEW k \in S PROVE k <= m
  <2>1. n - k \in T
    OBVIOUS
  <2>2. ~(n - k < n - m)
    BY <1>3, <1>4, <2>1
  <2> HIDE DEF T
  <2>3. k \in 0..n /\ m \in 0..n
    OBVIOUS
  <2>4. n \in Int /\ k \in Int /\ m \in Int
    BY <2>3
  <2>5. QED
    BY <2>2, <2>4
<1>6. QED
  BY <1>5

LEMMA FindType ==
  ASSUME CasesTyped, NEW k
  PROVE  \/ Find(k) = 0 /\ WithKey(k) = {}
         \/ Find(k) \in Opened /\ cases[Find(k)].key = k
<1>1. CASE WithKey(k) = {}
  BY <1>1 DEF Find
<1>2. CASE WithKey(k) # {}
  <2>1. PICK n \in 0..NumCases : Opened = 1..n
    BY DEF CasesTyped
  <2>2. n \in Nat /\ WithKey(k) \in SUBSET (0..n)
    BY <2>1, CorrectionAssumption DEF WithKey
  <2>3. \E i \in WithKey(k) : \A j \in WithKey(k) : j <= i
    BY <1>2, <2>2, LargestExists
  <2>4. Find(k) \in WithKey(k)
    BY <1>2, <2>3 DEF Find
  <2>5. QED
    BY <2>4 DEF WithKey
<1>3. QED
  BY <1>1, <1>2

LEMMA GotoMoves ==
  ASSUME CallersTyped, NEW c \in Calls, call[c] # None,
         NEW at \in Places, NEW i \in 0..NumCases, Goto(c, at, i)
  PROVE  /\ CallersTyped'
         /\ call'[c].at = at /\ call'[c].case = i
         /\ call'[c].key = call[c].key
         /\ \A e \in Calls \ {c} : call'[e] = call[e]
<1> DEFINE moved == [call[c] EXCEPT !.at = at, !.case = i]
<1>1. call[c] \in CallRows
  BY CallFields
<1>2. moved \in CallRows
  BY <1>1 DEF CallRows
<1>3. moved.at = at /\ moved.case = i /\ moved.key = call[c].key
  BY <1>1 DEF CallRows
<1>4. call' = [call EXCEPT ![c] = moved] /\ UNCHANGED dialog
  BY DEF Goto
<1> HIDE DEF moved
<1>5. QED
  BY <1>2, <1>3, <1>4 DEF CallersTyped

LEMMA AnswerEnds ==
  ASSUME CallersTyped, NEW c \in Calls, NEW ok \in BOOLEAN,
         NEW i \in 0..NumCases, Answer(c, ok, i)
  PROVE  /\ CallersTyped'
         /\ call'[c] = None
         /\ \A e \in Calls \ {c} : call'[e] = call[e]
<1>1. /\ call' \in [Calls -> CallRows \cup {None}]
      /\ call'[c] = None
      /\ \A e \in Calls \ {c} : call'[e] = call[e]
  BY DEF Answer, CallersTyped
<1>2. ASSUME NEW d \in Dialogs PROVE dialog'[d] \in DialogRows \cup {None}
  <2>1. CASE dialog[d] # None /\ dialog[d].waits = c
    <3>1. dialog'[d] = [dialog[d] EXCEPT !.waits = None,
                           !.done = IF ok THEN i ELSE 0,
                           !.resume = IF ~ok /\ i # 0 THEN i ELSE @]
      BY <2>1 DEF Answer
    <3>2. 0 \in 0..NumCases
      BY CorrectionAssumption
    <3>3. QED
      BY <2>1, <3>1, <3>2, DialogFields DEF DialogRows
  <2>2. CASE ~(dialog[d] # None /\ dialog[d].waits = c)
    BY <2>2 DEF Answer, CallersTyped
  <2>3. QED
    BY <2>1, <2>2
<1>3. QED
  BY <1>1, <1>2 DEF CallersTyped, Answer

-----------------------------------------------------------------------------
LEMMA CasesStay ==
  ASSUME CasesInv, UNCHANGED caseVars, crossed \subseteq crossed'
  PROVE  CasesInv' /\ CasesGrow /\ Opened' = Opened
<1>1. UNCHANGED <<cases, lineage, Opened>>
  BY DEF caseVars, Opened
<1>2. QED
  BY <1>1 DEF CasesInv, CasesTyped, InsertedOnce, CasesGrow,
              ReclassifiedCasesAreApplied, ReclassifiedOncePerIdentity

(* A call that takes a step leaves the others alone, and a case it opens    *)
(* has its own key.                                                        *)
LEMMA CallMoves ==
  ASSUME CallersInv, NEW c \in Calls, call[c] # None, CallersTyped', CasesGrow,
         \A e \in Calls \ {c} : call'[e] = call[e],
         UNCHANGED clerk, crossed \subseteq crossed',
         \A i \in Opened' \ Opened : cases'[i].key = call[c].key,
         call'[c] # None =>
            /\ call'[c].key = call[c].key
            /\ call'[c].case \in {0} \cup Opened'
            /\ AtCase(c)' => call'[c].case \in Opened' /\ cases'[call'[c].case].key = call[c].key
  PROVE  CallersInv'
<1>1. CallsHaveTheirCase'
  <2>1. ASSUME NEW e \in Calls, call'[e] # None
        PROVE  /\ call'[e].case \in {0} \cup Opened'
               /\ AtCase(e)' => /\ call'[e].case \in Opened'
                                /\ cases'[call'[e].case].key = call'[e].key
    <3>1. CASE e = c
      BY <2>1, <3>1
    <3>2. CASE e # c
      BY <2>1, <3>2 DEF CallersInv, CallsHaveTheirCase, AtCase, CasesGrow
    <3>3. QED
      BY <3>1, <3>2
  <2>2. QED
    BY <2>1 DEF CallsHaveTheirCase
<1>2. ClerkHasACase'
  BY DEF CallersInv, ClerkHasACase, CasesGrow
<1>3. OneCall'
  <2>1. \A e \in Calls : call'[e] # None => call[e] # None /\ call'[e].key = call[e].key
    OBVIOUS
  <2>2. QED
    BY <2>1 DEF CallersInv, OneCall
<1>4. QED
  BY <1>1, <1>2, <1>3 DEF CallersInv

(* Steps of others that open cases of the reclassification at most.         *)
LEMMA CallsStay ==
  ASSUME CallersInv, CasesGrow, UNCHANGED <<dialog, call>>, crossed \subseteq crossed',
         \A i \in Opened' \ Opened : cases'[i].key = None,
         ClerkHasACase'
  PROVE  CallersInv'
<1>1. CallersTyped' /\ OneCall'
  BY DEF CallersInv, CallersTyped, OneCall
<1>2. CallsHaveTheirCase'
  BY DEF CallersInv, CallsHaveTheirCase, AtCase, CasesGrow
<1>3. QED
  BY <1>1, <1>2 DEF CallersInv

-----------------------------------------------------------------------------
LEMMA InitInv == Init => Inv
<1> SUFFICES ASSUME Init PROVE Inv
  OBVIOUS
<1>1. Opened = {} /\ 0 \in 0..NumCases /\ {} = 1..0 /\ 0 \in 0..MaxVersion
  BY CorrectionAssumption DEF Init, Opened
<1>2. RegisterTyped
  BY <1>1 DEF Init, RegisterTyped
<1>3. CasesInv
  <2>1. CasesTyped
    BY <1>1 DEF Init, CasesTyped
  <2>2. QED
    BY <1>1, <2>1 DEF CasesInv, InsertedOnce,
                 ReclassifiedCasesAreApplied, ReclassifiedOncePerIdentity
<1>4. CallersInv
  BY DEF Init, CallersInv, CallersTyped, CallsHaveTheirCase, ClerkHasACase,
         OneCall
<1>5. QED
  BY <1>2, <1>3, <1>4 DEF Inv

(* Steps of the register and of the dialogs.                               *)
LEMMA RegisterSteps ==
  ASSUME Inv, NEW t \in Txs, \/ Touch(t) \/ Delete(t) \/ \E s \in Series : CloseSeries(t, s)
  PROVE  Inv'
<1>1. UNCHANGED <<cases, lineage, dialog, call, clerk, crossed>>
  BY DEF Touch, Delete, CloseSeries, historyVars
<1>2. CasesInv' /\ CasesGrow /\ Opened' = Opened
  BY <1>1, CasesStay DEF Inv, caseVars
<1>3. CallersInv'
  BY <1>1, <1>2, CallsStay DEF Inv, CallersInv, ClerkHasACase
<1>4. RegisterTyped'
  BY CorrectionAssumption DEF Inv, RegisterTyped, Touch, Delete, CloseSeries
<1>5. QED
  BY <1>2, <1>3, <1>4 DEF Inv

LEMMA BoundSeriesType ==
  ASSUME RegisterTyped, NEW t \in Txs
  PROVE  BoundSeries(t) \in Series \cup {None}
<1>1. CASE Cardinality(active[t]) = 1
  <2>1. active[t] # {}
    BY <1>1, FS_EmptySet
  <2>2. BoundSeries(t) \in active[t]
    BY <1>1, <2>1 DEF BoundSeries
  <2>3. QED
    BY <2>2 DEF RegisterTyped
<1>2. CASE Cardinality(active[t]) # 1
  BY <1>2 DEF BoundSeries
<1>3. QED
  BY <1>1, <1>2

LEMMA DialogSteps ==
  ASSUME Inv, NEW d \in Dialogs,
         \/ \E t \in Txs, p \in Proposals : DialogPreview(d, t, p)
         \/ DialogLeave(d) \/ LoseAnswer(d)
  PROVE  Inv'
<1>1. UNCHANGED <<version, deleted, active, cases, lineage, call, clerk, crossed>>
  BY DEF DialogPreview, DialogLeave, LoseAnswer, registerVars, caseVars, historyVars
<1>2. CasesInv' /\ CasesGrow /\ Opened' = Opened
  BY <1>1, CasesStay DEF Inv, caseVars
<1>3. dialog' \in [Dialogs -> DialogRows \cup {None}]
  <2>1. ASSUME NEW t \in Txs, NEW p \in Proposals, DialogPreview(d, t, p)
        PROVE  dialog' \in [Dialogs -> DialogRows \cup {None}]
    <3> DEFINE row == [key |-> Key(t, version[t], p), series |-> BoundSeries(t),
                       resume |-> 0, waits |-> None, done |-> 0]
    <3>1. row \in DialogRows
      BY BoundSeriesType, CorrectionAssumption DEF DialogRows, Key, Keys, Inv, RegisterTyped
    <3>2. dialog' = [dialog EXCEPT ![d] = row]
      BY <2>1 DEF DialogPreview
    <3>3. QED
      BY <3>1, <3>2 DEF Inv, CallersInv, CallersTyped
  <2>2. CASE DialogLeave(d)
    BY <2>2 DEF DialogLeave, Inv, CallersInv, CallersTyped
  <2>3. CASE LoseAnswer(d)
    <3>1. [dialog[d] EXCEPT !.waits = None] \in DialogRows
      BY <2>3, DialogFields DEF LoseAnswer, DialogRows, Inv, CallersInv
    <3>2. QED
      BY <2>3, <3>1 DEF LoseAnswer, Inv, CallersInv, CallersTyped
  <2>4. QED
    BY <2>1, <2>2, <2>3
<1>4. CallersTyped' /\ OneCall' /\ CallsHaveTheirCase' /\ ClerkHasACase'
  BY <1>1, <1>2, <1>3 DEF Inv, CallersInv, CallersTyped, OneCall, CallsHaveTheirCase, AtCase,
                          ClerkHasACase
<1>5. QED
  BY <1>1, <1>2, <1>4 DEF Inv, CallersInv, RegisterTyped

LEMMA StartApplyStep ==
  ASSUME Inv, NEW d \in Dialogs, NEW c \in Calls, StartApply(d, c)
  PROVE  Inv'
<1> DEFINE k == dialog[d].key
           row == [at |-> "fetch", key |-> k, series |-> dialog[d].series,
                   resume |-> dialog[d].resume, case |-> 0]
<1>1. /\ UNCHANGED <<version, deleted, active, cases, lineage, clerk>>
      /\ crossed \subseteq crossed'
      /\ Running(k) # {} => k \in crossed'
      /\ call[c] = None
      /\ call' = [call EXCEPT ![c] = row]
      /\ dialog' = [dialog EXCEPT ![d].waits = c]
      /\ dialog[d] # None /\ dialog[d].series # None
  BY DEF StartApply, registerVars, caseVars
<1>2. CasesInv' /\ CasesGrow /\ Opened' = Opened
  BY <1>1, CasesStay DEF Inv, caseVars
<1>3. CallersTyped'
  <2>1. row \in CallRows
    BY <1>1, DialogFields, CorrectionAssumption DEF CallRows, Places, Inv, CallersInv
  <2>2. [dialog[d] EXCEPT !.waits = c] \in DialogRows
    BY <1>1, DialogFields DEF DialogRows, Inv, CallersInv
  <2>3. QED
    BY <1>1, <2>1, <2>2 DEF CallersTyped, Inv, CallersInv
<1>4. row.key = k /\ row.at = "fetch" /\ row.case = 0
  OBVIOUS
<1> HIDE DEF row
<1>5. /\ call'[c] = row
      /\ \A e \in Calls \ {c} : call'[e] = call[e]
  BY <1>1 DEF Inv, CallersInv, CallersTyped
<1>6. OneCall'
  <2>1. ASSUME NEW e \in Calls, e # c, call'[e] # None, call'[e].key = k
        PROVE  k \in crossed'
    BY <1>1, <1>5, <2>1 DEF Running
  <2>2. QED
    BY <1>1, <1>4, <1>5, <2>1 DEF OneCall, Inv, CallersInv
<1>7. CallsHaveTheirCase' /\ ClerkHasACase'
  BY <1>1, <1>2, <1>4, <1>5 DEF CallsHaveTheirCase, AtCase, ClerkHasACase, Inv, CallersInv
<1>8. QED
  BY <1>1, <1>2, <1>3, <1>6, <1>7 DEF Inv, CallersInv, RegisterTyped

LEMMA CallDiesStep ==
  ASSUME Inv, NEW c \in Calls, CallDies(c)
  PROVE  Inv'
<1>1. /\ UNCHANGED <<version, deleted, active, cases, lineage, clerk, crossed>>
      /\ call[c] # None /\ call' = [call EXCEPT ![c] = None]
  BY DEF CallDies, registerVars, caseVars, historyVars
<1>2. CasesInv' /\ CasesGrow /\ Opened' = Opened
  BY <1>1, CasesStay DEF Inv, caseVars
<1>3. CallersTyped'
  <2>1. ASSUME NEW e \in Dialogs PROVE dialog'[e] \in DialogRows \cup {None}
    <3>1. CASE dialog[e] # None /\ dialog[e].waits = c
      <4>1. [dialog[e] EXCEPT !.waits = None] \in DialogRows
        BY <3>1, DialogFields DEF DialogRows, Inv, CallersInv
      <4>2. QED
        BY <3>1, <4>1 DEF CallDies
    <3>2. CASE ~(dialog[e] # None /\ dialog[e].waits = c)
      BY <3>2 DEF CallDies, Inv, CallersInv, CallersTyped
    <3>3. QED
      BY <3>1, <3>2
  <2>2. QED
    BY <1>1, <2>1 DEF CallDies, CallersTyped, Inv, CallersInv
<1>4. call'[c] = None /\ \A e \in Calls \ {c} : call'[e] = call[e]
  BY <1>1 DEF Inv, CallersInv, CallersTyped
<1>5. CallersInv'
  BY <1>1, <1>2, <1>3, <1>4, CallMoves DEF Inv
<1>6. QED
  BY <1>1, <1>2, <1>5 DEF Inv, RegisterTyped

-----------------------------------------------------------------------------
(* The awaits of a call that write no case: where they may take it.         *)
LEMMA AnswerKeepsInv ==
  ASSUME Inv, NEW c \in Calls, call[c] # None, NEW ok \in BOOLEAN,
         NEW i \in 0..NumCases, Answer(c, ok, i),
         KeepsRest, UNCHANGED <<caseVars, crossed>>
  PROVE  Inv'
<1>1. CasesInv' /\ CasesGrow /\ Opened' = Opened
  BY CasesStay DEF Inv
<1>2. /\ CallersTyped' /\ call'[c] = None
      /\ \A e \in Calls \ {c} : call'[e] = call[e]
  BY AnswerEnds DEF Inv, CallersInv
<1>3. CallersInv'
  BY <1>1, <1>2, CallMoves DEF Inv, KeepsRest
<1>4. QED
  BY <1>1, <1>3 DEF Inv, RegisterTyped, KeepsRest, registerVars

LEMMA GotoKeepsInv ==
  ASSUME Inv, NEW c \in Calls, call[c] # None, NEW at \in Places,
         NEW i \in {0} \cup Opened, Goto(c, at, i),
         KeepsRest, UNCHANGED <<caseVars, crossed>>,
         at \in {"approve", "approving", "apply"} => i \in Opened /\ cases[i].key = call[c].key
  PROVE  Inv'
<1>1. CasesInv' /\ CasesGrow /\ UNCHANGED <<cases, Opened>>
  BY CasesStay DEF Inv, caseVars
<1>2. i \in 0..NumCases
  BY CorrectionAssumption DEF Opened, CaseIds
<1>3. /\ CallersTyped'
      /\ call'[c].at = at /\ call'[c].case = i /\ call'[c].key = call[c].key
      /\ \A e \in Calls \ {c} : call'[e] = call[e]
  BY <1>2, GotoMoves DEF Inv, CallersInv
<1>4. AtCase(c)' => i \in Opened' /\ cases'[i].key = call[c].key
  BY <1>1, <1>3 DEF AtCase
<1>6. CallersInv'
  BY <1>1, <1>3, <1>4, CallMoves DEF Inv, KeepsRest
<1>7. QED
  BY <1>1, <1>6 DEF Inv, RegisterTyped, KeepsRest, registerVars

LEMMA ResumeKeepsInv ==
  ASSUME Inv, NEW c \in Calls, call[c] # None, NEW i \in Opened,
         cases[i].key = call[c].key, Resume(c, i),
         KeepsRest, UNCHANGED <<caseVars, crossed>>
  PROVE  Inv'
<1>1. i \in 0..NumCases /\ TRUE \in BOOLEAN
  BY CorrectionAssumption DEF Opened, CaseIds
<1>2. \/ Answer(c, TRUE, i) \/ Goto(c, "approve", i) \/ Goto(c, "apply", i)
  BY DEF Resume
<1>3. "approve" \in Places /\ "apply" \in Places
  BY DEF Places
<1>4. CASE Answer(c, TRUE, i)
  BY <1>1, <1>4, AnswerKeepsInv
<1>5. CASE Goto(c, "approve", i)
  BY <1>3, <1>5, GotoKeepsInv
<1>6. CASE Goto(c, "apply", i)
  BY <1>3, <1>6, GotoKeepsInv
<1>7. QED
  BY <1>2, <1>4, <1>5, <1>6

LEMMA ReadingSteps ==
  ASSUME Inv, NEW c \in Calls,
         \/ ReadTransaction(c) \/ BindSeries(c) \/ FindCase(c) \/ Precheck(c)
         \/ FindAgain(c) \/ NameOther(c) \/ ApproveRead(c) \/ ProcedureFails(c)
  PROVE  Inv'
<1>1. call[c] # None /\ KeepsRest /\ UNCHANGED <<caseVars, crossed>>
  BY DEF ReadTransaction, BindSeries, FindCase, Precheck, FindAgain, NameOther,
         ApproveRead, ProcedureFails, At, historyVars
<1>2. /\ 0 \in 0..NumCases /\ FALSE \in BOOLEAN /\ TRUE \in BOOLEAN
      /\ \A i \in Opened : i \in 0..NumCases /\ i # 0
  BY CorrectionAssumption DEF Opened, CaseIds
<1>3. /\ call[c].case \in {0} \cup Opened
      /\ AtCase(c) => call[c].case \in Opened /\ cases[call[c].case].key = call[c].key
  BY <1>1 DEF Inv, CallersInv, CallsHaveTheirCase
<1>4. call[c].case \in 0..NumCases
  BY <1>2, <1>3
<1>5. Places = {"fetch", "bind", "find", "precheck", "open", "refind", "raced", "other",
                "approve", "approving", "apply"}
  BY DEF Places
<1> DEFINE k == call[c].key
<1>6. \/ Find(k) = 0 /\ WithKey(k) = {}
      \/ Find(k) \in Opened /\ cases[Find(k)].key = k
  BY FindType DEF Inv, CasesInv
<1>7. CASE ReadTransaction(c) \/ BindSeries(c)
  <2>1. \/ Answer(c, FALSE, 0) \/ Goto(c, "bind", 0) \/ Goto(c, "find", 0)
    BY <1>7 DEF ReadTransaction, BindSeries
  <2>2. QED
    BY <1>1, <1>2, <1>5, <2>1, AnswerKeepsInv, GotoKeepsInv
<1>8. CASE FindCase(c)
  <2>1. \/ Goto(c, "precheck", 0)
        \/ Find(k) # 0 /\ Answer(c, FALSE, Find(k))
        \/ Find(k) # 0 /\ Resume(c, Find(k))
    BY <1>8 DEF FindCase, LookupReads, LookupMisses
  <2>2. CASE Goto(c, "precheck", 0)
    BY <1>1, <1>5, <2>2, GotoKeepsInv
  <2>3. CASE Find(k) # 0 /\ Answer(c, FALSE, Find(k))
    BY <1>1, <1>2, <1>6, <2>3, AnswerKeepsInv
  <2>4. CASE Find(k) # 0 /\ Resume(c, Find(k))
    BY <1>1, <1>2, <1>6, <2>4, ResumeKeepsInv
  <2>5. QED
    BY <2>1, <2>2, <2>3, <2>4
<1>9. CASE Precheck(c)
  <2>1. \/ Goto(c, "open", 0)
        \/ \E i \in Opened : Goto(c, "refind", i) \/ Answer(c, FALSE, i)
    BY <1>9 DEF Precheck, NonterminalOf
  <2>2. CASE Goto(c, "open", 0)
    BY <1>1, <1>5, <2>2, GotoKeepsInv
  <2>3. ASSUME NEW i \in Opened, Goto(c, "refind", i) PROVE Inv'
    BY <1>1, <1>5, <2>3, GotoKeepsInv
  <2>4. ASSUME NEW i \in Opened, Answer(c, FALSE, i) PROVE Inv'
    BY <1>1, <1>2, <2>4, AnswerKeepsInv
  <2>5. QED
    BY <2>1, <2>2, <2>3, <2>4
<1>10. CASE FindAgain(c)
  <2>1. \/ Find(k) # 0 /\ Resume(c, Find(k))
        \/ Answer(c, FALSE, call[c].case)
        \/ Goto(c, "other", 0)
    BY <1>10 DEF FindAgain
  <2>2. CASE Find(k) # 0 /\ Resume(c, Find(k))
    BY <1>1, <1>2, <1>6, <2>2, ResumeKeepsInv
  <2>3. CASE Answer(c, FALSE, call[c].case)
    BY <1>1, <1>2, <1>4, <2>3, AnswerKeepsInv
  <2>4. CASE Goto(c, "other", 0)
    BY <1>1, <1>5, <2>4, GotoKeepsInv
  <2>5. QED
    BY <2>1, <2>2, <2>3, <2>4
<1>11. CASE NameOther(c)
  <2>1. \E i \in {0} \cup Opened : Answer(c, FALSE, i)
    BY <1>11 DEF NameOther, NonterminalOf
  <2>2. QED
    BY <1>1, <1>2, <2>1, AnswerKeepsInv
<1>12. CASE ApproveRead(c)
  <2>1. AtCase(c)
    BY <1>12 DEF ApproveRead, At, AtCase
  <2>2. Answer(c, FALSE, call[c].case) \/ Goto(c, "approving", call[c].case)
    BY <1>12 DEF ApproveRead
  <2>3. CASE Answer(c, FALSE, call[c].case)
    BY <1>1, <1>2, <1>4, <2>3, AnswerKeepsInv
  <2>4. CASE Goto(c, "approving", call[c].case)
    BY <1>1, <1>3, <1>5, <2>1, <2>4, GotoKeepsInv
  <2>5. QED
    BY <2>2, <2>3, <2>4
<1>13. CASE ProcedureFails(c)
  <2>1. Answer(c, FALSE, call[c].case)
    BY <1>13 DEF ProcedureFails
  <2>2. QED
    BY <1>1, <1>2, <1>4, <2>1, AnswerKeepsInv
<1>14. QED
  BY <1>7, <1>8, <1>9, <1>10, <1>11, <1>12, <1>13

-----------------------------------------------------------------------------
(* What is written to a case that was opened already: a status, ...         *)
LEMMA StatusFits ==
  ASSUME CasesInv, NEW i \in Opened, NEW to \in Statuses, cases[i].key # None,
         cases' = [cases EXCEPT ![i].status = to], UNCHANGED lineage,
         crossed \subseteq crossed',
         cases[i].status # "applied" \/ cases[i].key \in crossed'
  PROVE  CasesInv' /\ CasesGrow /\ Opened' = Opened
<1> DEFINE row == [cases[i] EXCEPT !.status = to]
<1>1. CasesTyped
  BY DEF CasesInv
<1>2. i \in CaseIds /\ cases[i] \in CaseRows /\ cases[i] # None
  BY <1>1, CaseFields
<1>3. /\ row \in CaseRows /\ row.status = to /\ row.key = cases[i].key
      /\ row.tx = cases[i].tx /\ row.content = cases[i].content
  BY <1>2 DEF CaseRows
<1>4. row # None
  BY <1>3, CorrectionAssumption
<1> HIDE DEF row
<1>5. /\ cases' \in [CaseIds -> CaseRows \cup {None}]
      /\ cases'[i] = row
      /\ \A j \in CaseIds \ {i} : cases'[j] = cases[j]
  BY <1>1, <1>2, <1>3 DEF CasesTyped, row
<1>6. Opened' = Opened
  BY <1>2, <1>4, <1>5 DEF Opened
<1>7. \A j \in Opened : /\ j \in CaseIds
                        /\ cases'[j].key = cases[j].key
                        /\ cases'[j].tx = cases[j].tx
                        /\ cases'[j].content = cases[j].content
                        /\ j # i => cases'[j].status = cases[j].status
  BY <1>3, <1>5 DEF Opened
<1>8. CasesTyped'
  BY <1>1, <1>5, <1>6, <1>7 DEF CasesTyped
<1>9. ReclassifiedOncePerIdentity'
  BY <1>6, <1>7 DEF CasesInv, ReclassifiedOncePerIdentity
<1>10. InsertedOnce' /\ ReclassifiedCasesAreApplied'
  BY <1>6, <1>7 DEF CasesInv, InsertedOnce, ReclassifiedCasesAreApplied
<1>11. QED
  BY <1>6, <1>7, <1>8, <1>9, <1>10 DEF CasesInv, CasesGrow

(* ... or its rows.                                                        *)
LEMMA ApplyFits ==
  ASSUME CasesInv, NEW i \in Opened, NEW rows, cases[i].status # "applied",
         ApplyTo(i, rows), UNCHANGED crossed
  PROVE  CasesInv' /\ CasesGrow /\ Opened' = Opened
<1> DEFINE row == [cases[i] EXCEPT !.status = "applied"]
           x == Stored(rows)
<1>1. CasesTyped
  BY DEF CasesInv
<1>2. i \in CaseIds /\ cases[i] \in CaseRows /\ cases[i] # None
  BY <1>1, CaseFields
<1>3. /\ row \in CaseRows /\ row.status = "applied" /\ row.key = cases[i].key
      /\ row.tx = cases[i].tx /\ row.content = cases[i].content
  BY <1>2 DEF CaseRows, Statuses
<1>4. row # None
  BY <1>3, CorrectionAssumption
<1>5. /\ cases' = [cases EXCEPT ![i] = row]
      /\ lineage' = [lineage EXCEPT ![i] = Append(@, x)]
  BY DEF ApplyTo
<1> HIDE DEF row, x
<1>6. /\ cases' \in [CaseIds -> CaseRows \cup {None}]
      /\ cases'[i] = row
      /\ \A j \in CaseIds \ {i} : cases'[j] = cases[j]
  BY <1>1, <1>2, <1>3, <1>5 DEF CasesTyped
<1>7. /\ DOMAIN lineage' = CaseIds
      /\ lineage'[i] = Append(lineage[i], x)
      /\ \A j \in CaseIds \ {i} : lineage'[j] = lineage[j]
  BY <1>1, <1>2, <1>5 DEF CasesTyped
<1>8. Opened' = Opened
  BY <1>2, <1>4, <1>6 DEF Opened
<1>9. \A j \in Opened : /\ j \in CaseIds
                        /\ cases'[j].key = cases[j].key
                        /\ cases'[j].tx = cases[j].tx
                        /\ cases'[j].content = cases[j].content
                        /\ j # i => cases'[j].status = cases[j].status
  BY <1>3, <1>6 DEF Opened
<1>10. CasesTyped'
  BY <1>1, <1>2, <1>6, <1>7, <1>8, <1>9 DEF CasesTyped
<1>11. ReclassifiedOncePerIdentity'
  BY <1>8, <1>9 DEF CasesInv, ReclassifiedOncePerIdentity
<1>12. InsertedOnce'
  <2>1. ASSUME NEW j \in Opened, cases[j].key \notin crossed
        PROVE  \/ lineage'[j] = <<>>
               \/ cases'[j].status = "applied" /\ DOMAIN lineage'[j] = {1}
    <3>1. CASE j = i
      <4>1. lineage[i] = <<>>
        BY <2>1, <3>1 DEF CasesInv, InsertedOnce
      <4>2. DOMAIN Append(<<>>, x) = {1}
        OBVIOUS
      <4>3. QED
        BY <1>3, <1>6, <1>7, <3>1, <4>1, <4>2
    <3>2. CASE j # i
      BY <1>7, <1>9, <2>1, <3>2 DEF CasesInv, InsertedOnce
    <3>3. QED
      BY <3>1, <3>2
  <2>2. QED
    BY <1>8, <1>9, <2>1 DEF InsertedOnce
<1>13. ReclassifiedCasesAreApplied'
  BY <1>8, <1>9 DEF CasesInv, ReclassifiedCasesAreApplied
<1>14. QED
  BY <1>8, <1>9, <1>10, <1>11, <1>12, <1>13 DEF CasesInv, CasesGrow

(* A new case: of a call, with nothing inserted, or of the reclassification, *)
(* applied at once.                                                        *)
LEMMA NewCaseFits ==
  ASSUME CasesInv, NEW n \in CaseIds, n = NextId, NEW row \in CaseRows, NEW x,
         cases' = [cases EXCEPT ![n] = row], UNCHANGED crossed,
         row.key # None => /\ row.key.tx = row.tx
                           /\ UNCHANGED lineage,
         row.key = None => /\ row.status = "applied"
                           /\ row.content.type = "reclassification"
                           /\ lineage' = [lineage EXCEPT ![n] = <<x>>]
                           /\ \A j \in Opened :
                                cases[j].key = None /\ cases[j].tx = row.tx =>
                                  SemanticIdentity(cases[j].content)
                                    # SemanticIdentity(row.content)
  PROVE  CasesInv' /\ CasesGrow /\ Opened' = Opened \cup {n} /\ cases'[n] = row
<1>1. CasesTyped
  BY DEF CasesInv
<1>2. n \notin Opened /\ \E m \in 0..NumCases : Opened \cup {n} = 1..m
  BY <1>1, NextIdIsFree
<1>3. row # None
  BY CorrectionAssumption
<1>4. /\ cases' \in [CaseIds -> CaseRows \cup {None}]
      /\ cases'[n] = row
      /\ \A j \in CaseIds \ {n} : cases'[j] = cases[j]
  BY <1>1 DEF CasesTyped
<1>5. Opened' = Opened \cup {n}
  BY <1>3, <1>4 DEF Opened
<1>6. \A j \in Opened : j \in CaseIds /\ cases'[j] = cases[j]
  BY <1>2, <1>4 DEF Opened
<1>7. /\ DOMAIN lineage' = CaseIds
      /\ \A j \in CaseIds \ {n} : lineage'[j] = lineage[j]
      /\ row.key # None => lineage'[n] = <<>>
      /\ row.key = None => lineage'[n] = <<x>>
  BY <1>1, <1>2 DEF CasesTyped
<1>8. CasesTyped'
  <2>1. \A i \in CaseIds \ Opened' : lineage'[i] = <<>>
    BY <1>1, <1>5, <1>7 DEF CasesTyped
  <2>2. \A i \in Opened' : cases'[i].key # None => cases'[i].key.tx = cases'[i].tx
    BY <1>1, <1>4, <1>5, <1>6 DEF CasesTyped
  <2>3. QED
    BY <1>2, <1>4, <1>5, <1>7, <2>1, <2>2 DEF CasesTyped
<1>10. InsertedOnce'
  <2>1. DOMAIN <<x>> = {1}
    OBVIOUS
  <2>2. \A i \in Opened : lineage'[i] = lineage[i] /\ cases'[i] = cases[i]
    BY <1>2, <1>6, <1>7
  <2>3. QED
    BY <1>4, <1>5, <1>7, <2>1, <2>2 DEF CasesInv, InsertedOnce
<1>11. ReclassifiedCasesAreApplied' /\ ReclassifiedOncePerIdentity'
  BY <1>4, <1>5, <1>6
     DEF CasesInv, ReclassifiedCasesAreApplied, ReclassifiedOncePerIdentity
<1>12. QED
  BY <1>4, <1>5, <1>6, <1>8, <1>10, <1>11 DEF CasesInv, CasesGrow

-----------------------------------------------------------------------------
LEMMA OpenCaseStep ==
  ASSUME Inv, NEW c \in Calls, OpenCase(c)
  PROVE  Inv'
<1> DEFINE k == call[c].key
           row == NewCase(k.tx, k, call[c].series, CaseOf(OriginalRow[k.tx], k.proposed))
<1>1. /\ call[c] # None /\ call[c].at = "open" /\ NextId \in CaseIds
      /\ KeepsRest /\ UNCHANGED <<lineage, crossed>>
  BY DEF OpenCase, At, historyVars
<1>3. CASE UNCHANGED cases /\ Goto(c, "raced", 0)
  <2>1. "raced" \in Places
    BY DEF Places
  <2>2. QED
    BY <1>1, <1>3, <2>1, GotoKeepsInv DEF caseVars
<1>4. CASE cases' = [cases EXCEPT ![NextId] = row] /\ Goto(c, "approve", NextId)
  <2>1. k \in Keys /\ k # None /\ call[c].series \in Series
    BY <1>1, CallFields DEF Inv, CallersInv
  <2>2. CaseOf(OriginalRow[k.tx], k.proposed) \in Contents
    BY <2>1 DEF Keys, Contents
  <2>3. row \in CaseRows /\ row.key = k /\ row.tx = k.tx
    BY <2>1, <2>2 DEF NewCase, CaseRows, Keys, Statuses
  <2> HIDE DEF row
  <2>4. CasesInv' /\ CasesGrow /\ Opened' = Opened \cup {NextId} /\ cases'[NextId] = row
    BY <1>1, <1>4, <2>1, <2>3, NewCaseFits DEF Inv
  <2>5. "approve" \in Places /\ NextId \in 0..NumCases
    BY <1>1, CorrectionAssumption DEF Places, CaseIds
  <2>6. /\ CallersTyped'
        /\ call'[c].at = "approve" /\ call'[c].case = NextId /\ call'[c].key = k
        /\ \A e \in Calls \ {c} : call'[e] = call[e]
    BY <1>1, <1>4, <2>5, GotoMoves DEF Inv, CallersInv
  <2>7. CallersInv'
    BY <1>1, <2>3, <2>4, <2>6, CallMoves DEF Inv, KeepsRest
  <2>8. QED
    BY <1>1, <2>4, <2>7 DEF Inv, RegisterTyped, KeepsRest, registerVars
<1>5. QED
  BY <1>3, <1>4 DEF OpenCase

(* The two writes of a call to a case that is there.                        *)
LEMMA ApproveWriteStep ==
  ASSUME Inv, NEW c \in Calls, ApproveWrite(c)
  PROVE  Inv'
<1> DEFINE i == call[c].case
<1>1. /\ call[c] # None /\ call[c].at = "approving" /\ KeepsRest /\ UNCHANGED lineage
  BY DEF ApproveWrite, At
<1>2. /\ i \in Opened /\ cases[i].key = call[c].key /\ cases[i].key # None
      /\ i \in 0..NumCases
  BY <1>1, CallFields DEF Inv, CallersInv, CallsHaveTheirCase, AtCase
<1>3. CASE UNCHANGED <<cases, crossed>> /\ Answer(c, FALSE, i)
  BY <1>1, <1>2, <1>3, AnswerKeepsInv DEF caseVars
<1>4. CASE /\ cases' = [cases EXCEPT ![i].status = "approved"]
           /\ crossed' = crossed \cup Overwritten(i)
           /\ Goto(c, "apply", i)
  <2>1. crossed \subseteq crossed'
    BY <1>4
  <2>2. cases[i].status # "applied" \/ cases[i].key \in crossed'
    BY <1>4 DEF Overwritten
  <2>3. "approved" \in Statuses /\ "apply" \in Places
    BY DEF Statuses, Places
  <2>4. CasesInv' /\ CasesGrow /\ Opened' = Opened
    BY <1>1, <1>2, <1>4, <2>1, <2>2, <2>3, StatusFits DEF Inv
  <2>5. /\ CallersTyped'
        /\ call'[c].at = "apply" /\ call'[c].case = i /\ call'[c].key = call[c].key
        /\ \A e \in Calls \ {c} : call'[e] = call[e]
    BY <1>1, <1>2, <1>4, <2>3, GotoMoves DEF Inv, CallersInv
  <2>6. CallersInv'
    BY <1>1, <1>2, <2>1, <2>4, <2>5, CallMoves DEF Inv, KeepsRest, CasesGrow
  <2>7. QED
    BY <1>1, <2>4, <2>6 DEF Inv, RegisterTyped, KeepsRest, registerVars
<1>5. QED
  BY <1>3, <1>4 DEF ApproveWrite

LEMMA ApplyCaseStep ==
  ASSUME Inv, NEW c \in Calls, ApplyCase(c)
  PROVE  Inv'
<1> DEFINE i == call[c].case
           rows == PlannedRows(call[c].key)
<1>1. call[c] # None /\ call[c].at = "apply" /\ KeepsRest /\ UNCHANGED crossed
  BY DEF ApplyCase, At, historyVars
<1>2. i \in Opened /\ i \in 0..NumCases
  BY <1>1, CallFields DEF Inv, CallersInv, CallsHaveTheirCase, AtCase
<1>3. CASE UNCHANGED caseVars /\ Answer(c, FALSE, i)
  BY <1>1, <1>2, <1>3, AnswerKeepsInv
<1>4. CASE Appliable(i, rows) /\ ApplyTo(i, rows) /\ Answer(c, TRUE, i)
  <2>1. cases[i].status # "applied"
    BY <1>4 DEF Appliable
  <2>2. CasesInv' /\ CasesGrow /\ Opened' = Opened
    BY <1>1, <1>2, <1>4, <2>1, ApplyFits DEF Inv
  <2>3. /\ CallersTyped' /\ call'[c] = None
        /\ \A e \in Calls \ {c} : call'[e] = call[e]
    BY <1>1, <1>2, <1>4, AnswerEnds DEF Inv, CallersInv
  <2>4. CallersInv'
    BY <1>1, <2>2, <2>3, CallMoves DEF Inv, KeepsRest
  <2>5. QED
    BY <1>1, <2>2, <2>4 DEF Inv, RegisterTyped, KeepsRest, registerVars
<1>5. QED
  BY <1>3, <1>4 DEF ApplyCase

-----------------------------------------------------------------------------
(* The transition of a member of staff.                                    *)
LEMMA ClerkReadsStep ==
  ASSUME Inv, NEW i \in Opened, NEW to \in Statuses \ {"open", "applied"},
         ClerkReads(i, to)
  PROVE  Inv'
<1>1. UNCHANGED <<version, deleted, active, cases, lineage, dialog, call, crossed>>
  BY DEF ClerkReads, registerVars, caseVars, historyVars
<1>2. CasesInv' /\ CasesGrow /\ Opened' = Opened
  BY <1>1, CasesStay DEF Inv, caseVars
<1>3. clerk' = [case |-> i, to |-> to] /\ cases[i].status # "applied"
  BY DEF ClerkReads
<1>4. clerk' \in ClerkRows /\ clerk'.case = i
  BY <1>3, CaseFields DEF ClerkRows, Inv, CasesInv
<1>5. cases[i].key # None
  BY <1>3 DEF Inv, CasesInv, ReclassifiedCasesAreApplied
<1>6. ClerkHasACase'
  BY <1>1, <1>2, <1>4, <1>5 DEF ClerkHasACase
<1>7. CallersInv'
  BY <1>1, <1>2, <1>6, CallsStay DEF Inv
<1>8. QED
  BY <1>1, <1>2, <1>7 DEF Inv, RegisterTyped

LEMMA ClerkWritesStep ==
  ASSUME Inv, ClerkWrites
  PROVE  Inv'
<1> DEFINE i == clerk.case
<1>1. /\ UNCHANGED <<version, deleted, active, lineage, dialog, call>>
      /\ clerk # None /\ clerk' = None
  BY DEF ClerkWrites, registerVars
<1>2. i \in Opened /\ cases[i].key # None /\ clerk.to \in Statuses
  BY <1>1 DEF Inv, CallersInv, ClerkHasACase, ClerkRows
<1>3. crossed \subseteq crossed'
  BY DEF ClerkWrites
<1>4. CASE UNCHANGED <<cases, crossed>>
  BY <1>1, <1>4, CasesStay, CallsStay DEF Inv, caseVars, RegisterTyped, ClerkHasACase
<1>5. CASE /\ cases' = [cases EXCEPT ![i].status = clerk.to]
           /\ crossed' = crossed \cup Overwritten(i)
  <2>1. cases[i].status # "applied" \/ cases[i].key \in crossed'
    BY <1>5 DEF Overwritten
  <2>2. CasesInv' /\ CasesGrow /\ Opened' = Opened
    BY <1>1, <1>2, <1>3, <1>5, <2>1, StatusFits DEF Inv
  <2>3. ClerkHasACase'
    BY <1>1 DEF ClerkHasACase
  <2>4. CallersInv'
    BY <1>1, <1>3, <2>2, <2>3, CallsStay DEF Inv
  <2>5. QED
    BY <1>1, <2>2, <2>4 DEF Inv, RegisterTyped
<1>6. QED
  BY <1>4, <1>5 DEF ClerkWrites

(* The earliest case of an identity is one of its cases.                    *)
LEMMA FirstOfIdentity ==
  ASSUME CasesTyped, NEW t, NEW corrected, SameIdentity(t, corrected) # {}
  PROVE  (CHOOSE i \in SameIdentity(t, corrected) :
             \A j \in SameIdentity(t, corrected) : i <= j) \in SameIdentity(t, corrected)
<1> DEFINE same == SameIdentity(t, corrected)
<1>1. PICK m \in 0..NumCases : Opened = 1..m
  BY DEF CasesTyped
<1>2. same \subseteq 1..m /\ m \in Nat
  BY <1>1, CorrectionAssumption DEF SameIdentity
<1> HIDE DEF same
<1> DEFINE T == {m - i : i \in same}
<1>3. T \in SUBSET (0..m) /\ T # {}
  <2>1. \A i \in same : m - i \in 0..m
    BY <1>2
  <2>2. same # {}
    BY DEF same
  <2>3. QED
    BY <2>1, <2>2, Zenon
<1>4. PICK x \in T : \A y \in T : y <= x
  BY <1>2, <1>3, LargestExists
<1>5. PICK i \in same : x = m - i
  BY <1>4
<1>6. ASSUME NEW j \in same PROVE i <= j
  <2>1. m - j <= m - i
    BY <1>4, <1>5
  <2>2. QED
    BY <1>2, <2>1
<1>7. QED
  BY <1>5, <1>6 DEF same

(* The atomic reclassification resumes a case or opens one that is applied. *)
LEMMA ReclassifyStep ==
  ASSUME Inv, NEW t \in Txs, NEW corrected \in Reclassifications,
         Reclassify(t, corrected)
  PROVE  Inv'
<1> DEFINE same == SameIdentity(t, corrected)
           rows == ReclassRows(OriginalRow[t], corrected)
           first == CHOOSE i \in same : \A j \in same : i <= j
           content == ReclassCase(OriginalRow[t], corrected)
           opened == NewCase(t, None, CHOOSE s \in Series : TRUE, content)
           fresh == [opened EXCEPT !.status = "applied"]
<1>1. UNCHANGED <<version, deleted, active, dialog, call, clerk, crossed>>
  BY DEF Reclassify, registerVars, historyVars
<1>2. CASE /\ same # {} /\ cases[first].status \in Nonterminal
           /\ ApplyTo(first, rows)
  <2>1. first \in Opened
    <3>1. first \in same
      BY <1>2, FirstOfIdentity DEF Inv, CasesInv
    <3> HIDE DEF first
    <3>2. QED
      BY <3>1 DEF SameIdentity
  <2>2. cases[first].status # "applied"
    BY <1>2 DEF Nonterminal
  <2> HIDE DEF first, rows
  <2>3. CasesInv' /\ CasesGrow /\ Opened' = Opened
    BY <1>1, <1>2, <2>1, <2>2, ApplyFits DEF Inv
  <2>4. CallersInv'
    BY <1>1, <2>3, CallsStay DEF Inv, CallersInv, ClerkHasACase, CasesGrow
  <2>5. QED
    BY <1>1, <2>3, <2>4 DEF Inv, RegisterTyped
<1>3. CASE /\ same = {} /\ Series # {} /\ NextId \in CaseIds
           /\ cases' = [cases EXCEPT ![NextId] = fresh]
           /\ lineage' = [lineage EXCEPT ![NextId] = <<Stored(rows)>>]
  <2>1. content \in Contents /\ content.type = "reclassification"
    BY DEF Contents, ReclassCase
  <2>2. (CHOOSE s \in Series : TRUE) \in Series
    BY <1>3
  <2> HIDE DEF content
  <2>3. opened = [tx |-> t, key |-> None, series |-> CHOOSE s \in Series : TRUE,
                  status |-> "open", content |-> content]
    BY DEF NewCase
  <2>4. opened \in CaseRows
    BY <2>1, <2>2, <2>3 DEF CaseRows, Statuses
  <2>5. fresh \in CaseRows
    BY <2>4 DEF CaseRows, Statuses
  <2>6. /\ fresh.key = None /\ fresh.tx = t /\ fresh.status = "applied"
        /\ fresh.content = content
    BY <2>3
  <2> HIDE DEF fresh, opened
  <2>7. ASSUME NEW j \in Opened, cases[j].key = None, cases[j].tx = t,
               SemanticIdentity(cases[j].content) = SemanticIdentity(content)
        PROVE  FALSE
    <3>1. cases[j].status = "applied" /\ cases[j].content.type = "reclassification"
      BY <2>7 DEF Inv, CasesInv, ReclassifiedCasesAreApplied
    <3>2. j \in same
      BY <2>7, <3>1 DEF SameIdentity, content
    <3>3. QED
      BY <1>3, <3>2
  <2>8. CasesInv' /\ CasesGrow /\ Opened' = Opened \cup {NextId} /\ cases'[NextId] = fresh
    <3> HIDE DEF rows, same
    <3>1. QED
      BY <1>1, <1>3, <2>1, <2>5, <2>6, <2>7, NewCaseFits DEF Inv
  <2>9. CallersInv'
    BY <1>1, <2>6, <2>8, CallsStay DEF Inv, CallersInv, ClerkHasACase, CasesGrow
  <2>10. QED
    BY <1>1, <2>8, <2>9 DEF Inv, RegisterTyped
<1>4. QED
  BY <1>2, <1>3, Zenon DEF Reclassify

-----------------------------------------------------------------------------
LEMMA CallStepInv ==
  ASSUME Inv, NEW c \in Calls, CallStep(c)
  PROVE  Inv'
<1>1. CASE OpenCase(c)
  BY <1>1, OpenCaseStep
<1>2. CASE ApproveWrite(c)
  BY <1>2, ApproveWriteStep
<1>3. CASE ApplyCase(c)
  BY <1>3, ApplyCaseStep
<1>4. CASE \/ ReadTransaction(c) \/ BindSeries(c) \/ FindCase(c) \/ Precheck(c)
           \/ FindAgain(c) \/ NameOther(c) \/ ApproveRead(c) \/ ProcedureFails(c)
  BY <1>4, ReadingSteps
<1>5. QED
  BY <1>1, <1>2, <1>3, <1>4 DEF CallStep

LEMMA NextInv == Inv /\ [Next]_vars => Inv'
<1> SUFFICES ASSUME Inv, [Next]_vars PROVE Inv'
  OBVIOUS
<1>1. ASSUME NEW t \in Txs, Touch(t) \/ Delete(t) PROVE Inv'
  BY <1>1, RegisterSteps
<1>2. ASSUME NEW t \in Txs, NEW s \in Series, CloseSeries(t, s) PROVE Inv'
  BY <1>2, RegisterSteps
<1>3. ASSUME NEW d \in Dialogs, NEW t \in Txs, NEW p \in Proposals, DialogPreview(d, t, p)
      PROVE  Inv'
  BY <1>3, DialogSteps
<1>4. ASSUME NEW d \in Dialogs, DialogLeave(d) \/ LoseAnswer(d) PROVE Inv'
  BY <1>4, DialogSteps
<1>5. ASSUME NEW d \in Dialogs, NEW c \in Calls, StartApply(d, c) PROVE Inv'
  BY <1>5, StartApplyStep
<1>6. ASSUME NEW c \in Calls, CallDies(c) PROVE Inv'
  BY <1>6, CallDiesStep
<1>7. ASSUME NEW c \in Calls, CallStep(c) PROVE Inv'
  BY <1>7, CallStepInv
<1>8. ASSUME NEW i \in Opened, NEW to \in Statuses \ {"open", "applied"}, ClerkReads(i, to)
      PROVE  Inv'
  BY <1>8, ClerkReadsStep
<1>9. CASE ClerkWrites
  BY <1>9, ClerkWritesStep
<1>10. ASSUME NEW t \in Txs, NEW r \in Reclassifications, Reclassify(t, r) PROVE Inv'
  BY <1>10, ReclassifyStep
<1>11. CASE UNCHANGED vars
  <2>1. UNCHANGED <<version, deleted, active, cases, lineage, dialog, call, clerk, crossed>>
    BY <1>11 DEF vars
  <2>2. CasesInv' /\ CasesGrow /\ Opened' = Opened
    BY <2>1, CasesStay DEF Inv, caseVars
  <2>3. ClerkHasACase'
    BY <2>1, <2>2 DEF ClerkHasACase, Inv, CallersInv
  <2>4. CallersInv'
    BY <2>1, <2>2, <2>3, CallsStay DEF Inv
  <2>5. QED
    BY <2>1, <2>2, <2>4 DEF Inv, RegisterTyped
<1>12. QED
  BY <1>1, <1>2, <1>3, <1>4, <1>5, <1>6, <1>7, <1>8, <1>9, <1>10, <1>11, Zenon DEF Next

LEMMA InvHolds == Spec => []Inv
BY InitInv, NextInv, PTL DEF Spec

(* Cases have the transactions, series and statuses they should have, are   *)
(* numbered without a gap, and no call or transition names a case that was  *)
(* never opened.                                                           *)
THEOREM TypeCorrect == Spec => []TypeOK
<1>1. Inv => TypeOK
  <2> SUFFICES ASSUME Inv PROVE TypeOK
    OBVIOUS
  <2>1. Opened = 1..Cardinality(Opened)
    <3>1. PICK n \in 0..NumCases : Opened = 1..n
      BY DEF Inv, CasesInv, CasesTyped
    <3>2. n \in Int /\ n >= 0 /\ 1 \in Int
      BY CorrectionAssumption, <3>1
    <3>3. Cardinality(1..n) = IF 1 > n THEN 0 ELSE n - 1 + 1
      BY ONLY <3>2, FS_Interval
    <3>4. QED
      BY <3>1, <3>2, <3>3
  <2>2. \A i \in Opened : /\ cases[i].tx \in Txs /\ cases[i].status \in Statuses
                          /\ cases[i].series \in Series
                          /\ cases[i].key # None => cases[i].key.tx = cases[i].tx
    BY CaseFields DEF Inv, CasesInv, CasesTyped
  <2>3. \A c \in Calls : call[c] # None => call[c].case \in {0} \cup Opened
    BY DEF Inv, CallersInv, CallsHaveTheirCase
  <2>4. QED
    BY <2>1, <2>2, <2>3 DEF TypeOK, Inv, RegisterTyped, CallersInv, ClerkHasACase
<1>2. QED
  BY <1>1, InvHolds, PTL

-----------------------------------------------------------------------------
(* Counting the cases of a proposal whose calls did not overlap: one, and    *)
(* one more for each lookup that missed those there were.  A call that is    *)
(* about to open a case still has one to its credit.                        *)
Opener(c) == call[c] # None /\ call[c].at \in {"precheck", "open"}

FewCases ==
    \A k \in Keys \ crossed : Cardinality(WithKey(k)) <= 1 + missed[k]

RoomForOne ==
    \A c \in Calls, k \in Keys \ crossed :
        Opener(c) /\ call[c].key = k => Cardinality(WithKey(k)) <= missed[k]

CountInv == missed \in [Keys -> Nat] /\ FewCases /\ RoomForOne

(* A step that sends no other call to open a case.                          *)
NoNewOpener == \A e \in Calls : Opener(e)' => call'[e] = call[e]

LEMMA CasesOfAKeyAreFinite ==
  ASSUME CasesTyped, NEW k
  PROVE  IsFiniteSet(WithKey(k)) /\ Cardinality(WithKey(k)) \in Nat
<1>1. PICK n \in 0..NumCases : Opened = 1..n
  BY DEF CasesTyped
<1>2. n \in Int /\ 1 \in Int
  BY CorrectionAssumption, <1>1
<1>3. IsFiniteSet(1..n)
  BY ONLY <1>2, FS_Interval
<1>4. WithKey(k) \subseteq 1..n
  BY <1>1 DEF WithKey
<1>5. IsFiniteSet(WithKey(k))
  BY ONLY <1>3, <1>4, FS_Subset
<1>6. QED
  BY ONLY <1>5, FS_CardinalityType

LEMMA KeysStay ==
  ASSUME Opened' = Opened, \A i \in Opened : cases'[i].key = cases[i].key, NEW k
  PROVE  WithKey(k)' = WithKey(k)
BY DEF WithKey

LEMMA StatusKeepsKeys ==
  ASSUME CasesTyped, NEW i \in Opened, NEW to \in Statuses,
         cases' = [cases EXCEPT ![i].status = to]
  PROVE  Opened' = Opened /\ \A j \in Opened : cases'[j].key = cases[j].key
<1> DEFINE row == [cases[i] EXCEPT !.status = to]
<1>1. i \in CaseIds /\ cases[i] \in CaseRows
  BY CaseFields
<1>2. row \in CaseRows /\ row.key = cases[i].key
  BY <1>1 DEF CaseRows
<1>3. row # None
  BY <1>2, CorrectionAssumption
<1>4. cases' = [cases EXCEPT ![i] = row]
  OBVIOUS
<1> HIDE DEF row
<1>5. cases'[i] = row /\ \A j \in CaseIds \ {i} : cases'[j] = cases[j]
  BY <1>1, <1>4 DEF CasesTyped
<1>6. QED
  BY <1>1, <1>2, <1>3, <1>5 DEF Opened

(* A call that goes elsewhere, or ends, does not come to open a case.       *)
LEMMA GoesElsewhere ==
  ASSUME CallersTyped, NEW c \in Calls, call[c] # None,
         \/ \E at \in Places \ {"precheck", "open"}, i \in 0..NumCases : Goto(c, at, i)
         \/ \E ok \in BOOLEAN, i \in 0..NumCases : Answer(c, ok, i)
  PROVE  NoNewOpener
<1>1. ASSUME NEW at \in Places \ {"precheck", "open"}, NEW i \in 0..NumCases, Goto(c, at, i)
      PROVE  NoNewOpener
  BY <1>1, GotoMoves DEF NoNewOpener, Opener
<1>2. ASSUME NEW ok \in BOOLEAN, NEW i \in 0..NumCases, Answer(c, ok, i)
      PROVE  NoNewOpener
  BY <1>2, AnswerEnds DEF NoNewOpener, Opener
<1>3. QED
  BY <1>1, <1>2

(* A step that opens no case of any key keeps the count, if every call it   *)
(* sends to open one has one to its credit.                                 *)
LEMMA CountStays ==
  ASSUME CasesTyped, CallersTyped, CallersTyped', CountInv,
         \A k \in Keys : WithKey(k)' = WithKey(k),
         missed' \in [Keys -> Nat], \A k \in Keys : missed[k] <= missed'[k],
         crossed \subseteq crossed',
         \A e \in Calls : Opener(e)' =>
            \/ call'[e] = call[e]
            \/ call'[e].key \in crossed'
            \/ Cardinality(WithKey(call'[e].key)) <= missed'[call'[e].key]
  PROVE  CountInv'
<1>1. \A k \in Keys : Cardinality(WithKey(k)) \in Nat /\ missed[k] \in Nat /\ missed'[k] \in Nat
  BY CasesOfAKeyAreFinite DEF CountInv
<1>2. FewCases'
  <2>1. ASSUME NEW k \in Keys \ crossed' PROVE Cardinality(WithKey(k)') <= 1 + missed'[k]
    <3>1. Cardinality(WithKey(k)) <= 1 + missed[k] /\ WithKey(k)' = WithKey(k)
      BY DEF CountInv, FewCases
    <3>2. missed[k] <= missed'[k]
      OBVIOUS
    <3>3. QED
      BY <1>1, <3>1, <3>2
  <2>2. QED
    BY <2>1 DEF FewCases
<1>3. RoomForOne'
  <2>1. ASSUME NEW e \in Calls, NEW k \in Keys \ crossed', Opener(e)', call'[e].key = k
        PROVE  Cardinality(WithKey(k)') <= missed'[k]
    <3>1. WithKey(k)' = WithKey(k) /\ missed[k] <= missed'[k]
      OBVIOUS
    <3>2. CASE call'[e] = call[e]
      <4>1. Opener(e) /\ call[e].key = k /\ k \notin crossed
        BY <2>1, <3>2 DEF Opener
      <4>2. Cardinality(WithKey(k)) <= missed[k]
        BY <4>1 DEF CountInv, RoomForOne
      <4>3. QED
        BY <1>1, <3>1, <4>2
    <3>3. QED
      BY <2>1, <3>1, <3>2
  <2>2. QED
    BY <2>1 DEF RoomForOne
<1>4. QED
  BY <1>2, <1>3 DEF CountInv

(* The lookup: it finds no case where there is none, or it misses some.     *)
LEMMA FindKeepsCount ==
  ASSUME Inv, CountInv, NEW c \in Calls, FindCase(c), Inv'
  PROVE  CountInv'
<1> DEFINE k == call[c].key
<1>1. /\ call[c] # None /\ UNCHANGED <<cases, crossed>>
      /\ CallersTyped /\ CallersTyped' /\ CasesTyped
  BY DEF FindCase, At, caseVars, Inv, CallersInv, CasesInv
<1>2. /\ k \in Keys
      /\ \A x \in Keys : missed[x] \in Nat /\ Cardinality(WithKey(x)) \in Nat
      /\ 0 \in 0..NumCases /\ TRUE \in BOOLEAN /\ FALSE \in BOOLEAN
  BY <1>1, CallFields, CasesOfAKeyAreFinite, CorrectionAssumption DEF CountInv
<1>3. \A x \in Keys : WithKey(x)' = WithKey(x)
  BY <1>1, KeysStay DEF Opened
<1>4. \/ Find(k) = 0 /\ WithKey(k) = {}
      \/ Find(k) \in Opened /\ cases[Find(k)].key = k
  BY <1>1, FindType
<1>5. ASSUME Goto(c, "precheck", 0)
      PROVE  \A e \in Calls : Opener(e)' => (e = c /\ call'[e].key = k) \/ call'[e] = call[e]
  <2>1. "precheck" \in Places
    BY DEF Places
  <2>2. QED
    BY <1>1, <1>2, <1>5, <2>1, GotoMoves
<1>6. CASE LookupReads(c)
  <2>1. missed' = missed
    BY <1>6 DEF LookupReads
  <2>2. CASE Find(k) = 0
    <3>1. Goto(c, "precheck", 0) /\ WithKey(k) = {}
      BY <1>4, <1>6, <2>2, CorrectionAssumption DEF LookupReads, Opened, CaseIds
    <3>2. Cardinality(WithKey(k)) <= missed[k]
      BY <1>2, <3>1, FS_EmptySet
    <3>3. QED
      BY <1>1, <1>2, <1>3, <1>5, <2>1, <3>1, <3>2, CountStays DEF CountInv
  <2>3. CASE Find(k) # 0
    <3>1. Answer(c, FALSE, Find(k)) \/ Resume(c, Find(k))
      BY <1>6, <2>3 DEF LookupReads
    <3>2. Find(k) \in 0..NumCases
      BY <1>4, <2>3, CorrectionAssumption DEF Opened, CaseIds
    <3>3. \/ Answer(c, FALSE, Find(k)) \/ Answer(c, TRUE, Find(k))
          \/ Goto(c, "approve", Find(k)) \/ Goto(c, "apply", Find(k))
      BY <3>1 DEF Resume
    <3>4. "approve" \in Places \ {"precheck", "open"} /\ "apply" \in Places \ {"precheck", "open"}
      BY DEF Places
    <3>5. NoNewOpener
      BY <1>1, <1>2, <3>2, <3>3, <3>4, GoesElsewhere
    <3>6. QED
      BY <1>1, <1>2, <1>3, <2>1, <3>5, CountStays DEF CountInv, NoNewOpener
  <2>4. QED
    BY <2>2, <2>3
<1>7. CASE LookupMisses(c)
  <2>1. missed' = [missed EXCEPT ![k] = missed[k] + 1] /\ Goto(c, "precheck", 0)
    BY <1>7 DEF LookupMisses
  <2>2. /\ missed' \in [Keys -> Nat] /\ missed'[k] = missed[k] + 1
        /\ \A x \in Keys : missed[x] <= missed'[x]
    BY <1>2, <2>1 DEF CountInv
  <2>3. k \notin crossed => Cardinality(WithKey(k)) <= missed'[k]
    BY <1>2, <2>2 DEF CountInv, FewCases
  <2>4. QED
    BY <1>1, <1>3, <1>5, <2>1, <2>2, <2>3, CountStays
<1>8. QED
  BY <1>6, <1>7 DEF FindCase

(* Looking at the other cases, a call keeps the credit it has.               *)
LEMMA PrecheckKeepsCount ==
  ASSUME Inv, CountInv, NEW c \in Calls, Precheck(c), Inv'
  PROVE  CountInv'
<1> DEFINE k == call[c].key
<1>1. /\ call[c] # None /\ Opener(c) /\ UNCHANGED <<cases, crossed, missed>>
      /\ CallersTyped /\ CallersTyped' /\ CasesTyped
  BY DEF Precheck, At, Opener, caseVars, historyVars, Inv, CallersInv, CasesInv
<1>2. /\ k \in Keys /\ \A x \in Keys : missed[x] \in Nat
      /\ 0 \in 0..NumCases /\ FALSE \in BOOLEAN
      /\ \A i \in Opened : i \in 0..NumCases
  BY <1>1, CallFields, CorrectionAssumption DEF CountInv, Opened, CaseIds
<1>3. \A x \in Keys : WithKey(x)' = WithKey(x)
  BY <1>1, KeysStay DEF Opened
<1>4. k \notin crossed => Cardinality(WithKey(k)) <= missed[k]
  BY <1>1, <1>2 DEF CountInv, RoomForOne
<1>5. "open" \in Places /\ "refind" \in Places \ {"precheck", "open"}
  BY DEF Places
<1>6. \/ Goto(c, "open", 0)
      \/ \E i \in Opened : Goto(c, "refind", i) \/ Answer(c, FALSE, i)
  BY DEF Precheck, NonterminalOf
<1>7. CASE Goto(c, "open", 0)
  <2>1. call'[c].key = k /\ \A e \in Calls \ {c} : call'[e] = call[e]
    BY <1>1, <1>2, <1>5, <1>7, GotoMoves
  <2>2. QED
    BY <1>1, <1>2, <1>3, <1>4, <2>1, CountStays DEF CountInv
<1>8. CASE \E i \in Opened : Goto(c, "refind", i) \/ Answer(c, FALSE, i)
  <2>1. NoNewOpener
    BY <1>1, <1>2, <1>5, <1>8, GoesElsewhere
  <2>2. QED
    BY <1>1, <1>2, <1>3, <2>1, CountStays DEF CountInv, NoNewOpener
<1>9. QED
  BY <1>6, <1>7, <1>8

(* Opening a case spends the credit of the call, and no other call of its   *)
(* key is running.                                                          *)
LEMMA OpenCaseKeepsCount ==
  ASSUME Inv, CountInv, NEW c \in Calls, OpenCase(c), Inv'
  PROVE  CountInv'
<1> DEFINE k == call[c].key
           row == NewCase(k.tx, k, call[c].series, CaseOf(OriginalRow[k.tx], k.proposed))
<1>1. /\ call[c] # None /\ Opener(c) /\ NextId \in CaseIds /\ UNCHANGED <<crossed, missed>>
      /\ CallersTyped /\ CallersTyped' /\ CasesTyped
  BY DEF OpenCase, At, Opener, historyVars, Inv, CallersInv, CasesInv
<1>2. k \in Keys /\ 0 \in 0..NumCases /\ NextId \in 0..NumCases
      /\ \A x \in Keys : missed[x] \in Nat /\ Cardinality(WithKey(x)) \in Nat
  BY <1>1, CallFields, CasesOfAKeyAreFinite, CorrectionAssumption DEF CountInv, CaseIds
<1>3. "raced" \in Places \ {"precheck", "open"} /\ "approve" \in Places \ {"precheck", "open"}
  BY DEF Places
<1>4. NoNewOpener
  BY <1>1, <1>2, <1>3, GoesElsewhere DEF OpenCase
<1>5. CASE UNCHANGED cases
  <2>1. \A x \in Keys : WithKey(x)' = WithKey(x)
    BY <1>5, KeysStay DEF Opened
  <2>2. QED
    BY <1>1, <1>2, <1>4, <2>1, CountStays DEF CountInv, NoNewOpener
<1>6. CASE cases' = [cases EXCEPT ![NextId] = row] /\ Goto(c, "approve", NextId)
  <2>1. row.key = k
    BY DEF NewCase
  <2>2. row # None
    <3>1. row \in CaseRows
      BY <1>1, <1>2, CallFields DEF NewCase, CaseRows, Statuses, Keys, Contents
    <3>2. QED
      BY <3>1, CorrectionAssumption
  <2> HIDE DEF row
  <2>3. NextId \notin Opened
    BY <1>1, NextIdIsFree
  <2>4. cases'[NextId] = row /\ \A i \in CaseIds \ {NextId} : cases'[i] = cases[i]
    BY <1>1, <1>6 DEF CasesTyped
  <2>5. Opened' = Opened \cup {NextId} /\ \A i \in Opened : cases'[i] = cases[i]
    BY <1>1, <2>2, <2>3, <2>4 DEF Opened
  <2>6. \A x \in Keys : WithKey(x)' = IF x = k THEN WithKey(x) \cup {NextId} ELSE WithKey(x)
    BY <2>1, <2>4, <2>5 DEF WithKey
  <2>7. Cardinality(WithKey(k) \cup {NextId}) = Cardinality(WithKey(k)) + 1
    <3>1. IsFiniteSet(WithKey(k)) /\ NextId \notin WithKey(k)
      BY <1>1, <2>3, CasesOfAKeyAreFinite DEF WithKey
    <3>2. QED
      BY ONLY <3>1, FS_AddElement
  <2>8. k \notin crossed => Cardinality(WithKey(k)) <= missed[k]
    BY <1>1, <1>2 DEF CountInv, RoomForOne
  <2>9. FewCases'
    <3>1. ASSUME NEW x \in Keys \ crossed PROVE Cardinality(WithKey(x)') <= 1 + missed[x]
      <4>1. CASE x = k
        BY <1>2, <2>6, <2>7, <2>8, <4>1
      <4>2. CASE x # k
        BY <2>6, <4>2 DEF CountInv, FewCases
      <4>3. QED
        BY <4>1, <4>2
    <3>2. QED
      BY <1>1, <3>1 DEF FewCases
  <2>10. RoomForOne'
    <3>1. ASSUME NEW e \in Calls, NEW x \in Keys \ crossed, Opener(e)', call'[e].key = x
          PROVE  Cardinality(WithKey(x)') <= missed[x]
      <4>1. call'[e] = call[e]
        BY <1>4, <3>1 DEF NoNewOpener
      <4>2. e # c
        <5>1. call'[c].at = "approve"
          BY <1>1, <1>2, <1>3, <1>6, GotoMoves
        <5>2. QED
          BY <3>1, <5>1 DEF Opener
      <4>3. Opener(e) /\ call[e].key = x /\ x # k
        BY <1>1, <3>1, <4>1, <4>2 DEF Opener, Inv, CallersInv, OneCall
      <4>4. QED
        BY <2>6, <3>1, <4>3 DEF CountInv, RoomForOne
    <3>2. QED
      BY <1>1, <3>1 DEF RoomForOne
  <2>11. QED
    BY <1>1, <2>9, <2>10 DEF CountInv
<1>7. QED
  BY <1>5, <1>6 DEF OpenCase

(* The other steps of a call write a status at most.                        *)
LEMMA CallStepKeepsCount ==
  ASSUME Inv, CountInv, NEW c \in Calls, Inv',
         \/ ReadTransaction(c) \/ BindSeries(c) \/ FindAgain(c) \/ NameOther(c)
         \/ ApproveRead(c) \/ ProcedureFails(c) \/ ApproveWrite(c) \/ ApplyCase(c)
  PROVE  CountInv'
<1>1. /\ call[c] # None /\ missed' = missed /\ crossed \subseteq crossed'
      /\ CallersTyped /\ CallersTyped' /\ CasesTyped
  BY DEF ReadTransaction, BindSeries, FindAgain, NameOther, ApproveRead, ProcedureFails,
         ApproveWrite, ApplyCase, At, historyVars, Inv, CallersInv, CasesInv
<1>2. /\ TRUE \in BOOLEAN /\ FALSE \in BOOLEAN /\ call[c].case \in 0..NumCases
      /\ 0 \in 0..NumCases /\ \A i \in Opened : i \in 0..NumCases /\ i # 0
      /\ \A x \in Keys : missed[x] \in Nat
  BY <1>1, CallFields, CorrectionAssumption DEF CountInv, Opened, CaseIds
<1>3. Places \ {"precheck", "open"} = {"fetch", "bind", "find", "refind", "raced", "other",
                                       "approve", "approving", "apply"}
  BY DEF Places
<1> DEFINE j == Find(call[c].key)
<1>4. j = 0 \/ (j \in Opened /\ cases[j].key = call[c].key)
  BY <1>1, FindType
<1>5. NoNewOpener
  <2>1. CASE ReadTransaction(c) \/ BindSeries(c) \/ ApproveRead(c) \/ ProcedureFails(c)
             \/ ApproveWrite(c) \/ ApplyCase(c)
    <3>1. \/ \E at \in {"bind", "find", "approving", "apply"}, i \in {0, call[c].case} :
                Goto(c, at, i)
          \/ \E ok \in BOOLEAN, i \in {0, call[c].case} : Answer(c, ok, i)
      BY <2>1 DEF ReadTransaction, BindSeries, ApproveRead, ProcedureFails, ApproveWrite,
                  ApplyCase
    <3>2. QED
      BY <1>1, <1>2, <1>3, <3>1, GoesElsewhere
  <2>2. CASE FindAgain(c)
    <3>1. \/ j # 0 /\ Resume(c, j)
          \/ Answer(c, FALSE, call[c].case)
          \/ Goto(c, "other", 0)
      BY <2>2 DEF FindAgain
    <3>2. \/ j \in 0..NumCases /\ (Answer(c, TRUE, j) \/ Goto(c, "approve", j) \/ Goto(c, "apply", j))
          \/ Answer(c, FALSE, call[c].case)
          \/ Goto(c, "other", 0)
      BY <1>2, <1>4, <3>1 DEF Resume
    <3>3. QED
      BY <1>1, <1>2, <1>3, <3>2, GoesElsewhere
  <2>3. CASE NameOther(c)
    <3>1. \E i \in {0} \cup Opened : Answer(c, FALSE, i)
      BY <2>3 DEF NameOther, NonterminalOf
    <3>2. QED
      BY <1>1, <1>2, <3>1, GoesElsewhere
  <2>4. QED
    BY <2>1, <2>2, <2>3
<1>6. \A x \in Keys : WithKey(x)' = WithKey(x)
  <2>1. CASE UNCHANGED cases
    BY <2>1, KeysStay DEF Opened
  <2>2. CASE \/ cases' = [cases EXCEPT ![call[c].case].status = "approved"] /\ AtCase(c)
             \/ cases' = [cases EXCEPT ![call[c].case].status = "applied"] /\ AtCase(c)
    <3>1. call[c].case \in Opened /\ "approved" \in Statuses /\ "applied" \in Statuses
      BY <1>1, <2>2 DEF Inv, CallersInv, CallsHaveTheirCase, Statuses
    <3>2. Opened' = Opened /\ \A i \in Opened : cases'[i].key = cases[i].key
      BY <1>1, <2>2, <3>1, StatusKeepsKeys
    <3>3. QED
      BY <3>2, KeysStay
  <2>3. QED
    BY <2>1, <2>2 DEF ReadTransaction, BindSeries, FindAgain, NameOther, ApproveRead,
                      ProcedureFails, ApproveWrite, ApplyCase, ApplyTo, At, AtCase, caseVars
<1>7. QED
  BY <1>1, <1>2, <1>5, <1>6, CountStays DEF CountInv, NoNewOpener

(* Steps of others: a status, or a case without a key.                      *)
LEMMA OthersKeepCount ==
  ASSUME Inv, CountInv, Inv',
         \/ ClerkWrites
         \/ \E t \in Txs, corrected \in Reclassifications : Reclassify(t, corrected)
  PROVE  CountInv'
<1>1. /\ UNCHANGED <<call, missed>> /\ crossed \subseteq crossed'
      /\ CallersTyped /\ CallersTyped' /\ CasesTyped
  BY DEF ClerkWrites, Reclassify, historyVars, Inv, CallersInv, CasesInv
<1>2. \A x \in Keys : missed[x] \in Nat /\ x # None
  BY CorrectionAssumption DEF CountInv
<1>3. CASE ClerkWrites
  <2>1. CASE UNCHANGED cases
    <3>1. \A x \in Keys : WithKey(x)' = WithKey(x)
      BY <2>1, KeysStay DEF Opened
    <3>2. QED
      BY <1>1, <1>2, <3>1, CountStays DEF CountInv
  <2>2. CASE cases' = [cases EXCEPT ![clerk.case].status = clerk.to]
    <3>1. clerk.case \in Opened /\ clerk.to \in Statuses
      BY <1>3 DEF ClerkWrites, Inv, CallersInv, ClerkHasACase, ClerkRows
    <3>2. \A x \in Keys : WithKey(x)' = WithKey(x)
      BY <1>1, <2>2, <3>1, StatusKeepsKeys, KeysStay
    <3>3. QED
      BY <1>1, <1>2, <3>2, CountStays DEF CountInv
  <2>3. QED
    BY <1>3, <2>1, <2>2 DEF ClerkWrites
<1>4. ASSUME NEW t \in Txs, NEW corrected \in Reclassifications, Reclassify(t, corrected)
      PROVE  CountInv'
  <2> DEFINE same == SameIdentity(t, corrected)
             first == CHOOSE i \in same : \A j \in same : i <= j
             content == ReclassCase(OriginalRow[t], corrected)
             opened == NewCase(t, None, CHOOSE s \in Series : TRUE, content)
             fresh == [opened EXCEPT !.status = "applied"]
  <2>1. CASE same # {} /\ cases' = [cases EXCEPT ![first].status = "applied"]
    <3>1. first \in Opened /\ "applied" \in Statuses
      <4>1. first \in same
        BY <1>1, <2>1, FirstOfIdentity
      <4> HIDE DEF first
      <4>2. QED
        BY <4>1 DEF SameIdentity, Statuses
    <3> HIDE DEF first
    <3>2. \A x \in Keys : WithKey(x)' = WithKey(x)
      BY <1>1, <2>1, <3>1, StatusKeepsKeys, KeysStay
    <3>3. QED
      BY <1>1, <1>2, <3>2, CountStays DEF CountInv
  <2>2. CASE NextId \in CaseIds /\ cases' = [cases EXCEPT ![NextId] = fresh]
    <3>1. fresh.key = None
      BY DEF NewCase
    <3> HIDE DEF fresh
    <3>2. NextId \notin Opened
      BY <1>1, <2>2, NextIdIsFree
    <3>3. cases'[NextId] = fresh /\ \A i \in CaseIds \ {NextId} : cases'[i] = cases[i]
      BY <1>1, <2>2 DEF CasesTyped
    <3>4. Opened \subseteq Opened' /\ Opened' \subseteq Opened \cup {NextId}
      BY <3>2, <3>3 DEF Opened
    <3>5. \A i \in Opened : cases'[i] = cases[i]
      BY <3>2, <3>3 DEF Opened
    <3>6. \A x \in Keys : WithKey(x)' = WithKey(x)
      BY <1>2, <3>1, <3>3, <3>4, <3>5 DEF WithKey
    <3>7. QED
      BY <1>1, <1>2, <3>6, CountStays DEF CountInv
  <2>3. QED
    BY <1>4, <2>1, <2>2, Zenon DEF Reclassify, ApplyTo
<1>5. QED
  BY <1>3, <1>4

LEMMA InitCount == Init => CountInv
<1> SUFFICES ASSUME Init PROVE CountInv
  OBVIOUS
<1>1. missed = [k \in Keys |-> 0] /\ \A k : WithKey(k) = {}
  BY DEF Init, WithKey, Opened
<1>2. Cardinality({}) = 0
  BY FS_EmptySet
<1>3. FewCases
  BY <1>1, <1>2 DEF FewCases
<1>4. RoomForOne
  BY DEF Init, RoomForOne, Opener
<1>5. QED
  BY <1>1, <1>3, <1>4 DEF CountInv

LEMMA NextCount == Inv /\ CountInv /\ [Next]_vars => CountInv'
<1> SUFFICES ASSUME Inv, CountInv, [Next]_vars PROVE CountInv'
  OBVIOUS
<1>1. Inv'
  BY NextInv
<1>2. CallersTyped /\ CallersTyped' /\ CasesTyped
  BY <1>1 DEF Inv, CallersInv, CasesInv
<1>3. ASSUME UNCHANGED <<cases, missed, crossed>>, NoNewOpener PROVE CountInv'
  <2>1. \A x \in Keys : WithKey(x)' = WithKey(x)
    BY <1>3, KeysStay DEF Opened
  <2>2. \A x \in Keys : missed[x] \in Nat
    BY DEF CountInv
  <2>3. QED
    BY <1>2, <1>3, <2>1, <2>2, CountStays DEF CountInv, NoNewOpener
<1>4. CASE UNCHANGED vars
  BY <1>3, <1>4 DEF vars, NoNewOpener
<1>5. ASSUME NEW t \in Txs, Touch(t) \/ Delete(t) \/ \E s \in Series : CloseSeries(t, s)
      PROVE  CountInv'
  BY <1>3, <1>5 DEF Touch, Delete, CloseSeries, historyVars, NoNewOpener
<1>6. ASSUME NEW d \in Dialogs,
             \/ \E t \in Txs, p \in Proposals : DialogPreview(d, t, p)
             \/ DialogLeave(d) \/ LoseAnswer(d)
      PROVE  CountInv'
  BY <1>3, <1>6 DEF DialogPreview, DialogLeave, LoseAnswer, historyVars, caseVars, NoNewOpener
<1>7. ASSUME NEW d \in Dialogs, NEW c \in Calls, StartApply(d, c) PROVE CountInv'
  <2> DEFINE row == [at |-> "fetch", key |-> dialog[d].key, series |-> dialog[d].series,
                     resume |-> dialog[d].resume, case |-> 0]
  <2>1. /\ UNCHANGED <<cases, missed>> /\ crossed \subseteq crossed'
        /\ call' = [call EXCEPT ![c] = row]
    BY <1>7 DEF StartApply, caseVars
  <2>2. row.at = "fetch"
    OBVIOUS
  <2> HIDE DEF row
  <2>3. NoNewOpener
    BY <1>2, <2>1, <2>2 DEF NoNewOpener, Opener, CallersTyped
  <2>4. \A x \in Keys : WithKey(x)' = WithKey(x) /\ missed[x] \in Nat
    BY <2>1, KeysStay DEF Opened, CountInv
  <2>5. QED
    BY <1>2, <2>1, <2>3, <2>4, CountStays DEF CountInv, NoNewOpener
<1>8. ASSUME NEW c \in Calls, CallDies(c) PROVE CountInv'
  <2>1. UNCHANGED <<cases, missed, crossed>> /\ call' = [call EXCEPT ![c] = None]
    BY <1>8 DEF CallDies, caseVars, historyVars
  <2>2. NoNewOpener
    BY <1>2, <2>1 DEF NoNewOpener, Opener, CallersTyped
  <2>3. QED
    BY <1>3, <2>1, <2>2
<1>9. ASSUME NEW c \in Calls, CallStep(c) PROVE CountInv'
  BY <1>1, <1>9, FindKeepsCount, PrecheckKeepsCount, OpenCaseKeepsCount, CallStepKeepsCount
     DEF CallStep
<1>10. ASSUME NEW i \in Opened, NEW to \in Statuses \ {"open", "applied"}, ClerkReads(i, to)
       PROVE  CountInv'
  BY <1>3, <1>10 DEF ClerkReads, caseVars, historyVars, NoNewOpener
<1>11. CASE \/ ClerkWrites
            \/ \E t \in Txs, corrected \in Reclassifications : Reclassify(t, corrected)
  BY <1>1, <1>11, OthersKeepCount
<1>12. QED
  BY <1>4, <1>5, <1>6, <1>7, <1>8, <1>9, <1>10, <1>11, Zenon DEF Next

LEMMA CountHolds == Spec => [](Inv /\ CountInv)
<1>1. Init => Inv /\ CountInv
  BY InitInv, InitCount
<1>2. Inv /\ CountInv /\ [Next]_vars => Inv' /\ CountInv'
  BY NextInv, NextCount
<1>3. QED
  BY <1>1, <1>2, PTL DEF Spec

(* However often Apply is pressed after lost answers, failed reads and       *)
(* procedures and dead servers, the rows of a proposal are inserted once,   *)
(* and once more at most for each lookup that missed the cases of its key,  *)
(* provided no two calls for it overlapped and no transition wrote over the *)
(* applied case: applyControlledCorrectionAction resumes the case of its    *)
(* idempotency key.                                                        *)
THEOREM RetriesInsertOnce == Spec => []RetriesApplyOnce
<1>1. Inv /\ CountInv => RetriesApplyOnce
  <2> SUFFICES ASSUME Inv, CountInv, NEW k \in KeysInUse \ crossed
               PROVE  Cardinality(Applications(k)) <= 1 + missed[k]
    BY DEF RetriesApplyOnce
  <2>1. CasesTyped /\ k # None /\ k \in Keys
    BY CaseFields DEF Inv, CasesInv, KeysInUse
  <2> DEFINE S == WithKey(k)
             T == {<<i, 1>> : i \in S}
             f == [i \in S |-> <<i, 1>>]
  <2>2. Applications(k) \subseteq T
    <3>1. ASSUME NEW i \in S, NEW n \in DOMAIN lineage[i] PROVE <<i, n>> \in T
      <4>1. DOMAIN lineage[i] = {1}
        BY <3>1 DEF Inv, CasesInv, InsertedOnce, WithKey
      <4>2. QED
        BY <3>1, <4>1
    <3>2. QED
      BY <3>1 DEF Applications
  <2>3. IsFiniteSet(S) /\ Cardinality(S) \in Nat
    BY <2>1, CasesOfAKeyAreFinite
  <2>4. IsFiniteSet(T) /\ Cardinality(T) <= Cardinality(S)
    <3>1. f \in Surjection(S, T)
      BY DEF Surjection
    <3> HIDE DEF S, T, f
    <3>2. QED
      BY ONLY <2>3, <3>1, FS_Surjection
  <2>5. Cardinality(Applications(k)) <= Cardinality(T) /\ IsFiniteSet(Applications(k))
    BY <2>2, <2>4, FS_Subset, Zenon
  <2>6. Cardinality(S) <= 1 + missed[k] /\ missed[k] \in Nat
    BY <2>1 DEF CountInv, FewCases
  <2>7. Cardinality(T) \in Nat /\ Cardinality(Applications(k)) \in Nat
    BY <2>4, <2>5, FS_CardinalityType
  <2>8. QED
    BY <2>3, <2>4, <2>5, <2>6, <2>7
<1>2. QED
  BY <1>1, CountHolds, PTL

(* apply_reclassification_correction opens one case per transaction and     *)
(* canonical identity of the corrected values, whatever spelling the callers *)
(* use and whatever else happens to the transaction.                        *)
THEOREM ReclassificationIsSingle == Spec => []ReclassifiedOncePerIdentity
<1>1. Inv => ReclassifiedOncePerIdentity
  BY DEF Inv, CasesInv
<1>2. QED
  BY <1>1, InvHolds, PTL

-----------------------------------------------------------------------------
(* The rows that are inserted.                                             *)
LEMMA InsertedRows ==
  ASSUME NEW original, NEW role1, NEW row1, NEW role2, NEW row2
  PROVE  LET rows == InsertRows(original, <<[role |-> role1, row |-> row1],
                                            [role |-> role2, row |-> row2]>>)
         IN  /\ DOMAIN rows = 1..2
             /\ rows[1].row = Inherited(row1, original)
             /\ rows[2].row = Inherited(row2, original)
<1> DEFINE entries == <<[role |-> role1, row |-> row1], [role |-> role2, row |-> row2]>>
<1>1. /\ DOMAIN entries = 1..2
      /\ entries[1].row = row1 /\ entries[2].row = row2
  OBVIOUS
<1> HIDE DEF entries
<1>2. /\ DOMAIN InsertRows(original, entries) = 1..2
      /\ \A m \in 1..2 : InsertRows(original, entries)[m].row
                           = Inherited(entries[m].row, original)
  BY <1>1 DEF InsertRows
<1>3. QED
  BY <1>1, <1>2 DEF entries

(* What a success shows.  The reclassification may apply a case that an     *)
(* interactive call opened; the database accepts its rows only if they are  *)
(* the rows that the workspace planned for that case.                      *)
LEMMA AdoptedRowsArePlanned ==
  ASSUME NEW original, NEW proposed, NEW corrected,
         IsRow(original), IsRow(proposed), Whitelisted(corrected),
         CorrectionType(original, proposed) = "reclassification",
         Accepts(CaseOf(original, proposed), original, ReclassRows(original, corrected))
  PROVE  /\ DOMAIN InsertRows(original, PlanEntries(original, proposed)) = 1..2
         /\ \A m \in 1..2 :
              ReclassRows(original, corrected)[m].row
                = InsertRows(original, PlanEntries(original, proposed))[m].row
<1> DEFINE row == ReclassRows(original, corrected)[2].row
           case == CaseOf(original, proposed)
           planned == InsertRows(original, PlanEntries(original, proposed))
           values == Authorised(original, proposed)
<1>1. /\ ReclassRows(original, corrected)[1].row
            = [original EXCEPT !.date = original.date, !.amount = -@, !.charge = Negated(@)]
      /\ ReclassRows(original, corrected)[2].role = "rebook"
      /\ row = [f \in RowFields |-> IF f \in DOMAIN corrected THEN corrected[f] ELSE original[f]]
      /\ DOMAIN ReclassRows(original, corrected) = 1..2
  BY DEF ReclassRows, Reversal
<1>2. \A f \in BoundFields : row[f] = IF f \in values THEN proposed[f] ELSE original[f]
  <2>1. BindsValues(ReclassRows(original, corrected)[2], original, case)
    BY <1>1 DEF Accepts
  <2>2. case.corrected = [f \in values |-> proposed[f]]
    BY DEF CaseOf
  <2> HIDE DEF case, values
  <2>3. QED
    BY <1>1, <2>1, <2>2 DEF BindsValues
<1>3. \A f \in RowFields \ ReclassFields : row[f] = original[f]
  BY <1>1 DEF Whitelisted
<1>4. \A f \in {"subcategory", "description"} : row[f] = Null => original[f] = Null
  BY <1>1 DEF Whitelisted, RowFields
<1>5. /\ Changed(original, proposed) \cap MoneyFields = {}
      /\ Changed(original, proposed) \cap ClassFields # {}
  BY DEF CorrectionType
<1>6. proposed.amount = original.amount /\ proposed.charge = original.charge
  BY <1>5 DEF Changed, Differs, MoneyFields, M1Fields, RowFields
<1> HIDE DEF row
<1> DEFINE reversed == [original EXCEPT !.date = original.date, !.amount = -@,
                                       !.charge = Negated(@)]
<1>7. IsRow(reversed) /\ Inherited(reversed, original) = reversed
  <2>1. \A x : Coalesce(x, x) = x
    BY DEF Coalesce
  <2>2. /\ reversed = [f \in RowFields |-> reversed[f]]
        /\ \A f \in {"subcategory", "description"} : reversed[f] = original[f]
    BY DEF IsRow, RowFields
  <2> HIDE DEF reversed
  <2>3. QED
    BY <2>1, <2>2 DEF Inherited, IsRow
<1> HIDE DEF reversed
<1>8. CASE Mechanism(original, proposed) = "reclassify"
  <2>1. values = ClassFields
    BY <1>8 DEF Authorised
  <2> DEFINE rebook == [original EXCEPT !.category = proposed.category,
                                        !.subcategory = proposed.subcategory]
  <2>2. planned = InsertRows(original, <<[role |-> "reversal", row |-> reversed],
                                         [role |-> "rebook", row |-> rebook]>>)
    BY <1>8 DEF PlanEntries, Reversal, reversed
  <2>3. /\ IsRow(rebook)
        /\ \A f \in RowFields :
             rebook[f] = IF f \in ClassFields THEN proposed[f] ELSE original[f]
    BY DEF IsRow, RowFields, ClassFields
  <2> HIDE DEF rebook, planned
  <2>4. \A f \in RowFields : row[f] = rebook[f]
    <3>1. \A f \in MoneyFields : row[f] = rebook[f]
      BY <1>3, <2>3 DEF RowFields, MoneyFields, ReclassFields, ClassFields
    <3>2. QED
      BY <1>2, <2>1, <2>3, <3>1 DEF BoundFields
  <2>5. Inherited(rebook, original) = row
    BY <1>1, <1>4, <2>4 DEF row, Coalesce, Inherited, RowFields
  <2>6. /\ DOMAIN planned = 1..2
        /\ planned[1].row = Inherited(reversed, original)
        /\ planned[2].row = Inherited(rebook, original)
    BY <1>7, <2>2, <2>3, InsertedRows
  <2>7. QED
    BY <1>1, <1>7, <2>5, <2>6 DEF row, planned, reversed
<1>9. CASE Mechanism(original, proposed) # "reclassify"
  <2>1. values = M1Fields
    BY <1>9 DEF Authorised
  <2>2. proposed.date = original.date
    BY <1>2, <1>3, <2>1 DEF BoundFields, RowFields, MoneyFields, M1Fields, ReclassFields
  <2> DEFINE replacement == [proposed EXCEPT !.property = original.property]
  <2>3. planned = InsertRows(original, <<[role |-> "reversal", row |-> reversed],
                                         [role |-> "replacement", row |-> replacement]>>)
    BY <1>9, <2>2 DEF PlanEntries, Reversal, reversed
  <2>4. /\ IsRow(replacement)
        /\ \A f \in RowFields :
             replacement[f] = IF f \in M1Fields THEN proposed[f] ELSE original[f]
    BY DEF IsRow, RowFields, M1Fields
  <2> HIDE DEF replacement, planned
  <2>5. \A f \in RowFields : row[f] = replacement[f]
    <3>1. \A f \in MoneyFields : row[f] = replacement[f]
      BY <1>3, <1>6, <2>4 DEF RowFields, MoneyFields, ReclassFields, M1Fields
    <3>2. QED
      BY <1>2, <2>1, <2>4, <3>1 DEF BoundFields
  <2>6. Inherited(replacement, original) = row
    BY <1>1, <1>4, <2>5 DEF row, Coalesce, Inherited, RowFields
  <2>7. /\ DOMAIN planned = 1..2
        /\ planned[1].row = Inherited(reversed, original)
        /\ planned[2].row = Inherited(replacement, original)
    BY <1>7, <2>3, <2>4, InsertedRows
  <2>8. QED
    BY <1>1, <1>7, <2>6, <2>7 DEF row, planned, reversed
<1>10. QED
  BY <1>8, <1>9

(* The rows of a case that was opened under a key are those planned for the *)
(* key, and an applied one has them; a dialog waits for a call of its own   *)
(* preview, and shows success for a case of it that has its rows.           *)
RowPairs ==
    {Stored(PlannedRows(k)) : k \in Keys}
        \cup {Stored(ReclassRows(OriginalRow[t], r)) : t \in Txs, r \in Reclassifications}

Inserted(i) == DOMAIN lineage[i] # {}

HasPlannedRows(i) ==
    \A n \in DOMAIN lineage[i], m \in 1..2 :
        lineage[i][n][m].row = Stored(PlannedRows(cases[i].key))[m].row

KeyedCase(i) ==
    cases[i].key # None =>
        /\ cases[i].content = CaseOf(OriginalRow[cases[i].key.tx], cases[i].key.proposed)
        /\ cases[i].status = "applied" => Inserted(i)
        /\ HasPlannedRows(i)

KeyedCases ==
    /\ lineage \in [CaseIds -> Seq(RowPairs)]
    /\ \A i \in Opened : KeyedCase(i)

DialogFits(d) ==
    dialog[d] # None =>
        /\ dialog[d].waits # None => /\ call[dialog[d].waits] # None
                                     /\ call[dialog[d].waits].key = dialog[d].key
        /\ dialog[d].done # 0 => /\ dialog[d].done \in Opened
                                 /\ cases[dialog[d].done].key = dialog[d].key
                                 /\ Inserted(dialog[d].done)

DialogsFit == \A d \in Dialogs : DialogFits(d)

LedgerInv == KeyedCases /\ DialogsFit

(* Rows are only added.                                                    *)
LedgerGrows ==
    \A i \in Opened :
        /\ i \in Opened'
        /\ cases'[i].key = cases[i].key
        /\ DOMAIN lineage[i] # {} => DOMAIN lineage'[i] # {}

-----------------------------------------------------------------------------
(* Steps of the dialogs and calls, whatever else the step does.             *)
LEMMA DialogsStay ==
  ASSUME DialogsFit, LedgerGrows, UNCHANGED <<dialog, call>>
  PROVE  DialogsFit'
BY DEF DialogsFit, LedgerGrows, DialogFits, Inserted

LEMMA DialogsSeeGoto ==
  ASSUME CallersTyped, DialogsFit, LedgerGrows, NEW c \in Calls, call[c] # None,
         NEW at \in Places, NEW i \in 0..NumCases, Goto(c, at, i)
  PROVE  DialogsFit'
<1> DEFINE moved == [call[c] EXCEPT !.at = at, !.case = i]
<1>1. moved \in CallRows /\ moved.key = call[c].key
  BY CallFields DEF CallRows
<1>2. moved # None
  BY <1>1, CorrectionAssumption
<1>3. call' = [call EXCEPT ![c] = moved] /\ UNCHANGED dialog
  BY DEF Goto
<1> HIDE DEF moved
<1>4. /\ \A e \in Calls : call[e] # None => call'[e] # None /\ call'[e].key = call[e].key
  BY <1>1, <1>2, <1>3 DEF CallersTyped
<1>5. ASSUME NEW d \in Dialogs, dialog[d] # None
      PROVE  dialog[d].waits \in Calls \cup {None}
  BY <1>5 DEF CallersTyped, DialogRows
<1>6. QED
  BY <1>3, <1>4, <1>5 DEF DialogsFit, DialogFits, Inserted, LedgerGrows

(* A call that ends without success, or for a case of its key with rows.    *)
LEMMA DialogsSeeAnswer ==
  ASSUME CallersTyped, DialogsFit, LedgerGrows, NEW c \in Calls, call[c] # None,
         NEW ok \in BOOLEAN, NEW i \in 0..NumCases, Answer(c, ok, i),
         ok => i \in Opened /\ cases[i].key = call[c].key /\ DOMAIN lineage'[i] # {}
  PROVE  DialogsFit'
<1>1. \A e \in Calls \ {c} : call'[e] = call[e]
  BY DEF Answer, CallersTyped
<1>2. ASSUME NEW d \in Dialogs PROVE DialogFits(d)'
  <2>1. CASE dialog[d] # None /\ dialog[d].waits = c
    <3>1. dialog[d] \in DialogRows /\ dialog[d].key = call[c].key
      BY <2>1, DialogFields, CorrectionAssumption DEF DialogsFit, DialogFits
    <3>2. dialog'[d] = [dialog[d] EXCEPT !.waits = None,
                           !.done = IF ok THEN i ELSE 0,
                           !.resume = IF ~ok /\ i # 0 THEN i ELSE @]
      BY <2>1 DEF Answer
    <3>3. /\ dialog'[d].waits = None /\ dialog'[d].key = call[c].key
          /\ dialog'[d].done = IF ok THEN i ELSE 0
      BY <3>1, <3>2 DEF DialogRows
    <3>4. QED
      BY <3>3 DEF DialogFits, Inserted, LedgerGrows
  <2>2. CASE ~(dialog[d] # None /\ dialog[d].waits = c)
    <3>1. dialog'[d] = dialog[d]
      BY <2>2 DEF Answer
    <3>2. dialog[d] # None => dialog[d].waits \in (Calls \ {c}) \cup {None}
      BY <2>2 DEF CallersTyped, DialogRows
    <3>3. QED
      BY <1>1, <3>1, <3>2 DEF DialogsFit, DialogFits, Inserted, LedgerGrows
  <2>3. QED
    BY <2>1, <2>2
<1>3. QED
  BY <1>2 DEF DialogsFit

LEMMA DialogsAct ==
  ASSUME Inv, DialogsFit,
         \/ \E d \in Dialogs, t \in Txs, p \in Proposals : DialogPreview(d, t, p)
         \/ \E d \in Dialogs : DialogLeave(d) \/ LoseAnswer(d)
         \/ \E d \in Dialogs, c \in Calls : StartApply(d, c)
         \/ \E c \in Calls : CallDies(c)
  PROVE  DialogsFit' /\ UNCHANGED caseVars
<1> USE DEF Inv, CallersInv
<1>1. ASSUME NEW d \in Dialogs, NEW t \in Txs, NEW p \in Proposals, DialogPreview(d, t, p)
      PROVE  DialogsFit' /\ UNCHANGED caseVars
  <2> DEFINE row == [key |-> Key(t, version[t], p), series |-> BoundSeries(t),
                     resume |-> 0, waits |-> None, done |-> 0]
  <2>1. UNCHANGED <<cases, lineage, call, Opened>> /\ dialog' = [dialog EXCEPT ![d] = row]
    BY <1>1 DEF DialogPreview, Opened, caseVars
  <2>2. row.waits = None /\ row.done = 0
    OBVIOUS
  <2> HIDE DEF row
  <2>3. QED
    BY <2>1, <2>2 DEF DialogsFit, DialogFits, Inserted, caseVars, CallersTyped
<1>2. ASSUME NEW d \in Dialogs, DialogLeave(d) \/ LoseAnswer(d)
      PROVE  DialogsFit' /\ UNCHANGED caseVars
  <2>1. UNCHANGED <<cases, lineage, call, Opened>>
    BY <1>2 DEF DialogLeave, LoseAnswer, Opened, caseVars
  <2>2. ASSUME NEW e \in Dialogs
        PROVE  \/ dialog'[e] = dialog[e]
               \/ dialog'[e] = None
               \/ /\ dialog[e] # None /\ dialog'[e].waits = None
                  /\ dialog'[e].key = dialog[e].key /\ dialog'[e].done = dialog[e].done
    BY <1>2, DialogFields DEF DialogLeave, LoseAnswer, CallersTyped, DialogRows
  <2>3. QED
    BY <2>1, <2>2 DEF DialogsFit, DialogFits, Inserted, caseVars
<1>3. ASSUME NEW d \in Dialogs, NEW c \in Calls, StartApply(d, c)
      PROVE  DialogsFit' /\ UNCHANGED caseVars
  <2> DEFINE row == [at |-> "fetch", key |-> dialog[d].key, series |-> dialog[d].series,
                     resume |-> dialog[d].resume, case |-> 0]
  <2>1. /\ UNCHANGED <<cases, lineage, Opened>>
        /\ dialog[d] # None /\ call[c] = None /\ dialog[d].done = 0
        /\ dialog[d].series # None
        /\ call' = [call EXCEPT ![c] = row]
        /\ dialog' = [dialog EXCEPT ![d].waits = c]
    BY <1>3 DEF StartApply, Opened, caseVars
  <2>2. row \in CallRows /\ row.key = dialog[d].key
    BY <2>1, DialogFields, CorrectionAssumption DEF CallRows, Places
  <2>3. row # None
    BY <2>2, CorrectionAssumption
  <2> HIDE DEF row
  <2>4. /\ call'[c] # None /\ call'[c].key = dialog[d].key
        /\ \A e \in Calls \ {c} : call'[e] = call[e]
    BY <2>1, <2>2, <2>3 DEF CallersTyped
  <2>5. /\ dialog'[d].waits = c /\ dialog'[d].key = dialog[d].key /\ dialog'[d].done = 0
        /\ \A e \in Dialogs \ {d} : dialog'[e] = dialog[e]
    BY <2>1, DialogFields DEF CallersTyped, DialogRows
  <2>6. ASSUME NEW e \in Dialogs, dialog[e] # None, dialog[e].waits # None
        PROVE  dialog[e].waits \in Calls \ {c}
    BY <2>1, <2>6 DEF CallersTyped, DialogRows, DialogsFit, DialogFits
  <2>7. QED
    BY <2>1, <2>4, <2>5, <2>6 DEF DialogsFit, DialogFits, Inserted, caseVars
<1>4. ASSUME NEW c \in Calls, CallDies(c)
      PROVE  DialogsFit' /\ UNCHANGED caseVars
  <2>1. /\ UNCHANGED <<cases, lineage, Opened>>
        /\ \A e \in Calls \ {c} : call'[e] = call[e]
    BY <1>4 DEF CallDies, Opened, caseVars, CallersTyped
  <2>2. ASSUME NEW e \in Dialogs, dialog[e] # None
        PROVE  \/ dialog'[e] = dialog[e] /\ dialog[e].waits \in (Calls \ {c}) \cup {None}
               \/ /\ dialog'[e].waits = None
                  /\ dialog'[e].key = dialog[e].key /\ dialog'[e].done = dialog[e].done
    BY <1>4, <2>2, DialogFields DEF CallDies, DialogRows
  <2>3. \A e \in Dialogs : dialog[e] = None => dialog'[e] = None
    BY <1>4 DEF CallDies
  <2>4. QED
    BY <2>1, <2>2, <2>3 DEF DialogsFit, DialogFits, Inserted, caseVars
<1>5. QED
  BY <1>1, <1>2, <1>3, <1>4

-----------------------------------------------------------------------------
(* Steps of the cases.                                                     *)
LEMMA KeyedCasesStay ==
  ASSUME KeyedCases, UNCHANGED caseVars
  PROVE  KeyedCases' /\ LedgerGrows /\ UNCHANGED lineage
BY DEF KeyedCases, KeyedCase, Inserted, HasPlannedRows, LedgerGrows, Opened, caseVars

LEMMA KeyedCasesDecide ==
  ASSUME CasesTyped, KeyedCases, NEW i \in Opened, NEW to \in Statuses \ {"applied"},
         cases' = [cases EXCEPT ![i].status = to], UNCHANGED lineage
  PROVE  KeyedCases' /\ LedgerGrows
<1>1. i \in CaseIds /\ cases[i] \in CaseRows
  BY CaseFields
<1>2. \A j \in CaseIds : (cases'[j] # None) => j \in Opened
  BY <1>1 DEF Opened, CasesTyped
<1>3. \A j \in Opened : /\ j \in CaseIds
                        /\ cases'[j].key = cases[j].key
                        /\ cases'[j].content = cases[j].content
                        /\ cases'[j].status \in {cases[j].status, to}
  BY <1>1 DEF Opened, CasesTyped, CaseRows
<1>4. cases'[i] # None
  <2>1. [cases[i] EXCEPT !.status = to] \in CaseRows
    BY <1>1 DEF CaseRows
  <2>2. QED
    BY <1>1, <2>1, CorrectionAssumption DEF CasesTyped
<1>5. Opened' = Opened
  BY <1>1, <1>2, <1>4 DEF Opened, CasesTyped
<1>6. ASSUME NEW j \in Opened PROVE KeyedCase(j)'
  BY <1>3, <1>6 DEF KeyedCases, KeyedCase, Inserted, HasPlannedRows
<1>7. QED
  BY <1>3, <1>5, <1>6 DEF KeyedCases, LedgerGrows

LEMMA KeyedCasesApply ==
  ASSUME CasesTyped, KeyedCases, NEW i \in Opened, NEW rows, ApplyTo(i, rows),
         cases[i].key # None, Stored(rows) \in RowPairs,
         \A m \in 1..2 : Stored(rows)[m].row = Stored(PlannedRows(cases[i].key))[m].row
  PROVE  KeyedCases' /\ LedgerGrows /\ DOMAIN lineage'[i] # {}
<1> DEFINE x == Stored(rows)
           row == [cases[i] EXCEPT !.status = "applied"]
<1>1. i \in CaseIds /\ cases[i] \in CaseRows /\ lineage[i] \in Seq(RowPairs)
  BY CaseFields DEF KeyedCases
<1>2. /\ row \in CaseRows /\ row.key = cases[i].key /\ row.content = cases[i].content
  BY <1>1 DEF CaseRows, Statuses
<1>3. /\ cases' = [cases EXCEPT ![i] = row]
      /\ lineage' = [lineage EXCEPT ![i] = Append(@, x)]
  BY DEF ApplyTo
<1>4. row # None
  BY <1>2, CorrectionAssumption
<1> HIDE DEF row, x
<1>5. /\ cases'[i] = row
      /\ \A j \in CaseIds \ {i} : cases'[j] = cases[j]
  BY <1>1, <1>3 DEF CasesTyped
<1>6. Opened' = Opened
  BY <1>1, <1>4, <1>5 DEF Opened
<1>7. /\ lineage'[i] = Append(lineage[i], x)
      /\ \A j \in CaseIds \ {i} : lineage'[j] = lineage[j]
      /\ x \in RowPairs
  BY <1>1, <1>3 DEF KeyedCases, x
<1>8. /\ Append(lineage[i], x) \in Seq(RowPairs)
      /\ Len(lineage[i]) \in Nat
      /\ DOMAIN lineage[i] = 1..Len(lineage[i])
      /\ DOMAIN Append(lineage[i], x) = 1..(Len(lineage[i]) + 1)
      /\ \A n \in DOMAIN lineage[i] : Append(lineage[i], x)[n] = lineage[i][n]
      /\ Append(lineage[i], x)[Len(lineage[i]) + 1] = x
  BY <1>1, <1>7
<1>9. lineage' \in [CaseIds -> Seq(RowPairs)]
  BY <1>1, <1>3, <1>8 DEF KeyedCases
<1>10. DOMAIN lineage'[i] # {}
  BY <1>7, <1>8
<1>11. \A j \in Opened : j \in CaseIds
  BY DEF Opened
<1>12. ASSUME NEW j \in Opened PROVE KeyedCase(j)'
  <2>1. CASE j = i
    <3>1. ASSUME NEW n \in DOMAIN lineage'[i], NEW m \in 1..2
          PROVE  lineage'[i][n][m].row = Stored(PlannedRows(cases[i].key))[m].row
      <4>1. n \in DOMAIN lineage[i] \/ n = Len(lineage[i]) + 1
        BY <1>7, <1>8
      <4>2. CASE n \in DOMAIN lineage[i]
        BY <1>7, <1>8, <4>2 DEF KeyedCases, KeyedCase, HasPlannedRows
      <4>3. CASE n = Len(lineage[i]) + 1
        BY <1>7, <1>8, <4>3 DEF x
      <4>4. QED
        BY <4>1, <4>2, <4>3
    <3>2. QED
      BY <1>2, <1>5, <1>10, <2>1, <3>1
         DEF KeyedCases, KeyedCase, HasPlannedRows, Inserted
  <2>2. CASE j # i
    BY <1>5, <1>7, <1>11, <2>2 DEF KeyedCases, KeyedCase, HasPlannedRows, Inserted
  <2>3. QED
    BY <2>1, <2>2
<1>13. LedgerGrows
  BY <1>2, <1>5, <1>6, <1>7, <1>10, <1>11 DEF LedgerGrows
<1>14. QED
  BY <1>6, <1>9, <1>10, <1>12, <1>13 DEF KeyedCases

LEMMA KeyedCasesOpen ==
  ASSUME CasesTyped, KeyedCases, NEW n \in CaseIds, n = NextId, NEW row \in CaseRows,
         NEW x \in RowPairs, cases' = [cases EXCEPT ![n] = row],
         row.key # None =>
            /\ UNCHANGED lineage
            /\ row.status = "open"
            /\ row.content = CaseOf(OriginalRow[row.key.tx], row.key.proposed),
         row.key = None => lineage' = [lineage EXCEPT ![n] = <<x>>]
  PROVE  KeyedCases' /\ LedgerGrows
<1>1. n \notin Opened /\ row # None
  BY NextIdIsFree, CorrectionAssumption
<1>2. /\ cases'[n] = row
      /\ \A j \in CaseIds \ {n} : cases'[j] = cases[j]
  BY DEF CasesTyped
<1>3. Opened' = Opened \cup {n} /\ \A j \in Opened : j \in CaseIds \ {n}
  BY <1>1, <1>2 DEF Opened
<1>4. /\ lineage' \in [CaseIds -> Seq(RowPairs)]
      /\ \A j \in CaseIds \ {n} : lineage'[j] = lineage[j]
      /\ row.key # None => lineage'[n] = <<>>
  <2>1. <<x>> \in Seq(RowPairs) /\ lineage[n] = <<>>
    BY <1>1 DEF CasesTyped
  <2>2. QED
    BY <2>1 DEF KeyedCases
<1>5. ASSUME NEW j \in Opened PROVE KeyedCase(j)'
  BY <1>2, <1>3, <1>4 DEF KeyedCases, KeyedCase, HasPlannedRows, Inserted
<1>6. KeyedCase(n)'
  <2>1. CASE row.key # None
    <3>1. DOMAIN lineage'[n] = {}
      BY <1>4, <2>1
    <3>2. QED
      BY <1>2, <2>1, <3>1 DEF KeyedCase, HasPlannedRows
  <2>2. CASE row.key = None
    BY <1>2, <2>2 DEF KeyedCase
  <2>3. QED
    BY <2>1, <2>2
<1>7. LedgerGrows
  BY <1>2, <1>3, <1>4 DEF LedgerGrows
<1>8. QED
  BY <1>3, <1>4, <1>5, <1>6, <1>7 DEF KeyedCases

-----------------------------------------------------------------------------
(* A call that writes nothing moves on, fails, or finds its case applied.   *)
LEMMA ReadingOutcomes ==
  ASSUME Inv, NEW c \in Calls,
         \/ ReadTransaction(c) \/ BindSeries(c) \/ FindCase(c) \/ Precheck(c)
         \/ FindAgain(c) \/ NameOther(c) \/ ApproveRead(c) \/ ProcedureFails(c)
  PROVE  /\ call[c] # None /\ UNCHANGED caseVars
         /\ \/ \E at \in Places, i \in 0..NumCases : Goto(c, at, i)
            \/ \E i \in 0..NumCases : Answer(c, FALSE, i)
            \/ \E i \in Opened : /\ cases[i].status = "applied"
                                 /\ cases[i].key = call[c].key
                                 /\ Answer(c, TRUE, i)
<1>1. call[c] # None /\ UNCHANGED caseVars
  BY DEF ReadTransaction, BindSeries, FindCase, Precheck, FindAgain, NameOther,
         ApproveRead, ProcedureFails, At
<1>2. 0 \in 0..NumCases /\ \A i \in Opened : i \in 0..NumCases /\ i # 0
  BY CorrectionAssumption DEF Opened, CaseIds
<1>3. call[c].case \in 0..NumCases
  BY <1>1, CallFields DEF Inv, CallersInv
<1>4. Places = {"fetch", "bind", "find", "precheck", "open", "refind", "raced", "other",
                "approve", "approving", "apply"}
  BY DEF Places
<1> DEFINE k == call[c].key
           j == Find(k)
<1>5. j = 0 \/ (j \in Opened /\ cases[j].key = k)
  BY FindType DEF Inv, CasesInv
<1>6. CASE ReadTransaction(c) \/ BindSeries(c)
  BY <1>1, <1>2, <1>4, <1>6 DEF ReadTransaction, BindSeries
<1>7. CASE FindCase(c) \/ FindAgain(c)
  <2>1. \/ Goto(c, "precheck", 0) \/ Goto(c, "other", 0)
        \/ (j # 0 /\ Answer(c, FALSE, j)) \/ Answer(c, FALSE, call[c].case)
        \/ (j # 0 /\ Resume(c, j))
    BY <1>7 DEF FindCase, LookupReads, LookupMisses, FindAgain
  <2>2. CASE j # 0 /\ Resume(c, j)
    BY <1>1, <1>2, <1>4, <1>5, <2>2 DEF Resume
  <2>3. QED
    BY <1>1, <1>2, <1>3, <1>4, <1>5, <2>1, <2>2
<1>8. CASE Precheck(c)
  <2>1. \/ Goto(c, "open", 0)
        \/ \E i \in Opened : Goto(c, "refind", i) \/ Answer(c, FALSE, i)
    BY <1>8 DEF Precheck, NonterminalOf
  <2>2. QED
    BY <1>1, <1>2, <1>4, <2>1
<1>9. CASE NameOther(c)
  BY <1>1, <1>2, <1>9 DEF NameOther, NonterminalOf
<1>10. CASE ApproveRead(c)
  BY <1>1, <1>3, <1>4, <1>10 DEF ApproveRead
<1>11. CASE ProcedureFails(c)
  BY <1>1, <1>3, <1>11 DEF ProcedureFails
<1>12. QED
  BY <1>6, <1>7, <1>8, <1>9, <1>10, <1>11

LEMMA ReadingKeepsLedger ==
  ASSUME Inv, LedgerInv, NEW c \in Calls,
         \/ ReadTransaction(c) \/ BindSeries(c) \/ FindCase(c) \/ Precheck(c)
         \/ FindAgain(c) \/ NameOther(c) \/ ApproveRead(c) \/ ProcedureFails(c)
  PROVE  LedgerInv'
<1>1. /\ call[c] # None /\ UNCHANGED caseVars
      /\ \/ \E at \in Places, i \in 0..NumCases : Goto(c, at, i)
         \/ \E i \in 0..NumCases : Answer(c, FALSE, i)
         \/ \E i \in Opened : /\ cases[i].status = "applied"
                              /\ cases[i].key = call[c].key
                              /\ Answer(c, TRUE, i)
  BY ReadingOutcomes
<1>2. /\ KeyedCases' /\ LedgerGrows /\ UNCHANGED lineage
      /\ KeyedCases /\ DialogsFit /\ CallersTyped
  BY <1>1, KeyedCasesStay DEF LedgerInv, Inv, CallersInv
<1>3. TRUE \in BOOLEAN /\ FALSE \in BOOLEAN
  OBVIOUS
<1>4. ASSUME NEW at \in Places, NEW i \in 0..NumCases, Goto(c, at, i)
      PROVE  DialogsFit'
  BY <1>1, <1>2, <1>4, DialogsSeeGoto
<1>5. ASSUME NEW i \in 0..NumCases, Answer(c, FALSE, i) PROVE DialogsFit'
  BY <1>1, <1>2, <1>3, <1>5, DialogsSeeAnswer
<1>6. ASSUME NEW i \in Opened, cases[i].status = "applied", cases[i].key = call[c].key,
             Answer(c, TRUE, i)
      PROVE  DialogsFit'
  <2>1. i \in 0..NumCases
    BY CorrectionAssumption DEF Opened, CaseIds
  <2>2. call[c].key # None
    BY <1>1, CallFields DEF Inv, CallersInv
  <2>3. DOMAIN lineage'[i] # {}
    BY <1>2, <1>6, <2>2 DEF KeyedCases, KeyedCase, Inserted
  <2>4. QED
    BY <1>1, <1>2, <1>3, <1>6, <2>1, <2>3, DialogsSeeAnswer
<1>7. QED
  BY <1>1, <1>2, <1>4, <1>5, <1>6 DEF LedgerInv

LEMMA OpenCaseKeepsLedger ==
  ASSUME Inv, LedgerInv, NEW c \in Calls, OpenCase(c)
  PROVE  LedgerInv'
<1> DEFINE k == call[c].key
           row == NewCase(k.tx, k, call[c].series, CaseOf(OriginalRow[k.tx], k.proposed))
<1>1. /\ call[c] # None /\ NextId \in CaseIds /\ UNCHANGED lineage
      /\ KeyedCases /\ DialogsFit /\ CallersTyped /\ CasesTyped
  BY DEF OpenCase, At, LedgerInv, Inv, CallersInv, CasesInv
<1>2. k \in Keys /\ k # None /\ call[c].series \in Series
  BY <1>1, CallFields
<1>3. CASE UNCHANGED cases /\ Goto(c, "raced", 0)
  <2>1. "raced" \in Places /\ 0 \in 0..NumCases
    BY CorrectionAssumption DEF Places
  <2>2. KeyedCases' /\ LedgerGrows
    BY <1>1, <1>3, KeyedCasesStay DEF caseVars
  <2>3. QED
    BY <1>1, <1>3, <2>1, <2>2, DialogsSeeGoto DEF LedgerInv
<1>4. CASE cases' = [cases EXCEPT ![NextId] = row] /\ Goto(c, "approve", NextId)
  <2>1. "approve" \in Places /\ NextId \in 0..NumCases
    BY <1>1, CorrectionAssumption DEF Places, CaseIds
  <2>2. /\ row \in CaseRows /\ row.key = k /\ row.status = "open"
        /\ row.content = CaseOf(OriginalRow[k.tx], k.proposed)
    <3>1. CaseOf(OriginalRow[k.tx], k.proposed) \in Contents
      BY <1>2 DEF Keys, Contents
    <3>2. QED
      BY <1>2, <3>1 DEF NewCase, CaseRows, Keys, Statuses
  <2>3. Stored(PlannedRows(k)) \in RowPairs
    BY <1>2 DEF RowPairs
  <2> HIDE DEF row
  <2>4. KeyedCases' /\ LedgerGrows
    BY <1>1, <1>2, <1>4, <2>2, <2>3, KeyedCasesOpen
  <2>5. QED
    BY <1>1, <1>4, <2>1, <2>4, DialogsSeeGoto DEF LedgerInv
<1>5. QED
  BY <1>3, <1>4 DEF OpenCase

LEMMA ApproveWriteKeepsLedger ==
  ASSUME Inv, LedgerInv, NEW c \in Calls, ApproveWrite(c)
  PROVE  LedgerInv'
<1> DEFINE i == call[c].case
<1>1. /\ call[c] # None /\ call[c].at = "approving" /\ UNCHANGED lineage
      /\ KeyedCases /\ DialogsFit /\ CallersTyped /\ CasesTyped
  BY DEF ApproveWrite, At, LedgerInv, Inv, CallersInv, CasesInv
<1>2. i \in Opened /\ i \in 0..NumCases
  BY <1>1, CallFields DEF Inv, CallersInv, CallsHaveTheirCase, AtCase
<1>3. CASE UNCHANGED cases /\ Answer(c, FALSE, i)
  <2>1. KeyedCases' /\ LedgerGrows
    BY <1>1, <1>3, KeyedCasesStay DEF caseVars
  <2>2. QED
    BY <1>1, <1>2, <1>3, <2>1, DialogsSeeAnswer DEF LedgerInv
<1>4. CASE cases' = [cases EXCEPT ![i].status = "approved"] /\ Goto(c, "apply", i)
  <2>1. "approved" \in Statuses \ {"applied"} /\ "apply" \in Places
    BY DEF Statuses, Places
  <2>2. KeyedCases' /\ LedgerGrows
    BY <1>1, <1>2, <1>4, <2>1, KeyedCasesDecide
  <2>3. QED
    BY <1>1, <1>2, <1>4, <2>1, <2>2, DialogsSeeGoto DEF LedgerInv
<1>5. QED
  BY <1>3, <1>4 DEF ApproveWrite

LEMMA ApplyCaseKeepsLedger ==
  ASSUME Inv, LedgerInv, NEW c \in Calls, ApplyCase(c)
  PROVE  LedgerInv'
<1> DEFINE i == call[c].case
           rows == PlannedRows(call[c].key)
<1>1. /\ call[c] # None /\ call[c].at = "apply"
      /\ KeyedCases /\ DialogsFit /\ CallersTyped /\ CasesTyped
  BY DEF ApplyCase, At, LedgerInv, Inv, CallersInv, CasesInv
<1>2. /\ i \in Opened /\ i \in 0..NumCases /\ cases[i].key = call[c].key
      /\ call[c].key \in Keys /\ call[c].key # None
  BY <1>1, CallFields DEF Inv, CallersInv, CallsHaveTheirCase, AtCase
<1>3. CASE UNCHANGED caseVars /\ Answer(c, FALSE, i)
  <2>1. KeyedCases' /\ LedgerGrows
    BY <1>1, <1>3, KeyedCasesStay
  <2>2. QED
    BY <1>1, <1>2, <1>3, <2>1, DialogsSeeAnswer DEF LedgerInv
<1>4. CASE ApplyTo(i, rows) /\ Answer(c, TRUE, i)
  <2>1. Stored(rows) \in RowPairs
    BY <1>2 DEF RowPairs
  <2>2. \A m \in 1..2 : Stored(rows)[m].row = Stored(PlannedRows(cases[i].key))[m].row
    BY <1>2
  <2> HIDE DEF rows
  <2>3. KeyedCases' /\ LedgerGrows /\ DOMAIN lineage'[i] # {}
    BY <1>1, <1>2, <1>4, <2>1, <2>2, KeyedCasesApply
  <2>4. QED
    BY <1>1, <1>2, <1>4, <2>3, DialogsSeeAnswer DEF LedgerInv
<1>5. QED
  BY <1>3, <1>4 DEF ApplyCase, Appliable

LEMMA ClerkKeepsLedger ==
  ASSUME Inv, LedgerInv,
         \/ ClerkWrites
         \/ \E i \in Opened, to \in Statuses \ {"open", "applied"} : ClerkReads(i, to)
  PROVE  LedgerInv'
<1>1. KeyedCases /\ DialogsFit /\ CasesTyped /\ UNCHANGED <<dialog, call, lineage>>
  BY DEF ClerkWrites, ClerkReads, caseVars, LedgerInv, Inv, CasesInv
<1>2. CASE UNCHANGED cases
  BY <1>1, <1>2, KeyedCasesStay, DialogsStay DEF LedgerInv, caseVars
<1>3. CASE clerk # None /\ cases' = [cases EXCEPT ![clerk.case].status = clerk.to]
  <2>1. clerk.case \in Opened /\ clerk.to \in Statuses \ {"applied"}
    BY <1>3 DEF Inv, CallersInv, ClerkHasACase, ClerkRows
  <2>2. KeyedCases' /\ LedgerGrows
    BY <1>1, <1>3, <2>1, KeyedCasesDecide
  <2>3. QED
    BY <1>1, <2>2, DialogsStay DEF LedgerInv
<1>4. QED
  BY <1>2, <1>3 DEF ClerkWrites, ClerkReads, caseVars

LEMMA ReclassifyKeepsLedger ==
  ASSUME Inv, LedgerInv, NEW t \in Txs, NEW corrected \in Reclassifications,
         Reclassify(t, corrected)
  PROVE  LedgerInv'
<1> DEFINE same == SameIdentity(t, corrected)
           rows == ReclassRows(OriginalRow[t], corrected)
           first == CHOOSE i \in same : \A j \in same : i <= j
           content == ReclassCase(OriginalRow[t], corrected)
           opened == NewCase(t, None, CHOOSE s \in Series : TRUE, content)
           fresh == [opened EXCEPT !.status = "applied"]
<1>1. KeyedCases /\ DialogsFit /\ CasesTyped /\ UNCHANGED <<dialog, call>>
  BY DEF Reclassify, LedgerInv, Inv, CasesInv
<1>2. Stored(rows) \in RowPairs
  BY DEF RowPairs
<1>3. CASE /\ same # {} /\ cases[first].status \in Nonterminal
           /\ Accepts(cases[first].content, OriginalRow[t], rows)
           /\ ApplyTo(first, rows)
  <2>1. /\ first \in Opened /\ cases[first].tx = t
        /\ cases[first].content.type = "reclassification"
    <3>1. first \in same
      BY <1>1, <1>3, FirstOfIdentity
    <3> HIDE DEF first
    <3>2. QED
      BY <3>1 DEF SameIdentity
  <2> HIDE DEF first
  <2> DEFINE k == cases[first].key
  <2>2. k # None
    BY <1>3, <2>1 DEF Inv, CasesInv, ReclassifiedCasesAreApplied, Nonterminal
  <2>3. k \in Keys /\ k.tx = t
    BY <1>1, <2>1, <2>2, CaseFields DEF CasesTyped
  <2>4. cases[first].content = CaseOf(OriginalRow[t], k.proposed)
    BY <1>1, <2>1, <2>2, <2>3 DEF KeyedCases, KeyedCase
  <2>5. CorrectionType(OriginalRow[t], k.proposed) = "reclassification"
    BY <2>1, <2>4 DEF CaseOf
  <2>6. /\ IsRow(OriginalRow[t]) /\ IsRow(k.proposed) /\ Whitelisted(corrected)
        /\ PlannedRows(k) = InsertRows(OriginalRow[t], PlanEntries(OriginalRow[t], k.proposed))
    BY <2>3, InputAssumption DEF Keys, PlannedRows
  <2>7. /\ DOMAIN PlannedRows(k) = 1..2
        /\ \A m \in 1..2 : rows[m].row = PlannedRows(k)[m].row
    BY <1>3, <2>4, <2>5, <2>6, AdoptedRowsArePlanned
  <2>8. \A m \in 1..2 : Stored(rows)[m].row = Stored(PlannedRows(k))[m].row
    <3>1. DOMAIN rows = 1..2
      BY DEF ReclassRows
    <3> DEFINE planned == PlannedRows(k)
    <3> HIDE DEF rows, planned
    <3>2. \A m \in 1..2 : Stored(rows)[m].row
             = [rows[m].row EXCEPT !.subcategory = Blank(rows[m].row.subcategory)]
      BY <3>1 DEF Stored
    <3>3. \A m \in 1..2 : Stored(planned)[m].row
             = [planned[m].row EXCEPT !.subcategory = Blank(planned[m].row.subcategory)]
      BY <2>7 DEF Stored, planned
    <3>4. \A m \in 1..2 : rows[m].row = planned[m].row
      BY <2>7 DEF planned
    <3>5. \A m \in 1..2 : Stored(rows)[m].row = Stored(planned)[m].row
      BY <3>2, <3>3, <3>4
    <3>6. QED
      BY <3>5 DEF planned
  <2> HIDE DEF rows
  <2>9. KeyedCases' /\ LedgerGrows
    BY <1>1, <1>2, <1>3, <2>1, <2>2, <2>8, KeyedCasesApply
  <2>10. QED
    BY <1>1, <2>9, DialogsStay DEF LedgerInv
<1>4. CASE /\ same = {} /\ Series # {} /\ NextId \in CaseIds
           /\ cases' = [cases EXCEPT ![NextId] = fresh]
           /\ lineage' = [lineage EXCEPT ![NextId] = <<Stored(rows)>>]
  <2>1. content \in Contents
    BY DEF Contents
  <2>2. (CHOOSE s \in Series : TRUE) \in Series
    BY <1>4
  <2> HIDE DEF content
  <2>3. opened = [tx |-> t, key |-> None, series |-> CHOOSE s \in Series : TRUE,
                  status |-> "open", content |-> content]
    BY DEF NewCase
  <2>4. fresh \in CaseRows /\ fresh.key = None
    BY <2>1, <2>2, <2>3 DEF CaseRows, Statuses
  <2> HIDE DEF fresh, opened, rows
  <2>5. KeyedCases' /\ LedgerGrows
    BY <1>1, <1>2, <1>4, <2>4, KeyedCasesOpen
  <2>6. QED
    BY <1>1, <2>5, DialogsStay DEF LedgerInv
<1>5. QED
  BY <1>3, <1>4, Zenon DEF Reclassify

-----------------------------------------------------------------------------
LEMMA InitLedger == Init => LedgerInv
<1> SUFFICES ASSUME Init PROVE LedgerInv
  OBVIOUS
<1>1. Opened = {} /\ <<>> \in Seq(RowPairs)
  BY DEF Init, Opened
<1>2. QED
  BY <1>1 DEF Init, LedgerInv, KeyedCases, DialogsFit, DialogFits

LEMMA NextLedger == Inv /\ LedgerInv /\ [Next]_vars => LedgerInv'
<1> SUFFICES ASSUME Inv, LedgerInv, [Next]_vars PROVE LedgerInv'
  OBVIOUS
<1>1. ASSUME UNCHANGED <<cases, lineage, dialog, call>> PROVE LedgerInv'
  BY <1>1, KeyedCasesStay, DialogsStay DEF LedgerInv, caseVars
<1>2. ASSUME NEW t \in Txs, \/ Touch(t) \/ Delete(t) \/ \E s \in Series : CloseSeries(t, s)
      PROVE  LedgerInv'
  BY <1>1, <1>2 DEF Touch, Delete, CloseSeries
<1>3. ASSUME \/ \E d \in Dialogs, t \in Txs, p \in Proposals : DialogPreview(d, t, p)
             \/ \E d \in Dialogs : DialogLeave(d) \/ LoseAnswer(d)
             \/ \E d \in Dialogs, c \in Calls : StartApply(d, c)
             \/ \E c \in Calls : CallDies(c)
      PROVE  LedgerInv'
  <2>1. DialogsFit' /\ UNCHANGED caseVars
    BY <1>3, DialogsAct DEF LedgerInv
  <2>2. QED
    BY <2>1, KeyedCasesStay DEF LedgerInv
<1>4. ASSUME NEW c \in Calls, CallStep(c) PROVE LedgerInv'
  BY <1>4, ReadingKeepsLedger, OpenCaseKeepsLedger, ApproveWriteKeepsLedger,
     ApplyCaseKeepsLedger DEF CallStep
<1>5. ASSUME \/ ClerkWrites
             \/ \E i \in Opened, to \in Statuses \ {"open", "applied"} : ClerkReads(i, to)
      PROVE  LedgerInv'
  BY <1>5, ClerkKeepsLedger
<1>6. ASSUME NEW t \in Txs, NEW r \in Reclassifications, Reclassify(t, r) PROVE LedgerInv'
  BY <1>6, ReclassifyKeepsLedger
<1>7. CASE UNCHANGED vars
  BY <1>1, <1>7 DEF vars
<1>8. CASE Next
  BY <1>2, <1>3, <1>4, <1>5, <1>6, <1>8, Zenon DEF Next
<1>9. QED
  BY <1>7, <1>8

LEMMA LedgerHolds == Spec => [](Inv /\ LedgerInv)
BY InitInv, NextInv, InitLedger, NextLedger, PTL DEF Spec

(* When a dialog shows success for a case, the case is that of its preview, *)
(* and the reversal and the forward row the preview planned are in the      *)
(* ledger: applyControlledCorrectionAction answers so only after it applied *)
(* the case or found it applied, and a reclassification that takes the case *)
(* over can only insert the same two rows.                                  *)
THEOREM SuccessIsTrue == Spec => []SuccessIsInTheLedger
<1>1. Inv /\ LedgerInv => SuccessIsInTheLedger
  <2> SUFFICES ASSUME Inv, LedgerInv, NEW d \in Dialogs, dialog[d] # None, dialog[d].done # 0
               PROVE  LET i == dialog[d].done IN
                        /\ cases[i].key = dialog[d].key
                        /\ \E n \in DOMAIN lineage[i] : \A m \in 1..2 :
                             lineage[i][n][m].row = Stored(PlannedRows(dialog[d].key))[m].row
    BY DEF SuccessIsInTheLedger
  <2> DEFINE i == dialog[d].done
  <2>1. i \in Opened /\ cases[i].key = dialog[d].key /\ DOMAIN lineage[i] # {}
    BY DEF LedgerInv, DialogsFit, DialogFits, Inserted
  <2>2. cases[i].key # None
    BY <2>1, DialogFields, CorrectionAssumption DEF Inv, CallersInv
  <2>3. HasPlannedRows(i)
    BY <2>1, <2>2 DEF LedgerInv, KeyedCases, KeyedCase
  <2>4. PICK n \in DOMAIN lineage[i] : TRUE
    BY <2>1
  <2>5. \A m \in 1..2 : lineage[i][n][m].row = Stored(PlannedRows(dialog[d].key))[m].row
    BY <2>1, <2>3, <2>4 DEF HasPlannedRows
  <2>6. QED
    BY <2>1, <2>5
<1>2. QED
  BY <1>1, LedgerHolds, PTL

-----------------------------------------------------------------------------
(* Which corrections the database accepts.                                 *)
LEMMA InsertedRoles ==
  ASSUME NEW original, NEW role1, NEW row1, NEW role2, NEW row2
  PROVE  LET rows == InsertRows(original, <<[role |-> role1, row |-> row1],
                                            [role |-> role2, row |-> row2]>>)
         IN  rows[1].role = role1 /\ rows[2].role = role2
<1> DEFINE entries == <<[role |-> role1, row |-> row1], [role |-> role2, row |-> row2]>>
<1>1. /\ DOMAIN entries = 1..2
      /\ entries[1].role = role1 /\ entries[2].role = role2
  OBVIOUS
<1> HIDE DEF entries
<1>2. \A m \in 1..2 : InsertRows(original, entries)[m].role = entries[m].role
  BY <1>1 DEF InsertRows
<1>3. QED
  BY <1>1, <1>2 DEF entries

(* A change of money is an amount correction.                              *)
LEMMA NeutralTypes ==
  ASSUME NEW original, NEW proposed,
         CorrectionType(original, proposed) \in AmountNeutral
  PROVE  Changed(original, proposed) \cap MoneyFields = {}
<1> DEFINE changed == Changed(original, proposed)
<1>1. changed \cap MoneyFields # {} => /\ changed # {"date"} /\ changed # {"description"}
  BY DEF MoneyFields
<1>2. changed \cap MoneyFields # {} => CorrectionType(original, proposed) = "amount_correction"
  BY <1>1, Zenon DEF CorrectionType
<1>3. "amount_correction" \notin AmountNeutral
  BY DEF AmountNeutral
<1>4. QED
  BY <1>2, <1>3

(* What a reversal row is compared for.                                    *)
LEMMA ReversalFits ==
  ASSUME NEW original, IsRow(original), original.amount \in Int, NEW date, NEW case,
         NEW entry, entry.role = "reversal",
         entry.row = Inherited(Reversal(original, date).row, original)
  PROVE  /\ BindsValues(entry, original, case) <=> date = original.date
         /\ KeepsAmount(entry, original)
         /\ entry.row.amount = -original.amount
<1> DEFINE row == Reversal(original, date).row
<1>1. /\ \A f \in BoundFields : row[f] = IF f = "date" THEN date ELSE original[f]
      /\ row.amount = -original.amount
  BY DEF Reversal, IsRow, BoundFields, RowFields, MoneyFields
<1>2. entry.row = Inherited(row, original)
  OBVIOUS
<1> HIDE DEF row
<1>3. \A f \in RowFields : entry.row[f] = IF f \in {"subcategory", "description"}
                                          THEN Coalesce(row[f], original[f]) ELSE row[f]
  BY <1>2 DEF Inherited
<1>4. \A x : Coalesce(x, x) = x
  BY DEF Coalesce
<1>5. /\ \A f \in BoundFields : entry.row[f] = IF f = "date" THEN date ELSE original[f]
      /\ entry.row.amount = -original.amount
  BY <1>1, <1>3, <1>4 DEF BoundFields, RowFields, MoneyFields
<1>6. BindsValues(entry, original, case) <=> date = original.date
  <2>1. BindsValues(entry, original, case) <=> \A f \in BoundFields : entry.row[f] = original[f]
    BY DEF BindsValues
  <2>2. "date" \in BoundFields
    BY DEF BoundFields, RowFields, MoneyFields
  <2>3. QED
    BY <1>5, <2>1, <2>2
<1>7. KeepsAmount(entry, original)
  BY <1>5 DEF KeepsAmount
<1>8. QED
  BY <1>5, <1>6, <1>7

(* What a forward row is compared for: a text it inherits has to be the one *)
(* that was proposed.                                                      *)
LEMMA ForwardFits ==
  ASSUME NEW original, NEW proposed, NEW fields, fields \subseteq M1Fields, NEW row,
         NEW case, case.corrected = [f \in fields |-> proposed[f]],
         \A f \in RowFields : row[f] = IF f \in fields THEN proposed[f] ELSE original[f],
         NEW entry, entry.role # "reversal", entry.row = Inherited(row, original)
  PROVE  BindsValues(entry, original, case)
           <=> ~\E f \in fields \cap {"subcategory", "description"} :
                     proposed[f] = Null /\ original[f] # Null
<1>1. \A f \in RowFields : entry.row[f] = IF f \in {"subcategory", "description"}
                                          THEN Coalesce(row[f], original[f]) ELSE row[f]
  BY DEF Inherited
<1>2. BindsValues(entry, original, case)
        <=> \A f \in BoundFields :
               entry.row[f] = IF f \in fields THEN proposed[f] ELSE original[f]
  BY DEF BindsValues
<1>3. BoundFields \subseteq RowFields /\ {"subcategory", "description"} \subseteq BoundFields
  BY DEF BoundFields, RowFields, MoneyFields
<1>4. \A f \in BoundFields :
        (entry.row[f] = IF f \in fields THEN proposed[f] ELSE original[f])
          <=> ~(f \in fields \cap {"subcategory", "description"}
                /\ proposed[f] = Null /\ original[f] # Null)
  BY <1>1, <1>3 DEF Coalesce
<1>5. QED
  BY <1>2, <1>3, <1>4

(* The corrections whose rows the database does not accept.                 *)
MovesDateOrClearsText(original, proposed) ==
    \/ proposed.date # original.date
    \/ \E f \in Authorised(original, proposed) \cap {"subcategory", "description"} :
           proposed[f] = Null /\ original[f] # Null

LEMMA AcceptedCorrections ==
  ASSUME NEW original, NEW proposed, IsRow(original), IsRow(proposed),
         original.amount \in Int, proposed.amount \in Int,
         original.date \notin {Null, Empty}, proposed.date \notin {Null, Empty}
  PROVE  Accepts(CaseOf(original, proposed), original,
                 InsertRows(original, PlanEntries(original, proposed)))
           <=> ~MovesDateOrClearsText(original, proposed)
<1> DEFINE rows == InsertRows(original, PlanEntries(original, proposed))
           case == CaseOf(original, proposed)
           fields == Authorised(original, proposed)
           reversed(d) == Reversal(original, d).row
           clears == \E f \in fields \cap {"subcategory", "description"} :
                        proposed[f] = Null /\ original[f] # Null
<1>1. /\ case.corrected = [f \in fields |-> proposed[f]]
      /\ case.type = CorrectionType(original, proposed)
      /\ case.amount = proposed.amount
  BY DEF CaseOf
<1> HIDE DEF case
<1>2. MovesDateOrClearsText(original, proposed) <=> proposed.date # original.date \/ clears
  BY DEF MovesDateOrClearsText
<1>3. \A f \in {"date", "amount"} : f \notin Changed(original, proposed) => proposed[f] = original[f]
  BY DEF Changed, Differs, Blank, M1Fields, RowFields, MoneyFields
<1>4. case.type \in AmountNeutral => proposed.amount = original.amount
  <2>1. case.type \in AmountNeutral => "amount" \notin Changed(original, proposed)
    BY <1>1, NeutralTypes DEF MoneyFields
  <2>2. QED
    BY <2>1, <1>3
<1>5. ASSUME NEW date, NEW role, role # "reversal", NEW row,
             rows = InsertRows(original, <<[role |-> "reversal", row |-> reversed(date)],
                                           [role |-> role, row |-> row]>>),
             fields \subseteq M1Fields,
             \A f \in RowFields : row[f] = IF f \in fields THEN proposed[f] ELSE original[f],
             role = "rebook" => "amount" \notin fields,
             proposed.amount = original.amount \/ "amount" \in fields,
             date # original.date <=> proposed.date # original.date
      PROVE  Accepts(case, original, rows) <=> ~MovesDateOrClearsText(original, proposed)
  <2>1. /\ DOMAIN rows = 1..2
        /\ rows[1].role = "reversal" /\ rows[2].role = role
        /\ rows[1].row = Inherited(reversed(date), original)
        /\ rows[2].row = Inherited(row, original)
    <3> DEFINE r == reversed(date)
    <3> HIDE DEF r, rows
    <3>1. rows = InsertRows(original, <<[role |-> "reversal", row |-> r],
                                        [role |-> role, row |-> row]>>)
      BY <1>5 DEF r
    <3>2. /\ DOMAIN rows = 1..2
          /\ rows[1].row = Inherited(r, original)
          /\ rows[2].row = Inherited(row, original)
      BY <3>1, InsertedRows
    <3>3. rows[1].role = "reversal" /\ rows[2].role = role
      BY <3>1, InsertedRoles
    <3>4. QED
      BY <3>2, <3>3 DEF r
  <2> HIDE DEF rows
  <2>2. /\ BindsValues(rows[1], original, case) <=> date = original.date
        /\ KeepsAmount(rows[1], original)
        /\ rows[1].row.amount = -original.amount
    <3> DEFINE entry == rows[1]
    <3>1. /\ entry.role = "reversal"
          /\ entry.row = Inherited(Reversal(original, date).row, original)
      BY <2>1
    <3> HIDE DEF entry
    <3>2. /\ BindsValues(entry, original, case) <=> date = original.date
          /\ KeepsAmount(entry, original)
          /\ entry.row.amount = -original.amount
      BY ONLY <3>1, IsRow(original), original.amount \in Int, ReversalFits
    <3>3. QED
      BY <3>2 DEF entry
  <2> HIDE DEF reversed
  <2>3. BindsValues(rows[2], original, case) <=> ~clears
    <3> DEFINE entry == rows[2]
    <3>1. entry.role # "reversal" /\ entry.row = Inherited(row, original)
      BY <1>5, <2>1
    <3> HIDE DEF entry, fields
    <3>2. BindsValues(entry, original, case)
            <=> ~\E f \in fields \cap {"subcategory", "description"} :
                     proposed[f] = Null /\ original[f] # Null
      BY <1>1, <1>5, <3>1, ForwardFits
    <3>3. QED
      BY <3>2 DEF entry
  <2>4. rows[2].row.amount = row.amount /\ row.amount = proposed.amount
    <3>1. rows[2].row.amount = row.amount
      BY <2>1 DEF Inherited, RowFields
    <3>2. row.amount = IF "amount" \in fields THEN proposed.amount ELSE original.amount
      BY <1>5 DEF RowFields
    <3>3. QED
      BY <3>1, <3>2, <1>5
  <2>5. KeepsAmount(rows[2], original)
    BY <1>5, <2>1, <2>4 DEF KeepsAmount
  <2>6. Net(rows) = proposed.amount - original.amount
    BY <2>2, <2>4 DEF Net
  <2>7. /\ case.type \in AmountNeutral => Net(rows) = 0
        /\ case.type = "amount_correction" => original.amount + Net(rows) = case.amount
    BY <1>1, <1>4, <2>6
  <2>8. Accepts(case, original, rows)
          <=> BindsValues(rows[1], original, case) /\ BindsValues(rows[2], original, case)
    BY <2>1, <2>2, <2>5, <2>7 DEF Accepts
  <2>9. QED
    BY <1>2, <1>5, <2>2, <2>3, <2>8
<1>6. CASE Mechanism(original, proposed) = "reclassify"
  <2> DEFINE rebook == [original EXCEPT !.category = proposed.category,
                                        !.subcategory = proposed.subcategory]
  <2>1. rows = InsertRows(original, <<[role |-> "reversal", row |-> reversed(original.date)],
                                      [role |-> "rebook", row |-> rebook]>>)
    BY <1>6 DEF PlanEntries, Reversal
  <2>2. fields = ClassFields
    BY <1>6 DEF Authorised
  <2>3. \A f \in RowFields : rebook[f] = IF f \in ClassFields THEN proposed[f] ELSE original[f]
    BY DEF IsRow, RowFields, ClassFields
  <2>4. ClassFields \subseteq M1Fields /\ "amount" \notin ClassFields /\ "date" \notin ClassFields
    BY DEF ClassFields, M1Fields, RowFields
  <2>5. Changed(original, proposed) \subseteq ClassFields
    BY <1>6 DEF Mechanism
  <2>6. proposed.amount = original.amount /\ proposed.date = original.date
    BY <1>3, <2>4, <2>5
  <2> HIDE DEF rows, reversed, rebook, fields
  <2>7. QED
    BY <1>5, <2>1, <2>2, <2>3, <2>4, <2>6 DEF rows, case
<1>7. CASE Mechanism(original, proposed) # "reclassify"
  <2> DEFINE replacement == [proposed EXCEPT !.property = original.property]
  <2>1. rows = InsertRows(original, <<[role |-> "reversal", row |-> reversed(proposed.date)],
                                      [role |-> "replacement", row |-> replacement]>>)
    BY <1>7 DEF PlanEntries, Reversal
  <2>2. fields = M1Fields
    BY <1>7 DEF Authorised
  <2>3. \A f \in RowFields : replacement[f] = IF f \in M1Fields THEN proposed[f] ELSE original[f]
    BY DEF IsRow, RowFields, M1Fields
  <2>4. "amount" \in M1Fields
    BY DEF M1Fields, RowFields
  <2> HIDE DEF rows, reversed, replacement, fields
  <2>5. QED
    BY <1>5, <2>1, <2>2, <2>3, <2>4 DEF rows, case
<1>8. QED
  BY <1>6, <1>7

(* prepareCorrectionApply and apply_correction_case: of the cases a call has *)
(* opened and had approved, the database refuses exactly those that move    *)
(* the date, since the reversal takes the new date, and those that clear a  *)
(* text, since the inserted row inherits it.                               *)
DatesAndClearedTextsAreRefused ==
    \A c \in Calls :
        At(c, "apply") /\ cases[call[c].case].status = "approved" =>
            (Appliable(call[c].case, PlannedRows(call[c].key))
               <=> ~MovesDateOrClearsText(OriginalRow[call[c].key.tx], call[c].key.proposed))

(* What is compared are the case and the original, which no retry changes:  *)
(* such a case keeps the other corrections of its transaction out, until     *)
(* staff decide it.                                                        *)
THEOREM DatesAndClearedTextsAreStuck == Spec => []DatesAndClearedTextsAreRefused
<1>1. Inv /\ LedgerInv => DatesAndClearedTextsAreRefused
  <2> SUFFICES ASSUME Inv, LedgerInv, NEW c \in Calls, At(c, "apply"),
                      cases[call[c].case].status = "approved"
               PROVE  Appliable(call[c].case, PlannedRows(call[c].key))
                        <=> ~MovesDateOrClearsText(OriginalRow[call[c].key.tx],
                                                   call[c].key.proposed)
    BY DEF DatesAndClearedTextsAreRefused
  <2> DEFINE i == call[c].case
             k == call[c].key
  <2>1. /\ call[c] # None /\ k \in Keys /\ k # None
        /\ i \in Opened /\ cases[i].key = k /\ k.tx \in Txs /\ k.proposed \in Proposals
    BY CallFields DEF At, AtCase, Keys, Inv, CallersInv, CallsHaveTheirCase
  <2>2. cases[i].content = CaseOf(OriginalRow[k.tx], k.proposed) /\ cases[i].tx = k.tx
    BY <2>1 DEF LedgerInv, KeyedCases, KeyedCase, Inv, CasesInv, CasesTyped
  <2>3. /\ IsRow(OriginalRow[k.tx]) /\ IsRow(k.proposed)
        /\ OriginalRow[k.tx].amount \in Int /\ k.proposed.amount \in Int
        /\ OriginalRow[k.tx].date \notin {Null, Empty} /\ k.proposed.date \notin {Null, Empty}
    BY <2>1, InputAssumption
  <2>4. Accepts(CaseOf(OriginalRow[k.tx], k.proposed), OriginalRow[k.tx], PlannedRows(k))
          <=> ~MovesDateOrClearsText(OriginalRow[k.tx], k.proposed)
    BY <2>3, AcceptedCorrections DEF PlannedRows
  <2>5. QED
    BY <2>2, <2>4 DEF Appliable
<1>2. QED
  BY <1>1, LedgerHolds, PTL
=============================================================================
