------------------------ MODULE ClientAccountsProofs ------------------------
(***************************************************************************)
(* Theorems about the accounts of clients, for any number of events,       *)
(* transactions, clients and cash executions in any order.                 *)
(***************************************************************************)
EXTENDS ClientAccounts, ClientCashSettlementProofs, FiniteSetTheorems

Payload(k) == settlementEvent[k].payload

EventsTyped == settlementEvent \in [EventKeys -> EventRow \cup {NoRow}]

(* Of the applied events, over all clients, one at most names a source.    *)
SourcesOnce ==
    \A j, k \in AppliedEvents :
        Payload(j).source = Payload(k).source /\ Payload(j).source # NoRow => j = k

(* What the unique indexes keep among events that are not void.            *)
ClaimsOnce == \A j, k \in Standing : SameClaim(Payload(j), Payload(k)) => j = k

EventsInv == EventsTyped /\ SourcesOnce /\ ClaimsOnce

-----------------------------------------------------------------------------
LEMMA EventsInit == AccountsInit => EventsInv
BY DEF AccountsInit, EventsInv, EventsTyped, SourcesOnce, ClaimsOnce, AppliedEvents, Standing,
       HasStatus, EventExists

(* An event that exists has a payload that keeps the table's constraints.  *)
LEMMA EventIsTyped ==
  ASSUME EventsTyped, NEW k \in EventKeys, EventExists(k)
  PROVE  /\ settlementEvent[k] \in EventRow
         /\ Payload(k) \in Payloads
         /\ Payload(k).kind = "noncash" <=> Payload(k).source = NoRow
<1>1. settlementEvent[k] \in EventRow
  BY DEF EventsTyped, EventExists
<1>2. QED
  BY <1>1, EventAssumption DEF EventRow, Payload

(* What a change of status does to the rows.                               *)
LEMMA StatusChange ==
  ASSUME EventsTyped, NEW k \in EventKeys, EventExists(k),
         NEW s \in {"open", "approved", "applied", "void"}, SetEventStatus(k, s)
  PROVE  /\ EventsTyped'
         /\ settlementEvent'[k].status = s
         /\ \A j \in EventKeys :
               /\ j # k => settlementEvent'[j] = settlementEvent[j]
               /\ EventExists(j)' <=> EventExists(j)
               /\ EventExists(j) => Payload(j)' = Payload(j)
<1>1. settlementEvent[k] \in EventRow
  BY EventIsTyped
<1>2. settlementEvent' = [settlementEvent EXCEPT ![k].status = s]
  BY DEF SetEventStatus
<1>3. /\ settlementEvent'[k] = [settlementEvent[k] EXCEPT !.status = s]
      /\ \A j \in EventKeys : j # k => settlementEvent'[j] = settlementEvent[j]
      /\ settlementEvent' \in [EventKeys -> EventRow \cup {NoRow}]
  BY <1>1, <1>2 DEF EventsTyped, EventRow
<1>4. /\ settlementEvent'[k] \in EventRow
      /\ settlementEvent'[k].status = s
      /\ settlementEvent'[k].payload = settlementEvent[k].payload
  BY <1>1, <1>3 DEF EventRow
<1>5. settlementEvent'[k] # NoRow
  BY <1>4, EventRowAssumption
<1>6. QED
  BY <1>3, <1>4, <1>5 DEF EventsTyped, EventExists, Payload

(* Payloads of events that exist never change, and no event disappears.    *)
LEMMA EventsInvStep == EventsInv /\ [AccountsNext]_accountVars => EventsInv'
<1> SUFFICES ASSUME EventsInv, [AccountsNext]_accountVars PROVE EventsInv'
  OBVIOUS
<1> USE DEF EventsInv
<1>1. CASE UNCHANGED settlementEvent
  BY <1>1 DEF EventsTyped, SourcesOnce, ClaimsOnce, AppliedEvents, Standing, HasStatus,
              EventExists, Payload
<1>2. ASSUME NEW k \in EventKeys, NEW p \in Payloads, OpenEvent(k, p)
      PROVE  EventsInv'
  <2>1. /\ settlementEvent' = [settlementEvent EXCEPT ![k] = [payload |-> p, status |-> "open"]]
        /\ [payload |-> p, status |-> "open"] \in EventRow
    BY <1>2 DEF OpenEvent, EventRow
  <2>2. EventsTyped'
    BY <2>1 DEF EventsTyped
  <2>3. /\ settlementEvent'[k] = [payload |-> p, status |-> "open"]
        /\ \A j \in EventKeys : j # k => settlementEvent'[j] = settlementEvent[j]
    BY <2>1 DEF EventsTyped
  <2>4. /\ AppliedEvents' = AppliedEvents
        /\ k \notin AppliedEvents
    BY <1>2, <2>3 DEF AppliedEvents, HasStatus, EventExists, OpenEvent
  <2>5. SourcesOnce'
    BY <2>3, <2>4 DEF SourcesOnce, AppliedEvents, Payload
  <2>6. Standing' \subseteq Standing \cup {k}
    BY <2>3 DEF Standing, HasStatus, EventExists
  <2>7. \A j \in Standing : ~SameClaim(Payload(j), p) /\ ~SameClaim(p, Payload(j))
    BY <1>2 DEF OpenEvent, SameClaim, Payload
  <2>8. ClaimsOnce'
    <3> SUFFICES ASSUME NEW i \in Standing', NEW j \in Standing', i # j,
                        SameClaim(Payload(i)', Payload(j)')
                 PROVE  FALSE
      BY DEF ClaimsOnce, SameClaim
    <3>1. CASE i = k
      BY <3>1, <2>3, <2>6, <2>7 DEF Payload, Standing
    <3>2. CASE j = k
      BY <3>2, <2>3, <2>6, <2>7 DEF Payload, Standing
    <3>3. CASE i # k /\ j # k
      BY <3>3, <2>3, <2>6 DEF Payload, Standing, ClaimsOnce
    <3>4. QED
      BY <3>1, <3>2, <3>3
  <2>9. QED
    BY <2>2, <2>5, <2>8
<1>3. ASSUME NEW k \in EventKeys, NEW s \in {"approved", "void"},
             EventExists(k), ~HasStatus(k, "void"), SetEventStatus(k, s)
      PROVE  EventsInv'
  <2>1. /\ EventsTyped'
        /\ settlementEvent'[k].status = s
        /\ \A j \in EventKeys :
              /\ j # k => settlementEvent'[j] = settlementEvent[j]
              /\ EventExists(j)' <=> EventExists(j)
              /\ EventExists(j) => Payload(j)' = Payload(j)
    BY <1>3, StatusChange
  <2>2. /\ AppliedEvents' \subseteq AppliedEvents
        /\ Standing' \subseteq Standing
    BY <1>3, <2>1 DEF AppliedEvents, Standing, HasStatus
  <2>3. \A j \in AppliedEvents \cup Standing : EventExists(j) /\ j \in EventKeys
    BY DEF AppliedEvents, Standing, HasStatus
  <2>4. QED
    BY <2>1, <2>2, <2>3 DEF SourcesOnce, ClaimsOnce
<1>4. ASSUME NEW k \in EventKeys, ApplyEvent(k)
      PROVE  EventsInv'
  <2>1. EventExists(k) /\ HasStatus(k, "approved") /\ SetEventStatus(k, "applied")
    BY <1>4 DEF ApplyEvent, HasStatus
  <2>2. /\ EventsTyped'
        /\ settlementEvent'[k].status = "applied"
        /\ \A j \in EventKeys :
              /\ j # k => settlementEvent'[j] = settlementEvent[j]
              /\ EventExists(j)' <=> EventExists(j)
              /\ EventExists(j) => Payload(j)' = Payload(j)
    BY <2>1, StatusChange
  <2>3. /\ AppliedEvents' \subseteq AppliedEvents \cup {k}
        /\ Standing' = Standing
    BY <2>1, <2>2 DEF AppliedEvents, Standing, HasStatus
  <2>4. \A j \in AppliedEvents \cup Standing \cup {k} : EventExists(j) /\ j \in EventKeys
    BY <2>1 DEF AppliedEvents, Standing, HasStatus
  <2>5. Payload(k).source = NoRow \/ \A j \in AppliedEvents : Payload(j).source # Payload(k).source
    BY <1>4, <2>1, EventIsTyped DEF ApplyEvent, SourceUnused, Payload
  <2>6. SourcesOnce'
    BY <2>2, <2>3, <2>4, <2>5 DEF SourcesOnce
  <2>7. ClaimsOnce'
    BY <2>2, <2>3, <2>4 DEF ClaimsOnce
  <2>8. QED
    BY <2>2, <2>6, <2>7
<1>5. CASE EventStep
  <2> PICK k \in EventKeys :
        \/ \E p \in Payloads : OpenEvent(k, p)
        \/ ApproveEvent(k)
        \/ ApplyEvent(k)
        \/ VoidEvent(k)
    BY <1>5 DEF EventStep
  <2>1. ApproveEvent(k) => EventsInv'
    BY <1>3 DEF ApproveEvent, HasStatus
  <2>2. VoidEvent(k) => EventsInv'
    BY <1>3 DEF VoidEvent, Standing
  <2>3. QED
    BY <1>2, <1>4, <2>1, <2>2
<1>6. QED
  BY <1>1, <1>5 DEF AccountsNext, accountVars

-----------------------------------------------------------------------------
(* No transaction is credited by two events, over the accounts of all      *)
(* clients, and no claim without cash is entered twice.                    *)
THEOREM EachSourceIsCreditedOnce == AccountsSpec => []NothingIsCreditedTwice
<1>1. EventsInv => NothingIsCreditedTwice
  <2> SUFFICES ASSUME EventsInv, NEW d \in Entities, NEW e \in Entities, NEW date \in Dates,
                      NEW j \in Credits(d, date), NEW k \in Credits(e, date), j # k
               PROVE  /\ ~SameClaim(Payload(j), Payload(k))
                      /\ Payload(j).source = Payload(k).source => Payload(j).source = NoRow
    BY DEF NothingIsCreditedTwice, Payload
  <2>1. j \in AppliedEvents /\ k \in AppliedEvents
    BY DEF Credits
  <2>2. AppliedEvents \subseteq Standing
    BY DEF AppliedEvents, Standing, HasStatus
  <2>3. QED
    BY <2>1, <2>2 DEF EventsInv, SourcesOnce, ClaimsOnce
<1>2. QED
  BY <1>1, EventsInit, EventsInvStep, PTL DEF AccountsSpec

(* What was applied stays applied, with its payload, or becomes void.      *)
LEMMA AppliedStays ==
  ASSUME EventsInv, [AccountsNext]_accountVars, NEW k \in AppliedEvents
  PROVE  /\ k \in AppliedEvents' \/ HasStatus(k, "void")'
         /\ Payload(k)' = Payload(k)
<1>1. k \in EventKeys /\ EventExists(k) /\ HasStatus(k, "applied") /\ EventsTyped
  BY DEF AppliedEvents, HasStatus, EventsInv
<1>2. CASE UNCHANGED settlementEvent
  BY <1>1, <1>2 DEF AppliedEvents, HasStatus, EventExists, Payload
<1>3. ASSUME NEW m \in EventKeys, NEW p \in Payloads, OpenEvent(m, p)
      PROVE  k \in AppliedEvents' /\ Payload(k)' = Payload(k)
  <2>1. m # k
    BY <1>1, <1>3 DEF OpenEvent
  <2>2. settlementEvent'[k] = settlementEvent[k]
    BY <1>1, <1>3, <2>1 DEF OpenEvent, EventsTyped
  <2>3. QED
    BY <1>1, <2>2 DEF AppliedEvents, HasStatus, EventExists, Payload
<1>4. ASSUME NEW m \in EventKeys, NEW s \in {"approved", "applied", "void"}, EventExists(m),
             SetEventStatus(m, s), m = k => s = "void"
      PROVE  /\ k \in AppliedEvents' \/ HasStatus(k, "void")'
             /\ Payload(k)' = Payload(k)
  <2>1. /\ settlementEvent'[m].status = s
        /\ m # k => settlementEvent'[k] = settlementEvent[k]
        /\ EventExists(k)'
        /\ Payload(k)' = Payload(k)
    BY <1>1, <1>4, StatusChange
  <2>2. QED
    BY <1>1, <1>4, <2>1 DEF AppliedEvents, HasStatus
<1>5. CASE EventStep
  <2> PICK m \in EventKeys :
        \/ \E p \in Payloads : OpenEvent(m, p)
        \/ ApproveEvent(m)
        \/ ApplyEvent(m)
        \/ VoidEvent(m)
    BY <1>5 DEF EventStep
  <2>1. CASE ApproveEvent(m)
    BY <1>1, <1>4, <2>1 DEF ApproveEvent, HasStatus
  <2>2. CASE ApplyEvent(m)
    BY <1>1, <1>4, <2>2 DEF ApplyEvent, HasStatus
  <2>3. CASE VoidEvent(m)
    BY <1>4, <2>3 DEF VoidEvent, Standing
  <2>4. QED
    BY <1>3, <2>1, <2>2, <2>3
<1>6. QED
  BY <1>2, <1>5 DEF AccountsNext, accountVars

(* A credit that a client was shown stays until its own event is voided.   *)
THEOREM CreditsStand == AccountsSpec => CreditsStandUntilVoided
<1>1. ASSUME EventsInv, EventsInv', [AccountsNext]_accountVars,
             NEW entity \in Entities, NEW date \in Dates, NEW k \in Credits(entity, date)
      PROVE  k \in Credits(entity, date)' \/ HasStatus(k, "void")'
  <2>1. k \in AppliedEvents
    BY DEF Credits
  <2>2. SUFFICES ASSUME k \in AppliedEvents' PROVE k \in Credits(entity, date)'
    BY <1>1, <2>1, AppliedStays
  <2>3. Payload(k)' = Payload(k)
    BY <1>1, <2>1, AppliedStays
  <2>4. /\ Payload(k).entity = entity
        /\ Payload(k).kind # "exclude"
        /\ Payload(k).date <= date
    BY DEF Credits, Payload
  <2>5. ASSUME NEW x \in AppliedEvents', Payload(x)'.kind = "exclude",
               Payload(x)'.source = Payload(k)'.source
        PROVE  FALSE
    <3>1. x \in EventKeys /\ EventExists(x)'
      BY DEF AppliedEvents, HasStatus
    <3>2. Payload(x)'.source # NoRow
      BY <1>1, <2>5, <3>1, EventAssumption DEF EventsInv, EventsTyped, EventExists, EventRow, Payload
    <3>3. x = k
      BY <1>1, <2>2, <2>5, <3>2 DEF EventsInv, SourcesOnce
    <3>4. QED
      BY <2>3, <2>4, <2>5, <3>3
  <2>6. QED
    BY <2>2, <2>3, <2>4, <2>5 DEF Credits, Payload
<1>2. EventsInv /\ EventsInv' /\ [AccountsNext]_accountVars
      => [\A entity \in Entities, date \in Dates :
            \A k \in Credits(entity, date) :
               k \in Credits(entity, date)' \/ HasStatus(k, "void")']_accountVars
  BY <1>1
<1>3. QED
  BY <1>2, EventsInit, EventsInvStep, PTL DEF AccountsSpec, CreditsStandUntilVoided

-----------------------------------------------------------------------------
(* The opening that is read.                                               *)

LEMMA FiniteHasGreatest ==
  ASSUME NEW S, IsFiniteSet(S), S # {}, NEW f \in [S -> Nat]
  PROVE  \E x \in S : \A y \in S : f[y] <= f[x]
<1>1. PICK n \in Nat : ExistsBijection(1..n, S)
  BY FS_NatBijection
<1>2. PICK g \in [1..n -> S] : \A y \in S : \E j \in 1..n : g[j] = y
  BY <1>1 DEF ExistsBijection, Bijection, Surjection
<1> DEFINE G == {i \in 0..n : \E b \in Nat : \A j \in 1..i : f[g[j]] <= b}
<1>3. 0 \in G
  BY <1>1
<1>4. ASSUME NEW i \in 1..n, i-1 \in G PROVE i \in G
  <2>1. PICK b \in Nat : \A j \in 1..(i-1) : f[g[j]] <= b
    BY <1>4
  <2>2. f[g[i]] \in Nat /\ \A j \in 1..i : f[g[j]] \in Nat
    BY <1>2
  <2>3. b + f[g[i]] \in Nat
    BY <2>1, <2>2
  <2>4. ASSUME NEW j \in 1..i PROVE f[g[j]] <= b + f[g[i]]
    <3>1. CASE j = i
      BY <2>1, <2>2, <3>1
    <3>2. CASE j \in 1..(i-1)
      BY <2>1, <2>2, <3>2
    <3>3. QED
      BY <3>1, <3>2
  <2>5. QED
    BY <2>3, <2>4
<1> HIDE DEF G
<1>5. n \in G
  <2>1. \A i \in 1..n : i-1 \in G => i \in G
    BY <1>4
  <2>2. \A i \in 0..n : i \in G
    BY <1>1, <1>3, <2>1, IntervalInduction, Zenon
  <2>3. QED
    BY <1>1, <2>2
<1> DEFINE Bounds == {b \in Nat : \A y \in S : f[y] <= b}
<1>6. Bounds # {}
  BY <1>2, <1>5 DEF G
<1>7. Bounds \in SUBSET Nat
  OBVIOUS
<1>8. PICK m \in Bounds : \A b \in Bounds : m <= b
  <2> HIDE DEF Bounds
  <2> QED BY <1>6, <1>7, MinimalNatural
<1>9. \E x \in S : f[x] = m
  <2>1. SUFFICES ASSUME \A x \in S : f[x] # m PROVE FALSE
    OBVIOUS
  <2>2. \A x \in S : f[x] \in Nat /\ f[x] <= m - 1
    BY <1>8, <2>1
  <2>3. m - 1 \in Nat
    BY <1>8, <2>2
  <2>4. QED
    BY <1>8, <2>2, <2>3
<1>10. QED
  BY <1>8, <1>9

LEMMA CurrentOpeningIsOne ==
  ASSUME NEW entity \in Entities, NEW date \in Dates, Openings(entity, date) # {}
  PROVE  CurrentOpening(entity, date) \in Openings(entity, date)
<1> DEFINE S == Openings(entity, date)
<1>1. S \subseteq Headers /\ IsFiniteSet(S)
  <2>1. S \subseteq Headers
    BY DEF Openings
  <2>2. QED
    BY <2>1, EventAssumption, FS_Subset
<1> HIDE DEF S
<1>2. PICK x \in S : \A y \in S : DateOf[y] <= DateOf[x]
  <2>1. [h \in S |-> DateOf[h]] \in [S -> Nat]
    BY <1>1, HeaderAssumption
  <2>2. QED
    BY <1>1, <2>1, FiniteHasGreatest DEF S
<1> DEFINE T == {y \in S : DateOf[y] = DateOf[x]}
<1>3. T \subseteq S /\ T # {} /\ IsFiniteSet(T)
  BY <1>1, <1>2, FS_Subset
<1> HIDE DEF T
<1>4. PICK h \in T : \A y \in T : Version[y] <= Version[h]
  <2>1. [y \in T |-> Version[y]] \in [T -> Nat]
    BY <1>1, <1>3, HeaderAssumption
  <2>2. QED
    BY <1>3, <2>1, FiniteHasGreatest
<1>5. /\ h \in S
      /\ \A g \in S : \/ DateOf[g] < DateOf[h]
                      \/ DateOf[g] = DateOf[h] /\ Version[g] <= Version[h]
  <2>1. \A g \in S : DateOf[g] \in Nat
    BY <1>1, HeaderAssumption
  <2>2. QED
    BY <1>2, <1>3, <1>4, <2>1 DEF T
<1>6. QED
  BY <1>5 DEF CurrentOpening, S

-----------------------------------------------------------------------------
(* Whose obligations an execution settles.                                 *)

ClientsInv == Typed /\ SlicesStayWithClient /\ PreviewsStayWithClient

LEMMA SlicesAreOfShownLines ==
  ASSUME NEW p \in Snapshot, NEW l \in Lines, Slices(p)[l] # 0
  PROVE  p.remaining[l] # 0
<1>1. /\ Slices(p)[l] = Sign(p.direction) * Applied(OpenAmounts(p), p.amount, l)
      /\ Applied(OpenAmounts(p), p.amount, l) \in 0..OpenAmounts(p)[l]
  BY SlicesType
<1>2. SUFFICES ASSUME p.remaining[l] = 0 PROVE FALSE
  OBVIOUS
<1>3. OpenAmounts(p)[l] = 0
  BY <1>2 DEF OpenAmounts, Sign
<1>4. QED
  BY <1>1, <1>3 DEF Sign

LEMMA RowStaysWithClient ==
  ASSUME ClientsInv, NEW row, execution' = Append(execution, row),
         \A l \in Lines : row.signed[l] # 0 => EntityOf[HeaderOf[l]] = row.snapshot.entity
  PROVE  SlicesStayWithClient'
<1>1. /\ Rows' = 1..(Len(execution) + 1) /\ Rows = 1..Len(execution) /\ Len(execution) \in Nat
      /\ \A i \in Rows : execution'[i] = execution[i]
      /\ execution'[Len(execution) + 1] = row
  BY AppendedRows, RowsTyped DEF ClientsInv, Typed
<1>2. \A i \in Rows' : \/ i \in Rows /\ execution'[i] = execution[i]
                       \/ execution'[i] = row
  BY <1>1
<1>3. QED
  BY <1>2 DEF ClientsInv, SlicesStayWithClient

LEMMA ClientsStep == ClientsInv /\ [Next]_vars => ClientsInv'
<1> SUFFICES ASSUME ClientsInv, [Next]_vars PROVE ClientsInv'
  OBVIOUS
<1>1. Typed'
  BY TypedStep DEF ClientsInv
<1>2. CASE UNCHANGED <<execution, preview>>
  BY <1>1, <1>2 DEF ClientsInv, SlicesStayWithClient, PreviewsStayWithClient, Rows
<1>3. ASSUME NEW s \in Cashiers, NEW e \in Entities, NEW d \in Directions,
             NEW a \in Amounts, NEW t \in Dates, Preview(s, e, d, a, t)
      PROVE  ClientsInv'
  <2>1. /\ UNCHANGED execution
        /\ preview' = [preview EXCEPT ![s] = SnapshotNow(e, d, a, t)]
        /\ preview \in [Cashiers -> Snapshot \cup {NoRow}]
    BY <1>3 DEF Preview, ClientsInv, Typed, TypeOK
  <2>2. \A l \in Lines : SnapshotNow(e, d, a, t).remaining[l] # 0
                           => EntityOf[HeaderOf[l]] = SnapshotNow(e, d, a, t).entity
    BY DEF SnapshotNow, Register, Due
  <2>3. PreviewsStayWithClient'
    BY <2>1, <2>2 DEF ClientsInv, PreviewsStayWithClient
  <2>4. QED
    BY <1>1, <2>1, <2>3 DEF ClientsInv, SlicesStayWithClient, Rows
<1>4. ASSUME NEW s \in Cashiers, ExecutePost(s) PROVE ClientsInv'
  <2> DEFINE p == preview[s]
             row == [key |-> key[s], snapshot |-> p, cash |-> p.amount,
                     signed |-> Slices(p), reversalOf |-> 0]
  <2>1. /\ execution' = Append(execution, row)
        /\ p \in Snapshot /\ p # NoRow
        /\ UNCHANGED preview
    BY <1>4, SubmittedType DEF ExecutePost, EndCall, ClientsInv, Typed, CallsSubmit
  <2>2. \A l \in Lines : row.signed[l] # 0 => EntityOf[HeaderOf[l]] = row.snapshot.entity
    BY <2>1, SlicesAreOfShownLines DEF ClientsInv, PreviewsStayWithClient
  <2> HIDE DEF row
  <2>3. SlicesStayWithClient'
    BY <2>1, <2>2, RowStaysWithClient
  <2>4. QED
    BY <1>1, <2>1, <2>3 DEF ClientsInv, PreviewsStayWithClient
<1>5. ASSUME NEW i \in Rows, NEW k \in ReversalKeys, Reverse(i, k) PROVE ClientsInv'
  <2> DEFINE row == [key |-> k, snapshot |-> execution[i].snapshot, cash |-> -execution[i].cash,
                     signed |-> [l \in Lines |-> -execution[i].signed[l]], reversalOf |-> i]
  <2>1. /\ execution' = Append(execution, row)
        /\ UNCHANGED preview
        /\ execution[i].signed \in [Lines -> Int]
    BY <1>5, RowsTyped DEF Reverse, ClientsInv, Typed
  <2>2. ASSUME NEW l \in Lines, row.signed[l] # 0
        PROVE  EntityOf[HeaderOf[l]] = row.snapshot.entity
    <3>1. execution[i].signed[l] # 0
      BY <2>1, <2>2
    <3>2. QED
      BY <3>1 DEF ClientsInv, SlicesStayWithClient
  <2> HIDE DEF row
  <2>3. SlicesStayWithClient'
    BY <2>1, <2>2, RowStaysWithClient
  <2>4. QED
    BY <1>1, <2>1, <2>3 DEF ClientsInv, PreviewsStayWithClient
<1>6. QED
  BY <1>2, <1>3, <1>4, <1>5
     DEF Next, CashierStep, vars, cashVars, ExecuteCall, ExecuteLock, ExecuteReplay,
         ExecuteRefuse, ExecuteAccept, ExecuteFail, ExecuteAbort, EndCall

LEMMA ClientsInit == Init => ClientsInv
BY InitTyped DEF Init, CashInit, ClientsInv, SlicesStayWithClient, PreviewsStayWithClient, Rows

-----------------------------------------------------------------------------
(* In an account that is published every payment counts once: a            *)
(* transaction that is credited is neither folded into the opening nor     *)
(* settled against a line of it.                                           *)
THEOREM PublishedAccountsCountOnce == AccountsSpec => []AccountsCountPaymentsOnce
<1>1. EventsInv /\ ClientsInv => AccountsCountPaymentsOnce
  <2> SUFFICES ASSUME EventsInv, ClientsInv,
                      NEW entity \in Entities, NEW date \in Dates, Published(entity, date),
                      NEW k \in EventKeys, HasStatus(k, "applied"),
                      Payload(k).kind = "include", Payload(k).entity = entity,
                      Payload(k).date <= date
               PROVE  /\ Payload(k).source \notin Folded[CurrentOpening(entity, date)]
                      /\ \A i \in Rows : execution[i].key = Payload(k).source
                                         /\ execution[i].snapshot.date <= date
                            => ~SettlesPartOf(i, CurrentOpening(entity, date))
    BY DEF AccountsCountPaymentsOnce, Payload
  <2>1. k \in AppliedEvents /\ EventExists(k) /\ Payload(k).source # NoRow
    BY EventIsTyped DEF AppliedEvents, HasStatus, EventsInv
  <2>2. \A x \in AppliedEvents : Payload(x).source = Payload(k).source => x = k
    BY <2>1 DEF EventsInv, SourcesOnce
  <2>3. k \in PaymentCredits(entity, date)
    BY <2>1, <2>2 DEF PaymentCredits, Credits, Payload
  <2>4. Payload(k).source \in CreditedSources(entity, date)
    BY <2>3 DEF CreditedSources, Payload
  <2>5. CurrentOpening(entity, date) \in Openings(entity, date)
    BY CurrentOpeningIsOne DEF Published
  <2>6. Payload(k).source \notin Folded[CurrentOpening(entity, date)]
    BY <2>3 DEF Published
  <2>7. ASSUME NEW i \in Rows, execution[i].key = Payload(k).source,
               execution[i].snapshot.date <= date,
               SettlesPartOf(i, CurrentOpening(entity, date))
        PROVE  FALSE
    <3>1. execution[i].snapshot.entity = entity
      BY <2>5, <2>7 DEF SettlesPartOf, ClientsInv, SlicesStayWithClient, Openings
    <3>2. Payload(k).source \in ConsumedSources(entity, date)
      BY <2>7, <3>1 DEF ConsumedSources
    <3>3. QED
      BY <2>4, <3>2 DEF Published
  <2>8. QED
    BY <2>6, <2>7
<1>2. ClientsInv /\ [AccountsNext]_accountVars => ClientsInv'
  <2>1. [AccountsNext]_accountVars => [Next]_vars
    BY DEF AccountsNext, accountVars, EventStep, OpenEvent, ApproveEvent, ApplyEvent, VoidEvent,
           SetEventStatus
  <2>2. QED
    BY <2>1, ClientsStep
<1>3. AccountsInit => ClientsInv
  BY ClientsInit DEF AccountsInit
<1>4. QED
  BY <1>1, <1>2, <1>3, EventsInit, EventsInvStep, PTL DEF AccountsSpec
=============================================================================
