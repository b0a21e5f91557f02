---------------------- MODULE ClientObligationsProofs ----------------------
(***************************************************************************)
(* Theorems about ClientObligations, for every set of clients, headers,    *)
(* versions, lines, properties, binding keys and concurrent binders.  The  *)
(* specification is taken with any other steps that leave the headers, the *)
(* bindings and the binding calls alone, as those of cash settlement do.   *)
(***************************************************************************)
EXTENDS ClientObligations, TLAPS

coreVars == <<status, binding, bindCall>>

(* A step of the obligations, or a step of somebody else.                  *)
CoreStep == ObligationsNext \/ UNCHANGED coreVars

LEMMA StepsAreCoreSteps == [ObligationsNext]_obligationVars => CoreStep
BY DEF CoreStep, obligationVars, coreVars

-----------------------------------------------------------------------------
(* Type correctness of headers, bindings and binding calls.                *)

CoreTypeOK ==
    /\ status \in [Headers -> {"absent", "applied", "void"}]
    /\ binding \in [BindKeys -> BindingRow \cup {NoRow}]
    /\ bindCall \in [Binders -> BindRequest \cup {NoCall}]

LEMMA BindCommitType ==
  ASSUME CoreTypeOK, NEW b \in Binders, BindCommit(b)
  PROVE  CoreTypeOK'
<1> DEFINE call == bindCall[b]
           new == [line |-> call.line, property |-> call.property,
                   supersedes |-> call.supersedes, supersededBy |-> NoRow,
                   status |-> "active"]
           old(k) == [line |-> binding[k].line, property |-> binding[k].property,
                      supersedes |-> binding[k].supersedes,
                      supersededBy |-> call.key, status |-> "superseded"]
<1> USE DEF CoreTypeOK
<1>1. call \in BindRequest
  BY DEF BindCommit
<1>2. new \in BindingRow
  BY <1>1 DEF BindRequest, BindingRow
<1>3. ASSUME NEW k \in BindKeys, k = call.supersedes
      PROVE  old(k) \in BindingRow
  <2>1. k \in LiveBindings(call.line)
    BY <1>3, NoRowAssumption DEF BindCommit, RemapAllowed
  <2>2. binding[k] \in BindingRow
    BY <2>1 DEF LiveBindings
  <2>3. QED
    BY <1>1, <2>2 DEF BindRequest, BindingRow
<1>4. binding' = [k \in BindKeys |-> IF k = call.key THEN new
                                     ELSE IF k = call.supersedes THEN old(k) ELSE binding[k]]
  BY DEF BindCommit
<1> HIDE DEF call, new, old
<1>5. binding' \in [BindKeys -> BindingRow \cup {NoRow}]
  BY <1>2, <1>3, <1>4
<1>6. QED
  BY <1>5 DEF BindCommit

LEMMA CoreTypeStep ==
  ASSUME CoreTypeOK, CoreStep
  PROVE  CoreTypeOK'
<1> USE DEF CoreTypeOK
<1>1. CASE UNCHANGED coreVars
  BY <1>1 DEF coreVars
<1>2. CASE HeaderStep
  BY <1>2 DEF HeaderStep, CertifyOpening, SupersedeCertification, VoidCertification,
              ApplyOwnerLevel, VoidOwnerLevel
<1>3. CASE BindStep
  BY <1>3, BindCommitType DEF BindStep, BindBegin, BindRefuse, BindAbort
<1>4. QED
  BY <1>1, <1>2, <1>3 DEF CoreStep, ObligationsNext

(* Headers, binding rows and calls have the values of their tables, and     *)
(* only cash settlement locks binding rows.                                 *)
THEOREM ObligationsTypeCorrect == ObligationsSpec => []ObligationsTypeOK
<1>1. ObligationsInit => ObligationsTypeOK
  BY DEF ObligationsInit, ObligationsTypeOK
<1>2. ObligationsTypeOK /\ [ObligationsNext]_obligationVars => ObligationsTypeOK'
  <2> SUFFICES ASSUME ObligationsTypeOK, [ObligationsNext]_obligationVars
               PROVE  ObligationsTypeOK'
    OBVIOUS
  <2>1. CoreTypeOK'
    BY CoreTypeStep, StepsAreCoreSteps DEF ObligationsTypeOK, CoreTypeOK
  <2>2. UNCHANGED held
    BY DEF ObligationsNext, HeaderStep, BindStep, CertifyOpening, SupersedeCertification,
           VoidCertification, ApplyOwnerLevel, VoidOwnerLevel, BindBegin, BindCommit,
           BindRefuse, BindAbort, obligationVars
  <2>3. QED
    BY <2>1, <2>2 DEF ObligationsTypeOK, CoreTypeOK
<1>3. QED
  BY <1>1, <1>2, PTL DEF ObligationsSpec

-----------------------------------------------------------------------------
(* The versions of one slot are entered without gaps, 1, 2, 3 and so on.   *)
(* Without this a version that is entered late could be a low one, and     *)
(* AppliedCertificationIsTheLatest would not be preserved by the step.     *)
NoVersionGaps ==
    \A h \in Headers \ OwnerLevel :
        status[h] # "absent" =>
            \A v \in 1..Version[h] :
                \E g \in Headers \ OwnerLevel :
                    SameSlot(g, h) /\ Version[g] = v /\ status[g] # "absent"

VersionsInv == CoreTypeOK /\ NoVersionGaps /\ AppliedCertificationIsTheLatest

(* A header that is newly applied, with its predecessor entered or none    *)
(* needed, under a version nobody used, is the latest of its slot.         *)
LEMMA NewVersionIsLatest ==
  ASSUME VersionsInv, NEW h \in Headers \ OwnerLevel, VersionUnused(h),
         NEW g \in Headers \ OwnerLevel, SameSlot(g, h), status[g] # "absent"
  PROVE  Version[g] < Version[h]
<1>1. Version[g] \in Nat \ {0} /\ Version[h] \in Nat \ {0}
  BY HeaderAssumption
<1>2. SUFFICES ASSUME Version[h] \in 1..Version[g] PROVE FALSE
  BY <1>1
<1>3. PICK f \in Headers \ OwnerLevel :
        SameSlot(f, g) /\ Version[f] = Version[h] /\ status[f] # "absent"
  BY <1>2 DEF VersionsInv, NoVersionGaps
<1>4. SameSlot(f, h)
  BY <1>3 DEF SameSlot
<1>5. QED
  BY <1>3, <1>4 DEF VersionUnused

LEMMA SameSlotSymmetric ==
  ASSUME NEW g, NEW h
  PROVE  /\ SameSlot(g, g)
         /\ SameSlot(g, h) <=> SameSlot(h, g)
         /\ \A f : SameSlot(f, g) /\ SameSlot(g, h) => SameSlot(f, h)
BY DEF SameSlot

(* Both ways of applying a certification.                                  *)
LEMMA ApplyKeepsVersions ==
  ASSUME VersionsInv, NEW h \in Headers \ OwnerLevel, VersionUnused(h),
         status[h] = "absent", CoreTypeOK',
         NEW old \in SUBSET (Headers \ OwnerLevel),
         AppliedInSlot(h) \subseteq old,
         \A g \in old : SameSlot(g, h) /\ status[g] # "absent",
         \A v \in 1..(Version[h] - 1) : \E g \in Headers \ OwnerLevel :
            SameSlot(g, h) /\ Version[g] = v /\ status[g] # "absent",
         status' = [g \in Headers |-> IF g = h THEN "applied"
                                      ELSE IF g \in old THEN "void" ELSE status[g]]
  PROVE  VersionsInv'
<1>1. \A g \in Headers : /\ SameSlot(g, h)' = SameSlot(g, h)
                         /\ status[g] # "absent" => status'[g] # "absent"
  BY DEF SameSlot
<1>2. status'[h] = "applied" /\ Version[h] \in Nat \ {0}
  BY HeaderAssumption
<1>3. NoVersionGaps'
  <2>1. SUFFICES ASSUME NEW f \in Headers \ OwnerLevel, status'[f] # "absent",
                        NEW v \in 1..Version[f]
                 PROVE  \E g \in Headers \ OwnerLevel :
                          SameSlot(g, f) /\ Version[g] = v /\ status'[g] # "absent"
    BY DEF NoVersionGaps, SameSlot
  <2>2. CASE f # h
    <3>1. status[f] # "absent"
      BY <2>1, <2>2
    <3>2. QED
      BY <2>1, <3>1, <1>1 DEF VersionsInv, NoVersionGaps
  <2>3. CASE f = h /\ v = Version[h]
    BY <1>2, <2>3, SameSlotSymmetric
  <2>4. CASE f = h /\ v # Version[h]
    <3>1. v \in 1..(Version[h] - 1)
      BY <1>2, <2>1, <2>4
    <3>2. QED
      BY <1>1, <2>4, <3>1
  <2>5. QED
    BY <2>2, <2>3, <2>4
<1>4. AppliedCertificationIsTheLatest'
  <2>1. SUFFICES ASSUME NEW g \in Headers \ OwnerLevel, NEW f \in Headers \ OwnerLevel,
                        SameSlot(g, f), status'[g] = "applied", status'[f] # "absent"
                 PROVE  Version[f] <= Version[g]
    BY DEF AppliedCertificationIsTheLatest, SameSlot
  <2>2. CASE g = h /\ f = h
    BY <1>2, <2>2
  <2>3. CASE g = h /\ f # h
    <3>1. SameSlot(f, h) /\ status[f] # "absent"
      BY <2>1, <2>3, SameSlotSymmetric
    <3>2. Version[f] < Version[h] /\ Version[f] \in Nat
      BY <3>1, NewVersionIsLatest, HeaderAssumption
    <3>3. QED
      BY <1>2, <2>3, <3>2
  <2>4. CASE g # h /\ f # h
    <3>1. status[g] = "applied" /\ status[f] # "absent"
      BY <2>1, <2>4
    <3>2. QED
      BY <2>1, <3>1 DEF VersionsInv, AppliedCertificationIsTheLatest
  <2>5. CASE g # h /\ f = h
    <3>1. status[g] = "applied" /\ g \notin old
      BY <2>1, <2>5
    <3>2. g \in AppliedInSlot(h)
      BY <2>1, <2>5, <3>1, SameSlotSymmetric DEF AppliedInSlot
    <3>3. QED
      BY <3>1, <3>2
  <2>6. QED
    BY <2>2, <2>3, <2>4, <2>5
<1>5. QED
  BY <1>3, <1>4 DEF VersionsInv

(* A step that applies no certification and enters none.                   *)
LEMMA VoidKeepsVersions ==
  ASSUME VersionsInv, CoreTypeOK',
         \A g \in Headers \ OwnerLevel :
            /\ status'[g] = "applied" => status[g] = "applied"
            /\ status'[g] = "absent" <=> status[g] = "absent"
  PROVE  VersionsInv'
BY DEF VersionsInv, NoVersionGaps, AppliedCertificationIsTheLatest, SameSlot

LEMMA VersionsStep ==
  ASSUME VersionsInv, CoreStep
  PROVE  VersionsInv'
<1> USE DEF VersionsInv
<1>1. CoreTypeOK'
  BY CoreTypeStep
<1>2. CASE UNCHANGED coreVars \/ BindStep
  <2>1. status' = status
    BY <1>2 DEF coreVars, BindStep, BindBegin, BindCommit, BindRefuse, BindAbort
  <2>2. QED
    BY <1>1, <2>1, VoidKeepsVersions
<1>3. ASSUME NEW h \in Headers, CertifyOpening(h) PROVE VersionsInv'
  <2>1. \A v \in 1..(Version[h] - 1) : FALSE
    BY <1>3 DEF CertifyOpening
  <2>2. status' = [g \in Headers |-> IF g = h THEN "applied"
                                     ELSE IF g \in {} THEN "void" ELSE status[g]]
    BY <1>3 DEF CertifyOpening, CoreTypeOK
  <2>3. h \in Headers \ OwnerLevel /\ VersionUnused(h) /\ status[h] = "absent"
        /\ AppliedInSlot(h) \subseteq {}
    BY <1>3 DEF CertifyOpening
  <2>4. QED
    BY <1>1, <2>1, <2>2, <2>3, ApplyKeepsVersions
<1>4. ASSUME NEW h \in Headers, NEW prior \in Headers, SupersedeCertification(h, prior)
      PROVE  VersionsInv'
  <2>1. /\ h \in Headers \ OwnerLevel /\ VersionUnused(h) /\ status[h] = "absent"
        /\ AppliedInSlot(h) \subseteq {prior}
        /\ SameSlot(prior, h) /\ status[prior] # "absent"
        /\ Version[prior] = Version[h] - 1
        /\ prior \in Headers \ OwnerLevel
    BY <1>4 DEF SupersedeCertification, SameSlot
  <2>2. status' = [g \in Headers |-> IF g = h THEN "applied"
                                     ELSE IF g \in {prior} THEN "void" ELSE status[g]]
    BY <1>4, <2>1 DEF SupersedeCertification, CoreTypeOK
  <2>3. \A v \in 1..(Version[h] - 1) : \E g \in Headers \ OwnerLevel :
            SameSlot(g, h) /\ Version[g] = v /\ status[g] # "absent"
    <3>1. SUFFICES ASSUME NEW v \in 1..Version[prior]
                   PROVE  \E g \in Headers \ OwnerLevel :
                            SameSlot(g, h) /\ Version[g] = v /\ status[g] # "absent"
      BY <2>1
    <3>2. PICK g \in Headers \ OwnerLevel :
            SameSlot(g, prior) /\ Version[g] = v /\ status[g] # "absent"
      BY <2>1, <3>1 DEF NoVersionGaps
    <3>3. QED
      BY <2>1, <3>2, SameSlotSymmetric
  <2> DEFINE old == {prior}
  <2>4. /\ old \in SUBSET (Headers \ OwnerLevel)
        /\ AppliedInSlot(h) \subseteq old
        /\ \A g \in old : SameSlot(g, h) /\ status[g] # "absent"
        /\ status' = [g \in Headers |-> IF g = h THEN "applied"
                                       ELSE IF g \in old THEN "void" ELSE status[g]]
    BY <2>1, <2>2
  <2> HIDE DEF old
  <2>5. h \in Headers \ OwnerLevel /\ VersionUnused(h) /\ status[h] = "absent"
    BY <2>1
  <2>6. QED
    BY <1>1, <2>3, <2>4, <2>5, ApplyKeepsVersions
<1>5. ASSUME NEW h \in Headers, VoidCertification(h) \/ ApplyOwnerLevel(h) \/ VoidOwnerLevel(h)
      PROVE  VersionsInv'
  <2>1. \A g \in Headers \ OwnerLevel :
            /\ status'[g] = "applied" => status[g] = "applied"
            /\ status'[g] = "absent" <=> status[g] = "absent"
    BY <1>5 DEF VoidCertification, ApplyOwnerLevel, VoidOwnerLevel, CoreTypeOK
  <2>2. QED
    BY <1>1, <2>1, VoidKeepsVersions
<1>6. QED
  BY <1>2, <1>3, <1>4, <1>5 DEF CoreStep, ObligationsNext, HeaderStep

LEMMA VersionsInit == ObligationsInit => VersionsInv
BY DEF ObligationsInit, VersionsInv, CoreTypeOK, NoVersionGaps, AppliedCertificationIsTheLatest

(* However certifications are voided, superseded and entered afresh, the   *)
(* applied one of a client and date is the latest version ever entered.    *)
THEOREM LatestVersionApplies ==
  ObligationsSpec => []AppliedCertificationIsTheLatest
<1>1. VersionsInv => AppliedCertificationIsTheLatest
  BY DEF VersionsInv
<1>2. VersionsInv /\ [ObligationsNext]_obligationVars => VersionsInv'
  BY VersionsStep, StepsAreCoreSteps
<1>3. QED
  BY <1>1, <1>2, VersionsInit, PTL DEF ObligationsSpec
-----------------------------------------------------------------------------
(* A binding call keeps the header of its line locked, so nothing but the  *)
(* end of the call can end the header's being applied.                     *)
BindersHoldApplied ==
    \A b \in Binding : /\ HeaderOf[bindCall[b].line] \notin OwnerLevel
                       /\ status[HeaderOf[bindCall[b].line]] = "applied"

BindersInv == CoreTypeOK /\ BindersHoldApplied

LEMMA LockedHeadersStay ==
  ASSUME CoreTypeOK, HeaderStep, NEW header \in LockedHeaders \ OwnerLevel,
         status[header] = "applied"
  PROVE  status'[header] = "applied"
<1> USE DEF CoreTypeOK
<1>1. CASE \E h \in Headers : CertifyOpening(h)
  BY <1>1 DEF CertifyOpening
<1>2. CASE \E h \in Headers : VoidCertification(h)
  BY <1>2 DEF VoidCertification
<1>3. CASE \E h \in Headers : ApplyOwnerLevel(h)
  BY <1>3 DEF ApplyOwnerLevel
<1>4. CASE \E h \in Headers : VoidOwnerLevel(h)
  BY <1>4 DEF VoidOwnerLevel
<1>5. CASE \E h, prior \in Headers : SupersedeCertification(h, prior)
  <2>1. PICK h \in Headers, prior \in Headers : SupersedeCertification(h, prior)
    BY <1>5
  <2>2. prior # header /\ status' = [status EXCEPT ![h] = "applied", ![prior] = "void"]
    BY <2>1 DEF SupersedeCertification
  <2>3. header \in Headers
    BY LineAssumption DEF LockedHeaders, LockedLines, Binding, BindRequest
  <2>4. QED
    BY <2>2, <2>3
<1>6. QED
  BY <1>1, <1>2, <1>3, <1>4, <1>5 DEF HeaderStep

LEMMA BindersStep ==
  ASSUME BindersInv, CoreStep
  PROVE  BindersInv'
<1> USE DEF BindersInv
<1>1. CoreTypeOK'
  BY CoreTypeStep
<1>2. CASE UNCHANGED coreVars
  BY <1>1, <1>2 DEF coreVars, BindersHoldApplied, Binding
<1>3. CASE HeaderStep
  <2>1. bindCall' = bindCall /\ Binding' = Binding
    BY <1>3 DEF HeaderStep, CertifyOpening, SupersedeCertification, VoidCertification,
                ApplyOwnerLevel, VoidOwnerLevel, Binding
  <2>2. \A b \in Binding : HeaderOf[bindCall[b].line] \in LockedHeaders
    BY DEF LockedHeaders, LockedLines
  <2>3. ASSUME NEW b \in Binding
        PROVE  status'[HeaderOf[bindCall[b].line]] = "applied"
    BY <1>3, <2>2, LockedHeadersStay DEF BindersHoldApplied
  <2>4. QED
    BY <1>1, <2>1, <2>3 DEF BindersHoldApplied
<1>4. ASSUME NEW b \in Binders, NEW call \in BindRequest, BindBegin(b, call)
      PROVE  BindersInv'
  BY <1>1, <1>4 DEF BindBegin, BindersHoldApplied, Binding, CoreTypeOK
<1>5. ASSUME NEW b \in Binders, BindCommit(b) \/ BindRefuse(b) \/ BindAbort(b)
      PROVE  BindersInv'
  <2>1. bindCall' = [bindCall EXCEPT ![b] = NoCall] /\ status' = status
    BY <1>5 DEF BindCommit, BindRefuse, BindAbort
  <2>2. QED
    BY <1>1, <2>1 DEF BindersHoldApplied, Binding, CoreTypeOK
<1>6. QED
  BY <1>2, <1>3, <1>4, <1>5 DEF CoreStep, ObligationsNext, BindStep

LEMMA BindersInit == ObligationsInit => BindersInv
BY DEF ObligationsInit, BindersInv, CoreTypeOK, BindersHoldApplied, Binding

(* Only BindCommit writes bindings.                                        *)
LEMMA BindingWriters ==
  ASSUME CoreStep, NEW k \in BindKeys, binding[k] # binding'[k]
  PROVE  \E b \in Binders : BindCommit(b)
BY DEF CoreStep, coreVars, ObligationsNext, HeaderStep, BindStep, CertifyOpening,
       SupersedeCertification, VoidCertification, ApplyOwnerLevel, VoidOwnerLevel,
       BindBegin, BindRefuse, BindAbort

LEMMA BindsApplied ==
  ASSUME BindersInv, CoreStep, NEW k \in BindKeys, binding[k] = NoRow, binding'[k] # NoRow
  PROVE  status[HeaderOf[binding'[k].line]] = "applied"
<1>1. PICK b \in Binders : BindCommit(b)
  BY BindingWriters
<1>2. b \in Binding /\ bindCall[b] # NoCall
  BY <1>1 DEF BindCommit, Binding
<1>3. k = bindCall[b].key
  BY <1>1, NoRowAssumption DEF BindCommit, RemapAllowed, LiveBindings
<1>4. binding'[k].line = bindCall[b].line
  BY <1>1, <1>3 DEF BindCommit
<1>5. QED
  BY <1>2, <1>4 DEF BindersInv, BindersHoldApplied

(* However a void or a newer version races with a binding call, the line   *)
(* is of an applied certification when its binding commits.                *)
THEOREM BindingsAreOfAppliedLines ==
  ObligationsSpec => BindsOnlyAppliedLines
<1>1. BindersInv /\ [ObligationsNext]_obligationVars => BindersInv'
  BY BindersStep, StepsAreCoreSteps
<1>2. BindersInv /\ [ObligationsNext]_obligationVars
        => [\A k \in BindKeys :
              binding[k] = NoRow /\ binding'[k] # NoRow =>
                 status[HeaderOf[binding'[k].line]] = "applied"]_obligationVars
  BY BindsApplied, StepsAreCoreSteps
<1>3. QED
  BY <1>1, <1>2, BindersInit, PTL DEF ObligationsSpec, BindsOnlyAppliedLines

LEMMA StaysBound ==
  ASSUME CoreTypeOK, CoreStep, NEW l \in Lines, Bound(l)
  PROVE  Bound(l)'
<1>1. PICK k \in BindKeys : k \in LiveBindings(l)
  BY DEF Bound, LiveBindings
<1>2. CASE binding'[k] = binding[k]
  BY <1>1, <1>2 DEF Bound, LiveBindings
<1>3. CASE binding'[k] # binding[k]
  <2>1. PICK b \in Binders : BindCommit(b)
    BY <1>3, BindingWriters
  <2> DEFINE call == bindCall[b]
  <2>2. call \in BindRequest
    BY <2>1 DEF BindCommit, CoreTypeOK
  <2>3. k # call.key /\ k = call.supersedes
    BY <1>1, <1>3, <2>1 DEF BindCommit, LiveBindings, CoreTypeOK
  <2>4. k \in LiveBindings(call.line)
    BY <2>1, <2>3, NoRowAssumption DEF BindCommit, RemapAllowed
  <2>5. call.line = l
    BY <1>1, <2>4 DEF LiveBindings
  <2> DEFINE new == [line |-> call.line, property |-> call.property,
                     supersedes |-> call.supersedes, supersededBy |-> NoRow,
                     status |-> "active"]
  <2>6. call.key \in BindKeys /\ binding'[call.key] = new
    BY <2>1, <2>2 DEF BindCommit, BindRequest
  <2>7. new \in BindingRow /\ new.line = l /\ new.status = "active"
    BY <2>2, <2>5 DEF BindRequest, BindingRow
  <2>8. CoreTypeOK'
    BY CoreTypeStep
  <2>9. new # NoRow
    BY <2>7, BindingRowAssumption
  <2>10. QED
    BY <2>6, <2>7, <2>9 DEF Bound, LiveBindings
<1>4. QED
  BY <1>2, <1>3

(* A remap never leaves a moment at which its line has no live binding.    *)
THEOREM BoundLinesRemainBound ==
  ObligationsSpec => BoundLinesStayBound
<1>1. BindersInv /\ [ObligationsNext]_obligationVars => BindersInv'
  BY BindersStep, StepsAreCoreSteps
<1>2. BindersInv /\ [ObligationsNext]_obligationVars
        => [\A l \in Lines : Bound(l) => Bound(l)']_obligationVars
  BY StaysBound, StepsAreCoreSteps DEF BindersInv
<1>3. QED
  BY <1>1, <1>2, BindersInit, PTL DEF ObligationsSpec, BoundLinesStayBound
-----------------------------------------------------------------------------
(* The binding history.  That the rows of a line form a chain does not say *)
(* that the chain has a live end; without that, a first binding could be   *)
(* made on a line whose rows are all superseded.                           *)
HistoriesAreLive == \A l \in Lines : BindingRows(l) # {} => Bound(l)

HistoryInv == CoreTypeOK /\ BindingHistoryIsAChain /\ HistoriesAreLive

LEMMA CommitKeepsHistory ==
  ASSUME HistoryInv, NEW b \in Binders, BindCommit(b), CoreTypeOK', HistoriesAreLive'
  PROVE  BindingHistoryIsAChain'
<1> DEFINE call == bindCall[b]
           key == call.key
           old == call.supersedes
<1>1. /\ call \in BindRequest /\ key \in BindKeys /\ binding[key] = NoRow
      /\ key # NoRow /\ key # old
  BY NoRowAssumption
     DEF BindCommit, RemapAllowed, LiveBindings, HistoryInv, CoreTypeOK, BindRequest
<1>2. /\ binding'[key] # NoRow
      /\ binding'[key].line = call.line
      /\ binding'[key].supersedes = old
      /\ binding'[key].supersededBy = NoRow
      /\ binding'[key].status = "active"
  <2> DEFINE new == [line |-> call.line, property |-> call.property,
                     supersedes |-> call.supersedes, supersededBy |-> NoRow,
                     status |-> "active"]
  <2>1. binding'[key] = new
    BY <1>1 DEF BindCommit
  <2>2. new \in BindingRow
    BY <1>1 DEF BindRequest, BindingRow
  <2>3. QED
    BY <2>1, <2>2, BindingRowAssumption
<1>3. \A k \in BindKeys : k # key /\ k # old => binding'[k] = binding[k]
  BY DEF BindCommit
<1>4. CASE old = NoRow
  <2>1. BindingRows(call.line) = {}
    BY <1>1, <1>4, NoRowAssumption
       DEF BindCommit, RemapAllowed, LiveBindings, HistoryInv, HistoriesAreLive, BindRequest
  <2>2. \A k \in BindKeys : k # key => binding'[k] = binding[k]
    BY <1>3, <1>4, NoRowAssumption
  <2> HIDE DEF key, old, call
  <2>3. \A l \in Lines :
          BindingRows(l)' = IF l = call.line THEN BindingRows(l) \cup {key} ELSE BindingRows(l)
    BY <1>1, <1>2, <2>2 DEF BindingRows
  <2>4. \A l \in Lines : \A k \in BindingRows(l) : k # key /\ k \in BindKeys
    BY <1>1 DEF BindingRows
  <2>5. ASSUME NEW l \in Lines, l = call.line, NEW k \in BindingRows(l)'
        PROVE  /\ k = key
               /\ binding'[k].status = "active" /\ binding'[k].supersededBy = NoRow
               /\ binding'[k].supersedes = NoRow
    BY <1>2, <1>4, <2>1, <2>3, <2>5
  <2>6. ASSUME NEW l \in Lines, l # call.line
        PROVE  /\ BindingRows(l)' = BindingRows(l)
               /\ \A k \in BindingRows(l) : binding'[k] = binding[k]
    BY <2>2, <2>3, <2>4, <2>6
  <2>7. ASSUME NEW l \in Lines, l # call.line, NEW k \in BindingRows(l),
               binding[k].supersedes # NoRow
        PROVE  /\ binding[k].supersedes \in BindingRows(l)
               /\ binding'[binding[k].supersedes].supersededBy = k
    BY <2>6, <2>7 DEF HistoryInv, BindingHistoryIsAChain
  <2>8. QED
    BY <2>5, <2>6, <2>7 DEF HistoryInv, BindingHistoryIsAChain
<1>5. CASE old # NoRow
  <2>1. /\ old \in BindKeys /\ binding[old] # NoRow
        /\ binding[old].line = call.line /\ binding[old].status = "active"
    BY <1>5 DEF BindCommit, RemapAllowed, LiveBindings
  <2>2. /\ binding'[old] # NoRow
        /\ binding'[old].line = binding[old].line
        /\ binding'[old].supersedes = binding[old].supersedes
        /\ binding'[old].supersededBy = key
        /\ binding'[old].status = "superseded"
    <3> DEFINE ended == [line |-> binding[old].line, property |-> binding[old].property,
                         supersedes |-> binding[old].supersedes,
                         supersededBy |-> call.key, status |-> "superseded"]
    <3>1. binding'[old] = ended
      BY <1>1, <2>1 DEF BindCommit
    <3>2. binding[old] \in BindingRow
      BY <2>1 DEF HistoryInv, CoreTypeOK
    <3>3. ended \in BindingRow
      BY <1>1, <3>2 DEF BindingRow
    <3>4. QED
      BY <3>1, <3>3, BindingRowAssumption
  <2> HIDE DEF key, old, call
  <2>3. old \in BindingRows(call.line) /\ call.line \in Lines
    BY <1>1, <2>1 DEF BindingRows, BindRequest
  <2>4. \A l \in Lines :
          BindingRows(l)' = IF l = call.line THEN BindingRows(l) \cup {key} ELSE BindingRows(l)
    BY <1>1, <1>2, <1>3, <2>1, <2>2 DEF BindingRows
  <2>5. \A l \in Lines : \A k \in BindingRows(l) :
          k # key /\ k \in BindKeys /\ (k = old => l = call.line)
    BY <1>1, <2>1 DEF BindingRows
  <2>6. ASSUME NEW l \in Lines, NEW k \in BindingRows(l)'
        PROVE  /\ binding'[k].status = "active" <=> binding'[k].supersededBy = NoRow
               /\ binding'[k].supersedes # NoRow =>
                    /\ binding'[k].supersedes \in BindingRows(l)'
                    /\ binding'[binding'[k].supersedes].supersededBy = k
    <3>1. CASE k = key
      BY <1>2, <1>5, <2>1, <2>2, <2>3, <2>4, <2>5, <2>6, <3>1
    <3>2. CASE k = old
      <4>1. k \in BindingRows(l) /\ k # NoRow
        BY <1>5, <2>4, <2>6, <3>2, <1>1
      <4>2. binding'[k].status = "superseded" /\ binding'[k].supersededBy # NoRow
        BY <1>1, <2>2, <3>2
      <4>3. ASSUME binding[k].supersedes # NoRow
            PROVE  /\ binding[k].supersedes \in BindingRows(l)
                   /\ binding[binding[k].supersedes].supersededBy = k
        BY <4>1, <4>3 DEF HistoryInv, BindingHistoryIsAChain
      <4>4. binding[old].supersededBy = NoRow
        BY <2>1, <2>3 DEF HistoryInv, BindingHistoryIsAChain
      <4>5. ASSUME binding[k].supersedes # NoRow
            PROVE  binding'[binding[k].supersedes] = binding[binding[k].supersedes]
        BY <1>3, <2>5, <4>1, <4>3, <4>4, <4>5
      <4>6. QED
        BY <2>2, <2>4, <3>2, <4>2, <4>3, <4>5
    <3>3. CASE k # key /\ k # old
      <4>1. k \in BindingRows(l) /\ binding'[k] = binding[k] /\ k # NoRow
        BY <1>3, <2>4, <2>5, <2>6, <3>3, NoRowAssumption
      <4>2. ASSUME binding[k].supersedes # NoRow
            PROVE  /\ binding[k].supersedes \in BindingRows(l)
                   /\ binding[binding[k].supersedes].supersededBy = k
        BY <4>1, <4>2 DEF HistoryInv, BindingHistoryIsAChain
      <4>3. binding[old].supersededBy = NoRow
        BY <2>1, <2>3 DEF HistoryInv, BindingHistoryIsAChain
      <4>4. ASSUME binding[k].supersedes # NoRow
            PROVE  binding'[binding[k].supersedes] = binding[binding[k].supersedes]
        BY <1>3, <2>5, <4>1, <4>2, <4>3, <4>4
      <4>5. binding[k].status = "active" <=> binding[k].supersededBy = NoRow
        BY <4>1 DEF HistoryInv, BindingHistoryIsAChain
      <4>6. QED
        BY <2>4, <4>1, <4>2, <4>4, <4>5
    <3>4. QED
      BY <3>1, <3>2, <3>3
  <2>7. ASSUME NEW l \in Lines, NEW j \in BindingRows(l)', NEW k \in BindingRows(l)'
        PROVE  /\ binding'[j].supersedes = NoRow /\ binding'[k].supersedes = NoRow => j = k
               /\ binding'[j].supersededBy = NoRow /\ binding'[k].supersededBy = NoRow => j = k
    <3>1. ASSUME NEW i \in BindingRows(l)', i # key
          PROVE  /\ i \in BindingRows(l)
                 /\ binding'[i].supersedes = binding[i].supersedes
                 /\ binding'[i].supersededBy = NoRow
                      => binding[i].supersededBy = NoRow /\ i # old
      BY <1>1, <1>3, <2>2, <2>4, <2>5, <3>1
    <3>2. ASSUME NEW i \in BindingRows(l), binding[i].supersededBy = NoRow, i # old
          PROVE  l # call.line
      <4>1. binding[old].supersededBy = NoRow
        BY <2>1, <2>3 DEF HistoryInv, BindingHistoryIsAChain
      <4>2. QED
        BY <2>3, <3>2, <4>1 DEF HistoryInv, BindingHistoryIsAChain
    <3>3. key \in BindingRows(l)' => l = call.line
      BY <2>4, <2>5
    <3>4. CASE j = key
      BY <1>2, <1>5, <3>1, <3>2, <3>3, <3>4
    <3>5. CASE k = key
      BY <1>2, <1>5, <3>1, <3>2, <3>3, <3>5
    <3>6. CASE j # key /\ k # key
      BY <3>1, <3>6 DEF HistoryInv, BindingHistoryIsAChain
    <3>7. QED
      BY <3>4, <3>5, <3>6
  <2>8. QED
    BY <2>6, <2>7 DEF BindingHistoryIsAChain
<1>6. QED
  BY <1>4, <1>5

LEMMA HistoryStep ==
  ASSUME HistoryInv, CoreStep
  PROVE  HistoryInv'
<1>1. CoreTypeOK'
  BY CoreTypeStep DEF HistoryInv
<1>2. CASE binding' = binding
  BY <1>1, <1>2 DEF HistoryInv, BindingHistoryIsAChain, HistoriesAreLive, BindingRows,
                    Bound, LiveBindings
<1>3. CASE binding' # binding
  <2>1. PICK b \in Binders : BindCommit(b)
    BY <1>3 DEF CoreStep, coreVars, ObligationsNext, HeaderStep, BindStep, CertifyOpening,
       SupersedeCertification, VoidCertification, ApplyOwnerLevel, VoidOwnerLevel,
       BindBegin, BindRefuse, BindAbort
  <2>2. HistoriesAreLive'
    <3>1. SUFFICES ASSUME NEW l \in Lines, NEW k \in BindingRows(l)'
                   PROVE  Bound(l)'
      BY DEF HistoriesAreLive
    <3>2. CASE k \in BindingRows(l)
      BY <3>2, StaysBound DEF HistoryInv, HistoriesAreLive
    <3>3. CASE k \notin BindingRows(l)
      <4>1. /\ k = bindCall[b].key
            /\ k \in BindKeys
        BY <2>1, <3>1, <3>3, NoRowAssumption
           DEF BindCommit, RemapAllowed, LiveBindings, BindingRows
      <4>2. binding'[k].status = "active"
        BY <2>1, <4>1 DEF BindCommit
      <4>3. QED
        BY <3>1, <4>1, <4>2 DEF BindingRows, Bound, LiveBindings
    <3>4. QED
      BY <3>2, <3>3
  <2>3. QED
    BY <1>1, <2>1, <2>2, CommitKeepsHistory DEF HistoryInv
<1>4. QED
  BY <1>2, <1>3

LEMMA HistoryInit == ObligationsInit => HistoryInv
BY DEF ObligationsInit, HistoryInv, CoreTypeOK, BindingHistoryIsAChain, HistoriesAreLive,
       BindingRows

(* First bindings, remaps, refusals and races of binders always leave the  *)
(* bindings of a line in one chain.                                        *)
THEOREM BindingHistoriesAreChains ==
  ObligationsSpec => []BindingHistoryIsAChain
<1>1. HistoryInv => BindingHistoryIsAChain
  BY DEF HistoryInv
<1>2. HistoryInv /\ [ObligationsNext]_obligationVars => HistoryInv'
  BY HistoryStep, StepsAreCoreSteps
<1>3. QED
  BY <1>1, <1>2, HistoryInit, PTL DEF ObligationsSpec
=============================================================================
