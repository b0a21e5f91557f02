------------------------- MODULE ClientObligations -------------------------
(***************************************************************************)
(* What JJ and a client owe each other, before any cash moves: the opening *)
(* certifications, the owner-level obligations and the bindings of         *)
(* certification lines to properties.                                      *)
(*                                                                         *)
(* A header is a certification (with its lines) or an owner-level          *)
(* obligation (which is its own only line).  Which headers can exist, and  *)
(* their payload columns, are constants, because triggers make those       *)
(* columns immutable: applying a header makes its row appear.  A binding   *)
(* row is named by its idempotency key, which is UNIQUE in the table.      *)
(*                                                                         *)
(* Every remote procedure is one READ COMMITTED transaction.  Those that   *)
(* take all the locks they need before they read are one action.  The bind *)
(* procedure is two, since it can wait in the middle, holding the lock of  *)
(* its certification and its line, for the row of the binding it replaces. *)
(***************************************************************************)
EXTENDS ObligationFifo, Sequences

CONSTANTS
    Entities,     \* clients (lifecycle.entity_identity)
    Headers,      \* certifications and owner-level obligations
    OwnerLevel,   \* the headers that are owner-level obligations
    EntityOf,     \* [Headers -> Entities]
    SlotOf,       \* as_of of a certification, source transaction of an
                  \* owner-level obligation
    DateOf,       \* [Headers -> Nat]: as_of or the transaction's date
    Version,      \* [Headers -> Nat \ {0}]
    NumLines,     \* lines are numbered in the order of the FIFO walk
    HeaderOf,     \* [1..NumLines -> Headers]
    Original,     \* [1..NumLines -> Int]: - amount_due_to_jj
    Properties,   \* public.properties
    ClientOf,     \* [Properties -> Entities \cup {NoRow}]: the one entity with
                  \* an active association, through the one approved bridge
    BindKeys,     \* idempotency keys of binding calls
    Binders,      \* concurrent binding transactions
    Cashiers,     \* concurrent cash transactions
    NoRow, NoCall

Lines == 1..NumLines

(* ORDER BY effective_date, certification_version, source_line_identity.   *)
WalksBefore(i, j) ==
    \/ DateOf[HeaderOf[i]] < DateOf[HeaderOf[j]]
    \/ /\ DateOf[HeaderOf[i]] = DateOf[HeaderOf[j]]
       /\ Version[HeaderOf[i]] <= Version[HeaderOf[j]]

ASSUME HeaderAssumption ==
    /\ OwnerLevel \subseteq Headers
    /\ EntityOf \in [Headers -> Entities]
    /\ DateOf \in [Headers -> Nat]
    /\ Version \in [Headers -> Nat \ {0}]
    /\ \A h \in OwnerLevel : Version[h] = 1

ASSUME LineAssumption ==
    /\ NumLines \in Nat
    /\ HeaderOf \in [Lines -> Headers]
    /\ Original \in [Lines -> Int]
    /\ \A i, j \in Lines : i < j => WalksBefore(i, j)
    \* an owner-level obligation is a positive amount_due_to_jj, with no slices
    /\ \A l \in Lines : HeaderOf[l] \in OwnerLevel => Original[l] < 0

ASSUME NoRowAssumption ==
    /\ NoRow \notin BindKeys
    /\ NoRow \notin Entities
    /\ NoRow \notin Properties
    /\ ClientOf \in [Properties -> Entities \cup {NoRow}]

VARIABLES
    status,     \* [Headers -> {"absent", "applied", "void"}]
    binding,    \* [BindKeys -> Binding row or NoRow]
    bindCall,   \* the binding transaction each binder is in
    held        \* binding rows each cash transaction holds FOR UPDATE

obligationVars == <<status, binding, bindCall, held>>

BindRequest == [key : BindKeys, line : Lines, property : Properties,
                supersedes : BindKeys \cup {NoRow}]

BindingRow == [line : Lines, property : Properties,
               supersedes : BindKeys \cup {NoRow},
               supersededBy : BindKeys \cup {NoRow},
               status : {"active", "superseded"}]

ASSUME BindingRowAssumption == NoRow \notin BindingRow

ObligationsTypeOK ==
    /\ status \in [Headers -> {"absent", "applied", "void"}]
    /\ binding \in [BindKeys -> BindingRow \cup {NoRow}]
    /\ bindCall \in [Binders -> BindRequest \cup {NoCall}]
    /\ held \in [Cashiers -> SUBSET BindKeys]

ObligationsInit ==
    /\ status = [h \in Headers |-> "absent"]
    /\ binding = [k \in BindKeys |-> NoRow]
    /\ bindCall = [b \in Binders |-> NoCall]
    /\ held = [s \in Cashiers |-> {}]

-----------------------------------------------------------------------------
(* The rows of the tables, and the locks held on them.                     *)

SameSlot(g, h) ==
    /\ EntityOf[g] = EntityOf[h]
    /\ SlotOf[g] = SlotOf[h]
    /\ (g \in OwnerLevel) <=> (h \in OwnerLevel)

AppliedInSlot(h) == {g \in Headers : SameSlot(g, h) /\ status[g] = "applied"}

LiveBindings(l) ==
    {k \in BindKeys : /\ binding[k] # NoRow
                      /\ binding[k].line = l
                      /\ binding[k].status = "active"}

Bound(l) == LiveBindings(l) # {}

BoundProperty(l) == binding[CHOOSE k \in LiveBindings(l) : TRUE].property

Binding == {b \in Binders : bindCall[b] # NoCall}

NoHeaderLocks == {}   \* fault: the certification is read without FOR UPDATE

(* Lines and certification headers that a binding transaction holds        *)
(* FOR UPDATE.                                                             *)
LockedLines == {bindCall[b].line : b \in Binding}
LockedHeaders == {HeaderOf[l] : l \in LockedLines}

RowFree(k) == \A s \in Cashiers : k \notin held[s]

-----------------------------------------------------------------------------
(* apply_client_settlement_opening_certification without supersedes_id:    *)
(* version 1 of a slot that has no applied certification.  The unique index *)
(* on (entity, as_of, type, version) refuses a version that was used.      *)
VersionUnused(h) ==
    \A g \in Headers : SameSlot(g, h) /\ Version[g] = Version[h] => status[g] = "absent"

CertifyOpening(h) ==
    /\ h \notin OwnerLevel
    /\ status[h] = "absent"
    /\ Version[h] = 1
    /\ AppliedInSlot(h) = {}
    /\ VersionUnused(h)
    /\ status' = [status EXCEPT ![h] = "applied"]
    /\ UNCHANGED <<binding, bindCall, held>>

SupersedeLeavesPrior(h, prior) ==   \* fault: the prior version is not voided
    /\ h \notin OwnerLevel
    /\ status[h] = "absent"
    /\ SameSlot(prior, h)
    /\ Version[prior] = Version[h] - 1
    /\ status[prior] \in {"applied", "void"}
    /\ VersionUnused(h)
    /\ status' = [status EXCEPT ![h] = "applied"]
    /\ UNCHANGED <<binding, bindCall, held>>

(* The same procedure with supersedes_id: the prior version, applied or    *)
(* already void, is void afterwards.                                       *)
SupersedeCertification(h, prior) ==
    /\ h \notin OwnerLevel
    /\ status[h] = "absent"
    /\ SameSlot(prior, h)
    /\ Version[prior] = Version[h] - 1
    /\ status[prior] \in {"applied", "void"}
    /\ prior \notin LockedHeaders
    /\ AppliedInSlot(h) \subseteq {prior}
    /\ VersionUnused(h)
    /\ status' = [status EXCEPT ![h] = "applied", ![prior] = "void"]
    /\ UNCHANGED <<binding, bindCall, held>>

VoidMisspelt(h) ==   \* fault: a status that is not one of the table's
    /\ status[h] = "applied"
    /\ status' = [status EXCEPT ![h] = "voided"]
    /\ UNCHANGED <<binding, bindCall, held>>

(* void_client_settlement_opening_certification.                           *)
VoidCertification(h) ==
    /\ h \notin OwnerLevel
    /\ status[h] = "applied"
    /\ h \notin LockedHeaders
    /\ status' = [status EXCEPT ![h] = "void"]
    /\ UNCHANGED <<binding, bindCall, held>>

(* apply_owner_level_client_obligation: a source transaction may be applied *)
(* again once its earlier obligation is void.                              *)
ApplyOwnerLevel(h) ==
    /\ h \in OwnerLevel
    /\ status[h] = "absent"
    /\ AppliedInSlot(h) = {}
    /\ status' = [status EXCEPT ![h] = "applied"]
    /\ UNCHANGED <<binding, bindCall, held>>

(* void_owner_level_client_obligation.                                     *)
VoidOwnerLevel(h) ==
    /\ h \in OwnerLevel
    /\ status[h] = "applied"
    /\ status' = [status EXCEPT ![h] = "void"]
    /\ UNCHANGED <<binding, bindCall, held>>

-----------------------------------------------------------------------------
(* bind_client_obligation_property, up to the lock of the active binding:  *)
(* the key is new, and the certification row and the line row are now      *)
(* locked, so the header stays applied until the transaction ends.         *)
BindBegin(b, call) ==
    /\ bindCall[b] = NoCall
    /\ binding[call.key] = NoRow
    /\ call.line \notin LockedLines
    /\ HeaderOf[call.line] \notin OwnerLevel \cup LockedHeaders
    /\ status[HeaderOf[call.line]] = "applied"
    /\ ClientOf[call.property] = EntityOf[HeaderOf[call.line]]
    /\ bindCall' = [bindCall EXCEPT ![b] = call]
    /\ UNCHANGED <<status, binding, held>>

RemapAnyBinding(call) ==   \* fault: the old binding may be of another line
    \/ call.supersedes = NoRow /\ ~Bound(call.line)
    \/ \E l \in Lines : call.supersedes \in LiveBindings(l)

FirstBindAgain(call) ==   \* fault: a first binding ignores a live one
    \/ call.supersedes = NoRow
    \/ call.supersedes \in LiveBindings(call.line)

(* What the procedure demands of the active binding once it holds it.      *)
RemapAllowed(call) ==
    \/ /\ call.supersedes = NoRow
       /\ ~Bound(call.line)
    \/ /\ call.supersedes \in LiveBindings(call.line)
       /\ binding[call.supersedes].property # call.property

(* The rest of the procedure.  The key can have been taken meanwhile by a  *)
(* call on another line: the unique index then refuses the insert.         *)
BindCommit(b) ==
    LET call == bindCall[b] IN
    /\ call # NoCall
    /\ \A k \in LiveBindings(call.line) : RowFree(k)
    /\ RemapAllowed(call)
    /\ binding[call.key] = NoRow
    /\ binding' = [k \in BindKeys |->
          IF k = call.key
          THEN [line |-> call.line, property |-> call.property,
                supersedes |-> call.supersedes, supersededBy |-> NoRow,
                status |-> "active"]
          ELSE IF k = call.supersedes
          THEN [line |-> binding[k].line, property |-> binding[k].property,
                supersedes |-> binding[k].supersedes, supersededBy |-> call.key,
                status |-> "superseded"]
          ELSE binding[k]]
    /\ bindCall' = [bindCall EXCEPT ![b] = NoCall]
    /\ UNCHANGED <<status, held>>

BindRefuse(b) ==
    LET call == bindCall[b] IN
    /\ call # NoCall
    /\ \A k \in LiveBindings(call.line) : RowFree(k)
    /\ ~RemapAllowed(call) \/ binding[call.key] # NoRow
    /\ bindCall' = [bindCall EXCEPT ![b] = NoCall]
    /\ UNCHANGED <<status, binding, held>>

(* The connection drops, the statement times out, or the deadlock detector *)
(* of the database picks this transaction: everything is rolled back.      *)
BindAbort(b) ==
    /\ bindCall[b] # NoCall
    /\ bindCall' = [bindCall EXCEPT ![b] = NoCall]
    /\ UNCHANGED <<status, binding, held>>

HeaderStep ==
    \/ \E h \in Headers : \/ CertifyOpening(h)
                          \/ VoidCertification(h)
                          \/ ApplyOwnerLevel(h)
                          \/ VoidOwnerLevel(h)
    \/ \E h, prior \in Headers : SupersedeCertification(h, prior)

BindStep ==
    \E b \in Binders :
        \/ \E call \in BindRequest : BindBegin(b, call)
        \/ BindCommit(b)
        \/ BindRefuse(b)
        \/ BindAbort(b)

ObligationsNext == HeaderStep \/ BindStep

ObligationsSpec == ObligationsInit /\ [][ObligationsNext]_obligationVars

-----------------------------------------------------------------------------
(* Of the certifications of one client and date, the applied one is the    *)
(* latest version ever entered: no sequence of voids, supersedes and fresh *)
(* applies brings an older opening balance back to life.                   *)
AppliedCertificationIsTheLatest ==
    \A g, h \in Headers \ OwnerLevel :
        /\ SameSlot(g, h)
        /\ status[g] = "applied"
        /\ status[h] # "absent"
        => Version[h] <= Version[g]

(* The bindings of one line form one chain: every superseded row names the *)
(* row that replaced it, that row names it back, only one row is the first *)
(* and only one is live.                                                   *)
BindingRows(l) == {k \in BindKeys : binding[k] # NoRow /\ binding[k].line = l}

BindingHistoryIsAChain ==
    \A l \in Lines :
        /\ \A j, k \in BindingRows(l) :
             /\ binding[j].supersedes = NoRow /\ binding[k].supersedes = NoRow => j = k
             /\ binding[j].supersededBy = NoRow /\ binding[k].supersededBy = NoRow => j = k
        /\ \A k \in BindingRows(l) :
             /\ binding[k].status = "active" <=> binding[k].supersededBy = NoRow
             /\ binding[k].supersedes # NoRow =>
                  /\ binding[k].supersedes \in BindingRows(l)
                  /\ binding[binding[k].supersedes].supersededBy = k

(* A binding only ever appears on a certification that is applied at the   *)
(* moment it commits, however a void or a newer version races with the     *)
(* call that checked it.                                                   *)
BindsOnlyAppliedLines ==
    [][\A k \in BindKeys :
          binding[k] = NoRow /\ binding'[k] # NoRow =>
             status[HeaderOf[binding'[k].line]] = "applied"]_obligationVars

(* A line that was bound never falls back to unbound: a remap replaces the *)
(* live binding in the same transaction that ends it.                      *)
BoundLinesStayBound ==
    [][\A l \in Lines : Bound(l) => Bound(l)']_obligationVars
=============================================================================
