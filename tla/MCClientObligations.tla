------------------------ MODULE MCClientObligations ------------------------
(***************************************************************************)
(* Instances of ClientObligations and ClientCashSettlement from the empty  *)
(* database, for TLC.                                                      *)
(***************************************************************************)
EXTENDS ClientCashSettlement, TLC

CONSTANTS v1, v2, v3, w1, o1, o2, anna, ben, p1, p2, q1, k1, k2

(* Three versions of one opening balance of anna, one other certification, *)
(* and one source transaction entered as an owner-level obligation twice.  *)
VersionsEntityOf == [h \in Headers |-> IF h = w1 THEN ben ELSE anna]
VersionsSlotOf == [h \in Headers |-> IF h \in {o1, o2} THEN 2 ELSE 1]
VersionsDateOf == [h \in Headers |-> IF h \in {o1, o2} THEN 2 ELSE 1]
VersionsVersion ==
    [h \in Headers |-> CASE h = v2 -> 2 [] h = v3 -> 3 [] OTHER -> 1]
VersionsHeaderOf == <<v1, v2>>
VersionsOriginal == <<1, 1>>

ClientOfProperty == [p \in Properties |-> IF p = q1 THEN ben ELSE anna]

(* The obligations without cash.                                           *)
ObligationsOnlySpec == Init /\ [][ObligationsNext /\ UNCHANGED cashVars]_vars

SameBindings == Permutations(BindKeys)
=============================================================================
