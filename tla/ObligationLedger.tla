-------------------------- MODULE ObligationLedger --------------------------
(***************************************************************************)
(* What cash settlement promises, without sessions, locks, keys or         *)
(* snapshots: a journal of payments and undone payments over a list of     *)
(* outstanding signed amounts.                                             *)
(*                                                                         *)
(* A payment has one direction.  It pays some of the amounts shown as open, *)
(* never more than is shown, and among the obligations it is offered it    *)
(* fills the earlier ones before it touches a later one.  Undoing a        *)
(* payment gives back exactly what it took, once.                          *)
(*                                                                         *)
(* A register that nets shows what is outstanding, and then no payment     *)
(* moves an amount past zero.  One that does not net shows the original    *)
(* amount whatever was paid of it.                                         *)
(***************************************************************************)
EXTENDS Integers, Sequences

CONSTANTS NumLines, Original, NettedRegister

VARIABLES outstanding, journal

ledgerVars == <<outstanding, journal>>

LedgerInit ==
    /\ outstanding = Original
    /\ journal = <<>>

Moved(l) == outstanding'[l] - outstanding[l]

Change == [l \in 1..NumLines |-> Moved(l)]

Shown(l) == IF NettedRegister THEN outstanding[l] ELSE Original[l]

(* What is still open, of what was shown, once the payment is made.        *)
LeftOf(l) == Shown(l) + Moved(l)

(* sign is 1 for a payment to the client, who is owed positive amounts.    *)
Pay ==
    /\ \E sign \in {-1, 1}, offered \in SUBSET (1..NumLines) :
          /\ \A l \in 1..NumLines : Moved(l) # 0 =>
                /\ l \in offered
                /\ 0 <= sign * LeftOf(l)
                /\ sign * LeftOf(l) < sign * Shown(l)
          /\ \A l, m \in offered :
                l < m /\ Moved(m) # 0 => sign * LeftOf(l) <= 0
    /\ \E l \in 1..NumLines : Moved(l) # 0
    /\ journal' = Append(journal, [change |-> Change, undoes |-> 0])

Undo ==
    \E i \in DOMAIN journal :
        /\ journal[i].undoes = 0
        /\ \A j \in DOMAIN journal : journal[j].undoes # i
        /\ \A l \in 1..NumLines : Moved(l) = -journal[i].change[l]
        /\ journal' = Append(journal, [change |-> Change, undoes |-> i])

LedgerSpec == LedgerInit /\ [][Pay \/ Undo]_ledgerVars
=============================================================================
