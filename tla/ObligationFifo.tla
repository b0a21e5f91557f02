--------------------------- MODULE ObligationFifo ---------------------------
(***************************************************************************)
(* The pure part of client settlement: sums over numbered rows and the     *)
(* first-in-first-out allocation of one payment to the open obligations of *)
(* a client.  The same loop is written twice in the repository, in         *)
(* plpgsql (public.preview_client_obligation_fifo) and in TypeScript       *)
(* (allocateObligationFifo); both walk the obligations in the order        *)
(* effective date, certification version, line, property.                  *)
(*                                                                         *)
(* Obligations are numbered 1..n in that order and open[i] is the absolute *)
(* remaining amount of obligation i, or 0 when its sign does not match the *)
(* direction of the payment.  Amounts are whole cents: the code rounds     *)
(* every intermediate to two decimals and rejects inputs that are not      *)
(* exact cents, so its rounding never changes a value.                     *)
(***************************************************************************)
EXTENDS Integers

Least(a, b) == IF a <= b THEN a ELSE b

(* SUM(f) over rows 1..n; 0 over no row, like COALESCE(SUM(...), 0).       *)
SumTo(f, n) ==
    LET sum[i \in 0..n] == IF i = 0 THEN 0 ELSE sum[i-1] + f[i]
    IN  sum[n]

(* v_remain after the loop has passed rows 1..n: each row takes            *)
(* LEAST(v_remain, opening), and nothing once v_remain is 0.               *)
Unapplied(open, payment, n) ==
    LET left[i \in 0..n] ==
            IF i = 0 THEN payment ELSE left[i-1] - Least(left[i-1], open[i])
    IN  left[n]

(* amount_applied of row i.                                                *)
Applied(open, payment, i) == Least(Unapplied(open, payment, i-1), open[i])
=============================================================================
