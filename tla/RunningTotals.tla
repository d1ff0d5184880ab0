----------------------------- MODULE RunningTotals -----------------------------
(***************************************************************************)
(* The loops that add up a ledger row by row (_aggregate of                 *)
(* autopilot_cost.py, correct_ledger of ledger_correction.py and of         *)
(* wallet_correction.py): the totals after each row.                        *)
(***************************************************************************)
EXTENDS Naturals, Sequences

(* Totals(amounts)[i] is the sum of the first i amounts. *)
Totals(amounts) ==
    LET sum[i \in 0 .. Len(amounts)] == IF i = 0 THEN 0 ELSE sum[i - 1] + amounts[i]
    IN  sum

SumOf(amounts) == Totals(amounts)[Len(amounts)]
=============================================================================
