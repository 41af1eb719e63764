---------------------------- MODULE MCComboChase ----------------------------
(***************************************************************************)
(* Quotes for ComboChase: a tight one, one as wide as 40% of the debit     *)
(* (max_spread_pct_of_debit) and one of a few cents, where the minimal     *)
(* buffer of a cent is more than the ratio allows.  No amount computed    *)
(* from them falls on half a cent, where the floating-point number, which  *)
(* is seldom exactly that, decides how the program rounds.                 *)
(***************************************************************************)
EXTENDS ComboChase

Quote(d, s) == [debit |-> d, spread |-> s, spreadCap |-> 25]

MCCandidates == {Quote(120, 8), Quote(60, 24), Quote(3, 1)}

=============================================================================
