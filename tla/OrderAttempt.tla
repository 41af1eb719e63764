---------------------------- MODULE OrderAttempt ----------------------------
(***************************************************************************)
(* What _open_position and _close_position may rely on when they send an   *)
(* order for Quantity butterflies: butterflies are traded one by one, also *)
(* after the caller was answered; the caller is answered once; and an      *)
(* answer of "filled" is given only when Quantity of them were traded.     *)
(* Nothing is promised of an answer of "unfilled", and nothing limits what *)
(* is traded to Quantity.                                                  *)
(***************************************************************************)
EXTENDS Integers

CONSTANT Quantity

VARIABLES traded,   \* butterflies traded at the broker for this order
          answer    \* what the caller was told

attemptVars == <<traded, answer>>

Init == traded = 0 /\ answer = "none"

Trade == traded' = traded + 1 /\ UNCHANGED answer

Answer(a) ==
  /\ answer = "none"
  /\ a = "filled" => traded >= Quantity
  /\ answer' = a
  /\ UNCHANGED traded

Next == Trade \/ Answer("filled") \/ Answer("unfilled")

Spec == Init /\ [][Next]_attemptVars

=============================================================================
