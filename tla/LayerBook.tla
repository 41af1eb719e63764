------------------------------ MODULE LayerBook ------------------------------
(***************************************************************************)
(* What the corridor promises about its book of butterfly layers, whatever *)
(* made it act: every layer is opened once under an id of its own, closed  *)
(* at most once and never reopened; at most Limit layers are open at a     *)
(* time; and a step either opens layers, or closes some, or replaces the   *)
(* whole book by a new one.                                                *)
(***************************************************************************)
EXTENDS Integers, FiniteSets

CONSTANT Limit      \* how many layers may be open at a time

VARIABLES open,     \* the ids of the open layers
          issued    \* the ids given out so far are 1..issued

bookVars == <<open, issued>>

Init == open = {} /\ issued = 0

NextIds(n) == (issued + 1)..(issued + n)

\* New layers join the ones that stay open.
Add(n) ==
  /\ Cardinality(open) + n <= Limit
  /\ open' = open \cup NextIds(n)
  /\ issued' = issued + n

Close(ids) ==
  /\ open' = open \ ids
  /\ UNCHANGED issued

\* Every open layer makes way for new ones.
Replace(n) ==
  /\ n <= Limit
  /\ open' = NextIds(n)
  /\ issued' = issued + n

Next == \/ \E n \in 1..Limit : Add(n) \/ Replace(n)
        \/ \E ids \in SUBSET open : Close(ids)

Spec == Init /\ [][Next]_bookVars

=============================================================================
