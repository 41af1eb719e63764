---------------------------- MODULE MCPaperRunner ----------------------------
(***************************************************************************)
(* A small instance of PaperRunner.  With a tolerance of 4 and a recenter  *)
(* threshold of 6, a bar lies at the center or asks for a rebuild; the     *)
(* other bars let a rebuild happen outside the range regime, or abort.     *)
(***************************************************************************)
EXTENDS PaperRunner, TLC

Calm == [regime |-> "RANGE", center |-> TRUE, distance |-> 0, tolerance |-> 4,
         volumeSpike |-> FALSE, momentumSpike |-> FALSE, quiet |-> TRUE, gap |-> FALSE]

MCBars == {Calm, [Calm EXCEPT !.distance = 7], [Calm EXCEPT !.regime = "NEUTRAL"],
           [Calm EXCEPT !.regime = "TREND_UP"]}

\* Bars that disturb the range regime only postpone an entry or refuse a rebuild, and those
\* away from the center only ask for one: the short runs, which reach no rebuild, leave
\* both out.
MCShortBars == {b \in MCBars : b.regime # "NEUTRAL" /\ b.distance = 0}

\* The contracts differ in nothing but their names.
MCSymmetry == Permutations(Contracts)

=============================================================================
