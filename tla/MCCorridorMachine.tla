-------------------------- MODULE MCCorridorMachine --------------------------
(***************************************************************************)
(* A small instance of CorridorMachine.  With a tolerance of 4, a recenter *)
(* threshold of 6 and half a band of 8, the distances 0, 3, 5, 7 and 9 lie *)
(* short of the edge zone, in it, outside the tolerance, beyond the        *)
(* threshold and outside the band.                                         *)
(***************************************************************************)
EXTENDS CorridorMachine

Calm == [regime |-> "RANGE", center |-> TRUE, distance |-> 0, tolerance |-> 4,
         volumeSpike |-> FALSE, momentumSpike |-> FALSE, quiet |-> TRUE, gap |-> FALSE]

Distances == {0, 3, 5, 7, 9}

MCBars ==
  {[Calm EXCEPT !.distance = d, !.regime = r] : d \in Distances, r \in {"RANGE", "NEUTRAL"}}
    \cup {[Calm EXCEPT !.regime = r, !.center = c] :
            r \in {"RANGE", "TREND_UP", "NONE"}, c \in BOOLEAN}
    \cup {[Calm EXCEPT !.distance = d, !.volumeSpike = v, !.momentumSpike = ~ v] :
            d \in Distances, v \in BOOLEAN}
    \cup {[Calm EXCEPT !.quiet = FALSE], [Calm EXCEPT !.gap = TRUE]}

=============================================================================
