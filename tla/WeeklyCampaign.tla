---------------------------- MODULE WeeklyCampaign ----------------------------
(***************************************************************************)
(* What the weekly corridor promises, whatever the bars: one campaign a    *)
(* week.  It is deployed once, as a whole, grows by at most MaxGrowth      *)
(* layers, is closed as a whole, and never outlives its week.              *)
(***************************************************************************)
EXTENDS Integers

CONSTANTS Initial,    \* layers of a deployment
          MaxGrowth,  \* how many may join later
          Limit       \* how many may be open at a time

VARIABLES week,       \* the last week that was seen
          phase,      \* of its campaign: "ahead", "running", "over"
          size,       \* its open layers
          growth      \* the layers that joined since it was deployed

campaignVars == <<week, phase, size, growth>>

Init == week = -1 /\ phase = "ahead" /\ size = 0 /\ growth = 0

Launch == phase' = "running" /\ size' = Initial /\ growth' = 0

\* A new week: what was open is closed, and a new campaign may begin at once.
NewWeek ==
  /\ week' \in Nat /\ week' > week
  /\ Launch \/ (phase' = "ahead" /\ size' = 0 /\ growth' = 0)

Deploy == phase = "ahead" /\ Launch /\ UNCHANGED week

Grow ==
  /\ phase = "running" /\ growth < MaxGrowth /\ size < Limit
  /\ growth' = growth + 1 /\ size' = size + 1
  /\ UNCHANGED <<week, phase>>

End ==
  /\ phase = "running"
  /\ phase' = "over" /\ size' = 0
  /\ UNCHANGED <<week, growth>>

Next == NewWeek \/ Deploy \/ Grow \/ End

Spec == Init /\ [][Next]_campaignVars

=============================================================================
