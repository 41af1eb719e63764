---------------------------- MODULE WeeklyBacktest ----------------------------
(***************************************************************************)
(* The engine of the weekly backtest (weekly_corridor/backtest.py) around  *)
(* the machine.  It learns what the machine did on a bar by comparing the  *)
(* ids of the open layers before and after it: a layer with a new id gets  *)
(* its entry cost, one whose id is gone is realized.                       *)
(***************************************************************************)
EXTENDS WeeklyMachine

VARIABLES priced,     \* the layers that were given an entry cost
          realized    \* the layers whose profit was booked

ledgerVars == <<priced, realized>>
backtestVars == <<vars, ledgerVars>>

BacktestInit == Init /\ priced = {} /\ realized = {}

Realize == realized' = realized \cup {layer \in active : layer.id \notin Ids'}

Price == priced' = priced \cup {layer \in active' : layer.id \notin Ids}

RunBar(bar) == ProcessBar(bar) /\ Price /\ Realize

BacktestNext == \E t \in Times : \E bar \in Bar(t) : RunBar(bar)

BacktestSpec == BacktestInit /\ [][BacktestNext]_backtestVars

----------------------------------------------------------------------------
(***************************************************************************)
(* Correctness.                                                            *)
(***************************************************************************)
Time == [week : Weeks \cup {NoWeek}, day : 0..4, slot : Nat]
LayerType == [id : Nat \ {0}, kind : {"INITIAL", "ADJUSTMENT"}, body : Int, week : Weeks]

WeeklyTypeOK ==
  /\ state \in States /\ weekKey \in Weeks \cup {NoWeek} /\ center \in Nat \cup {NoCenter}
  /\ active \in SUBSET LayerType /\ IsFiniteSet(active)
  /\ nextId \in Nat \ {0} /\ deployedAt \in Time
  /\ adjustments \in Nat /\ eventSkipped \in BOOLEAN /\ now \in Time
  /\ priced \in SUBSET LayerType /\ realized \in SUBSET LayerType

\* After a bar every open layer belongs to the week of that bar, also when the week began
\* without a bar in which the forced exit could happen, and no layer is open in a week
\* with a flagged event (rollover in process_bar, is_event_week).
HeldInItsWeek == \A layer \in active : layer.week = now.week /\ layer.week \notin EventWeeks

\* The ledger follows the machine although it only compares ids, and a bar may close the
\* layers of one week and open those of the next: every layer that is or was open has
\* its entry cost, and exactly those that are no longer open are realized.
LedgerFollows == active \subseteq priced /\ realized = priced \ active

Added(week) == {layer \in priced : layer.week = week /\ layer.kind = "ADJUSTMENT"}

\* However its counter is kept and reset, the adjustments bought in any one week never
\* exceed max_adjustments_per_week.
AdjustmentsLimited == \A week \in Weeks : Cardinality(Added(week)) <= MaxAdjustments

\* min_hold_trading_days, which no code reads: the days of entry, the day of the forced
\* exit and the two limits on the holding time are what keeps a corridor that is not
\* aborted open that long.
Patient ==
  /\ EntryLastDay + MinHold - 1 <= ExitDay
  /\ MinHold <= MaxHold /\ MinHold <= DteBuffer + 1 /\ MinHold <= 6 - EntryLastDay

HoldsItsMinimum ==
  [][ Patient /\ active # {} /\ active \cap active' = {} /\ state' # "ABORTED"
        => BusinessDays(deployedAt, now') >= MinHold ]_backtestVars

(***************************************************************************)
(* One campaign a week.                                                    *)
(***************************************************************************)
Phase == IF state = "IDLE" THEN "ahead" ELSE IF state \in Holding THEN "running" ELSE "over"

Campaign == INSTANCE WeeklyCampaign WITH
  week <- weekKey, phase <- Phase, size <- Cardinality(active), growth <- adjustments,
  Initial <- InitialCount, MaxGrowth <- MaxAdjustments, Limit <- MaxActive

OneCampaignPerWeek == Campaign!Spec

=============================================================================
