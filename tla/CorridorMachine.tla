--------------------------- MODULE CorridorMachine ---------------------------
(***************************************************************************)
(* The corridor state machine (corridor/strategy/corridor_state_machine.py *)
(* with the assessment of recenter_rules.py): it is fed one completed bar  *)
(* at a time and decides which butterfly layers to open and to close.      *)
(*                                                                         *)
(* There is one action per branch of process_bar, and one for each of the  *)
(* two calls its callers make instead of it when a protective exit fires   *)
(* (flatten_positions, close_layers).  A layer is its id; ids grow, so the *)
(* list active_layers is the set `layers' in increasing order.  The PRIMARY *)
(* layer, of which there is at most one, is `primary'.                      *)
(*                                                                         *)
(* Time is counted in slots of equal length; Day is the New York session   *)
(* date and Slot the time of day.  -1 stands for None.                     *)
(***************************************************************************)
EXTENDS Integers, FiniteSets

CONSTANTS
  Bars,               \* the bars the feed can deliver, see Bar
  Horizon,            \* last slot of the feed: bounds the model
  SlotsPerDay,
  WindowStart,        \* valid_trading_start, a slot of the day
  WindowEnd,          \* valid_trading_end
  EntryEnd,           \* primary_entry_end
  BlockedDays,        \* days that skip_entry_weekdays or event_dates block
  HalfBand,           \* coverage_band_width / 2
  RecenterThreshold,
  Persistence,        \* drift_persistence_bars
  Cooldown,           \* rebuild_cooldown_minutes, in slots
  MaxLayers,          \* max_active_butterfly_layers
  ConfiguredTargets,  \* length of layer_dte_targets
  DistinctTargets,    \* how many different DTEs it holds
  HoldsOvernight,     \* hold_overnight
  BlocksReentry,      \* block_same_day_reentry_after_take_profit
  DailyAdditions,     \* allow_daily_entry_additions
  SkipsGapDays,       \* skip_gap_days with a positive max_entry_gap_pct
  IndividualExits     \* layer_exit_scope = "individual"

Never == -1
NoLayer == 0

Trends == {"TREND_UP", "TREND_DOWN"}
Regimes == Trends \cup {"RANGE", "NEUTRAL", "NONE"}
States == {"IDLE", "ACTIVE_CENTERED", "DRIFTING", "REBUILD", "ABORT"}
ProtectiveExits == {"STOP_LOSS", "TAKE_PROFIT", "MAX_HOLD"}

(***************************************************************************)
(* What a bar shows: the regime ("NONE" while the history is too short),   *)
(* whether there is a center estimate, how far the close lies from that    *)
(* center, the estimate's tolerance, whether volume and momentum reach the *)
(* abort thresholds, whether the quality filters of a primary entry pass   *)
(* (confidence, momentum, volume, no breakout), and whether the open gaps  *)
(* from the last close by more than max_entry_gap_pct.                     *)
(***************************************************************************)
Bar == [regime : Regimes, center : BOOLEAN, distance : Nat, tolerance : Nat,
        volumeSpike : BOOLEAN, momentumSpike : BOOLEAN,
        quiet : BOOLEAN, gap : BOOLEAN]

ASSUME BarsAssumption == Bars \subseteq Bar
ASSUME TimeAssumption ==
  /\ Horizon \in Nat /\ SlotsPerDay \in Nat \ {0}
  /\ WindowStart \in Nat /\ WindowEnd \in Nat /\ EntryEnd \in Nat
ASSUME RuleAssumption ==
  /\ HalfBand \in Nat /\ RecenterThreshold \in Nat
  /\ Persistence \in Nat /\ Cooldown \in Nat
ASSUME LayerAssumption ==
  /\ MaxLayers \in Nat
  /\ ConfiguredTargets \in Nat /\ DistinctTargets \in 0..ConfiguredTargets
  /\ ConfiguredTargets > 0 => DistinctTargets > 0
ASSUME SwitchAssumption ==
  /\ HoldsOvernight \in BOOLEAN /\ BlocksReentry \in BOOLEAN
  /\ DailyAdditions \in BOOLEAN /\ SkipsGapDays \in BOOLEAN
  /\ IndividualExits \in BOOLEAN

VARIABLES
  state, layers, primary, nextId, drift, centered, lastRebuild,
  session, gapFiltered, lastEntry, lastTakeProfit,
  now,          \* the slot of the bar last handled
  toClose,      \* the layers that the step's actions tell the caller to close
  toOpen        \* and to open

machineVars == <<state, layers, primary, nextId, drift, centered, lastRebuild,
                 session, gapFiltered, lastEntry, lastTakeProfit>>
vars == <<machineVars, now, toClose, toOpen>>

Day(t) == t \div SlotsPerDay
Slot(t) == t % SlotsPerDay
InWindow(t) == Slot(t) \in WindowStart..WindowEnd

Cap == IF MaxLayers = 0 THEN 1 ELSE MaxLayers

\* Mutant: the ladder is not cut to the capacity.
UncutLadder == IF DistinctTargets = 0 THEN 1 ELSE DistinctTargets

\* _entry_dte_targets: how many layers an entry opens together.
EntryBatch == IF DistinctTargets = 0 THEN 1
              ELSE IF DistinctTargets < Cap THEN DistinctTargets ELSE Cap

Init ==
  /\ state = "IDLE" /\ layers = {} /\ primary = NoLayer /\ nextId = 1
  /\ drift = 0 /\ centered = FALSE /\ lastRebuild = Never
  /\ session = Never /\ gapFiltered = FALSE
  /\ lastEntry = Never /\ lastTakeProfit = Never
  /\ now = 0 /\ toClose = {} /\ toOpen = {}

----------------------------------------------------------------------------
(***************************************************************************)
(* The assessment of a bar (RecenterRuleEngine.evaluate).                  *)
(***************************************************************************)
Outside(bar) == bar.center /\ bar.distance > bar.tolerance

\* Mutant: a bar back inside the tolerance counts the drift down.
CountsDown(bar) == IF Outside(bar) THEN drift + 1 ELSE drift - 1

NextDrift(bar) == IF Outside(bar) THEN drift + 1 ELSE 0

\* Mutant: the cooldown is ignored.
AlwaysReady(t) == TRUE

CooldownReady(t) == lastRebuild = Never \/ t - lastRebuild >= Cooldown

ShouldAbort(bar) ==
  /\ bar.center
  /\ \/ bar.regime \in Trends
     \/ /\ bar.regime # "NONE"
        /\ \/ bar.volumeSpike /\ bar.distance > HalfBand
           \/ bar.momentumSpike /\ Outside(bar)

\* Mutant: one bar far outside is enough.
ImpatientRebuild(bar, t) ==
  Outside(bar) /\ bar.distance >= RecenterThreshold /\ CooldownReady(t) /\ ~ ShouldAbort(bar)

ShouldRebuild(bar, t) ==
  /\ Outside(bar) /\ bar.distance >= RecenterThreshold
  /\ NextDrift(bar) >= Persistence /\ CooldownReady(t)
  /\ ~ ShouldAbort(bar)

(***************************************************************************)
(* _update_session_context: the first bar of a session decides whether the *)
(* whole session is filtered as a gap day.                                 *)
(***************************************************************************)
UpdateSession(gap, t) ==
  /\ now' = t
  /\ session' = Day(t)
  /\ gapFiltered' = IF session = Day(t) THEN gapFiltered
                    ELSE SkipsGapDays /\ session # Never /\ gap

\* Mutant: a take-profit of the session does not block entries.
EntryDespiteTakeProfit(bar, t) ==
  /\ bar.regime = "RANGE" /\ bar.center
  /\ Day(t) \notin BlockedDays /\ ~ gapFiltered'
  /\ Slot(t) <= EntryEnd /\ bar.quiet

\* _primary_entry_allowed, for a bar of the session at hand.
EntryAllowed(bar, t) ==
  /\ bar.regime = "RANGE" /\ bar.center
  /\ Day(t) \notin BlockedDays
  /\ ~ gapFiltered'
  /\ ~ (BlocksReentry /\ lastTakeProfit = Day(t))
  /\ Slot(t) <= EntryEnd
  /\ bar.quiet

\* Mutant: next_layer_id is read after it was incremented for the last layer only.
StaleIds(n) == (nextId - 1) .. (nextId + n - 2)

\* The ids that _open_layer gives to the next n layers.
Fresh(n) == nextId .. (nextId + n - 1)

\* Mutant: the last layer of a ladder is taken for the primary.
LastOf(n) == nextId + n - 1

\* Of the n layers of a new corridor the first is PRIMARY.
PrimaryOf(n) == nextId

\* Mutants: the layers are announced but kept; dropped but not announced.
KeepsClosed == layers' = layers /\ primary' = primary /\ toClose' = layers
DropsSilently == layers' = {} /\ primary' = NoLayer /\ toClose' = {}

\* _close_all_layers
CloseAll == layers' = {} /\ primary' = NoLayer /\ toClose' = layers

----------------------------------------------------------------------------
(***************************************************************************)
(* process_bar outside the trading window.                                 *)
(***************************************************************************)
Holding(t) == ~ InWindow(t) /\ HoldsOvernight /\ layers # {}

\* Mutant: a corridor that waits to be rebuilt is not flushed.
FlushesUnlessRebuilding(t) ==
  ~ InWindow(t) /\ ~ Holding(t) /\ state \in {"ACTIVE_CENTERED", "DRIFTING"}

Flushing(t) == /\ ~ InWindow(t) /\ ~ Holding(t)
               /\ state \in {"ACTIVE_CENTERED", "DRIFTING", "REBUILD"}

HoldOvernight(bar, t) ==
  /\ Holding(t)
  /\ UpdateSession(bar.gap, t)
  /\ state' = "ACTIVE_CENTERED" /\ drift' = 0
  /\ centered' = (centered \/ bar.center)
  /\ toClose' = {} /\ toOpen' = {}
  /\ UNCHANGED <<layers, primary, nextId, lastRebuild, lastEntry, lastTakeProfit>>

SessionFlush(bar, t) ==
  /\ Flushing(t)
  /\ UpdateSession(bar.gap, t)
  /\ CloseAll /\ toOpen' = {}
  /\ state' = "IDLE" /\ drift' = 0 /\ centered' = FALSE
  /\ UNCHANGED <<nextId, lastRebuild, lastEntry, lastTakeProfit>>

(***************************************************************************)
(* process_bar once the bar is assessed.                                   *)
(***************************************************************************)
Aborting(bar, t) == /\ ~ Holding(t) /\ ~ Flushing(t)
                    /\ ShouldAbort(bar) /\ state # "ABORT"

Assessed(bar, t) == /\ ~ Holding(t) /\ ~ Flushing(t) /\ ~ Aborting(bar, t)
                    /\ UpdateSession(bar.gap, t)

AbortCorridor(bar, t) ==
  /\ Aborting(bar, t)
  /\ UpdateSession(bar.gap, t)
  /\ CloseAll /\ toOpen' = {}
  /\ state' = "ABORT" /\ drift' = 0 /\ centered' = bar.center
  /\ UNCHANGED <<nextId, lastRebuild, lastEntry, lastTakeProfit>>

\* An aborted corridor turns IDLE on the first bar in range, and that bar may enter.
RangeReturned(bar, t) ==
  state = "ABORT" /\ InWindow(t) /\ bar.regime = "RANGE" /\ bar.center

Entering(bar, t) == InWindow(t) /\ EntryAllowed(bar, t)

StayAborted(bar, t) ==
  /\ Assessed(bar, t)
  /\ state = "ABORT" /\ ~ RangeReturned(bar, t)
  /\ toClose' = {} /\ toOpen' = {}
  /\ UNCHANGED <<state, layers, primary, nextId, drift, centered, lastRebuild,
                 lastEntry, lastTakeProfit>>

StayIdle(bar, t) ==
  /\ Assessed(bar, t)
  /\ state = "IDLE" \/ RangeReturned(bar, t)
  /\ ~ Entering(bar, t)
  /\ state' = "IDLE" /\ toClose' = {} /\ toOpen' = {}
  /\ UNCHANGED <<layers, primary, nextId, drift, centered, lastRebuild,
                 lastEntry, lastTakeProfit>>

\* The layers of a new corridor (_open_entry_layers).
OpenEntryLayers(t) ==
  /\ toOpen' = Fresh(EntryBatch) /\ layers' = toOpen'
  /\ primary' = PrimaryOf(EntryBatch) /\ nextId' = nextId + EntryBatch
  /\ state' = "ACTIVE_CENTERED" /\ drift' = 0 /\ centered' = TRUE
  /\ lastEntry' = Day(t)

EnterCorridor(bar, t) ==
  /\ Assessed(bar, t)
  /\ state = "IDLE" \/ RangeReturned(bar, t)
  /\ Entering(bar, t)
  /\ OpenEntryLayers(t) /\ toClose' = {}
  /\ UNCHANGED <<lastRebuild, lastTakeProfit>>

StartDrift(bar, t) ==
  /\ Assessed(bar, t)
  /\ state = "ACTIVE_CENTERED" /\ Outside(bar)
  /\ state' = "DRIFTING" /\ drift' = NextDrift(bar) /\ centered' = TRUE
  /\ toClose' = {} /\ toOpen' = {}
  /\ UNCHANGED <<layers, primary, nextId, lastRebuild, lastEntry, lastTakeProfit>>

\* Mutant: the session that already has an entry is not checked.
RepeatedAddition(bar, t) ==
  IF DailyAdditions /\ layers # {} /\ Cardinality(layers) < MaxLayers /\ EntryAllowed(bar, t)
  THEN 1 ELSE 0

\* _daily_entry_addition_allowed and _open_additional_entry_layers: the size of the batch.
DailyAddition(bar, t) ==
  LET room == MaxLayers - Cardinality(layers) IN
  IF /\ DailyAdditions /\ layers # {} /\ room > 0
     /\ lastEntry # Day(t) /\ EntryAllowed(bar, t)
  THEN IF EntryBatch < room THEN EntryBatch ELSE room
  ELSE 0

\* _should_add_supplemental_layer, when the corridor already has n layers.
EdgeLayer(bar, n) ==
  IF /\ MaxLayers > 1 /\ ConfiguredTargets <= 1 /\ n > 0 /\ n < MaxLayers
     /\ 5 * bar.distance > 3 * bar.tolerance /\ bar.distance <= HalfBand
     /\ bar.center
  THEN 1 ELSE 0

StayCentered(bar, t) ==
  /\ Assessed(bar, t)
  /\ state = "ACTIVE_CENTERED" /\ ~ Outside(bar)
  /\ LET batch == DailyAddition(bar, t)
         added == batch + EdgeLayer(bar, Cardinality(layers) + batch)
     IN /\ toOpen' = Fresh(added) /\ layers' = layers \cup toOpen'
        /\ nextId' = nextId + added
        /\ lastEntry' = IF batch > 0 THEN Day(t) ELSE lastEntry
  /\ centered' = (centered \/ bar.center) /\ toClose' = {}
  /\ UNCHANGED <<state, primary, drift, lastRebuild, lastTakeProfit>>

\* Mutant: the drift is resolved but still counted.
ResolveUncleared(bar, t) ==
  /\ Assessed(bar, t)
  /\ state = "DRIFTING" /\ bar.center /\ ~ Outside(bar)
  /\ state' = "ACTIVE_CENTERED" /\ centered' = TRUE /\ toClose' = {} /\ toOpen' = {}
  /\ UNCHANGED <<drift, layers, primary, nextId, lastRebuild, lastEntry, lastTakeProfit>>

ResolveDrift(bar, t) ==
  /\ Assessed(bar, t)
  /\ state = "DRIFTING" /\ bar.center /\ ~ Outside(bar)
  /\ state' = "ACTIVE_CENTERED" /\ drift' = 0 /\ centered' = TRUE
  /\ toClose' = {} /\ toOpen' = {}
  /\ UNCHANGED <<layers, primary, nextId, lastRebuild, lastEntry, lastTakeProfit>>

RequestRebuild(bar, t) ==
  /\ Assessed(bar, t)
  /\ state = "DRIFTING" /\ ShouldRebuild(bar, t)
  /\ state' = "REBUILD" /\ drift' = NextDrift(bar) /\ centered' = TRUE
  /\ toClose' = {} /\ toOpen' = {}
  /\ UNCHANGED <<layers, primary, nextId, lastRebuild, lastEntry, lastTakeProfit>>

\* A bar without a center estimate also resets the count of bars outside.
KeepDrifting(bar, t) ==
  /\ Assessed(bar, t)
  /\ state = "DRIFTING" /\ (bar.center => Outside(bar)) /\ ~ ShouldRebuild(bar, t)
  /\ drift' = NextDrift(bar) /\ centered' = (centered \/ bar.center)
  /\ toClose' = {} /\ toOpen' = {}
  /\ UNCHANGED <<state, layers, primary, nextId, lastRebuild, lastEntry, lastTakeProfit>>

AwaitCenter(bar, t) ==
  /\ Assessed(bar, t)
  /\ state = "REBUILD" /\ ~ bar.center
  /\ toClose' = {} /\ toOpen' = {}
  /\ UNCHANGED <<state, layers, primary, nextId, drift, centered, lastRebuild,
                 lastEntry, lastTakeProfit>>

Rebuild(bar, t) ==
  /\ Assessed(bar, t)
  /\ state = "REBUILD" /\ bar.center
  /\ toClose' = layers /\ OpenEntryLayers(t)
  /\ lastRebuild' = t
  /\ UNCHANGED lastTakeProfit

ProcessBar(bar, t) ==
  \/ HoldOvernight(bar, t) \/ SessionFlush(bar, t) \/ AbortCorridor(bar, t)
  \/ StayAborted(bar, t)   \/ StayIdle(bar, t)     \/ EnterCorridor(bar, t)
  \/ StartDrift(bar, t)    \/ StayCentered(bar, t)
  \/ ResolveDrift(bar, t)  \/ RequestRebuild(bar, t) \/ KeepDrifting(bar, t)
  \/ AwaitCenter(bar, t)   \/ Rebuild(bar, t)

----------------------------------------------------------------------------
(***************************************************************************)
(* The protective exits, which replace process_bar on the bar they fire.   *)
(***************************************************************************)
RecordTakeProfit(reasons, t) ==
  lastTakeProfit' = IF "TAKE_PROFIT" \in reasons THEN Day(t) ELSE lastTakeProfit

FlattenPositions(reason, gap, t) ==
  /\ layers # {}
  /\ UpdateSession(gap, t)
  /\ CloseAll /\ toOpen' = {}
  /\ RecordTakeProfit({reason}, t)
  /\ state' = "IDLE" /\ drift' = 0 /\ centered' = FALSE
  /\ UNCHANGED <<nextId, lastRebuild, lastEntry>>

StateWithout(ids) == IF layers \ ids = {} THEN "IDLE" ELSE "ACTIVE_CENTERED"

CloseLayers(ids, reasons, gap, t) ==
  /\ ids # {} /\ ids \subseteq layers
  /\ UpdateSession(gap, t)
  /\ layers' = layers \ ids /\ toClose' = ids /\ toOpen' = {}
  /\ primary' = IF primary \in ids THEN NoLayer ELSE primary
  /\ RecordTakeProfit(reasons, t)
  /\ state' = StateWithout(ids)
  /\ drift' = 0 /\ centered' = (layers' # {} /\ centered)
  /\ UNCHANGED <<nextId, lastRebuild, lastEntry>>

\* An exit of the primary, or of the oldest layer when the gate refused the primary, closes
\* every layer; or each layer has exits of its own.
PrimaryExit(t) ==
  /\ ~ IndividualExits /\ layers # {}
  /\ \E reason \in ProtectiveExits, gap \in BOOLEAN : FlattenPositions(reason, gap, t)

LayerExits(t) ==
  /\ IndividualExits
  /\ \E ids \in SUBSET layers, reasons \in SUBSET ProtectiveExits, gap \in BOOLEAN :
       /\ reasons # {} /\ Cardinality(reasons) <= Cardinality(ids)
       /\ CloseLayers(ids, reasons, gap, t)

Next ==
  \E t \in (now + 1)..Horizon :
    \/ \E bar \in Bars : ProcessBar(bar, t)
    \/ PrimaryExit(t)
    \/ LayerExits(t)

Spec == Init /\ [][Next]_vars

\* The feed delivers bars until the horizon; every step of the machine is one of them.
BarArrives == \E t \in (now + 1)..Horizon : now' = t
FairSpec == Spec /\ WF_now(BarArrives)

----------------------------------------------------------------------------
(***************************************************************************)
(* Correctness.                                                            *)
(***************************************************************************)
TypeOK ==
  /\ state \in States /\ layers \in SUBSET (Nat \ {0}) /\ IsFiniteSet(layers)
  /\ primary \in Nat /\ nextId \in Nat \ {0}
  /\ drift \in Nat /\ centered \in BOOLEAN /\ lastRebuild \in Int
  /\ session \in Int /\ gapFiltered \in BOOLEAN
  /\ lastEntry \in Int /\ lastTakeProfit \in Int
  /\ now \in Nat
  /\ toClose \in SUBSET (Nat \ {0}) /\ toOpen \in SUBSET (Nat \ {0})

\* The control state and the book never disagree: the machine carries layers exactly
\* while it is centered, drifting or about to rebuild (process_bar, the two exits).
ExposureMatchesState == layers = {} <=> state \in {"IDLE", "ABORT"}

\* Ladders, daily additions and edge layers together never exceed
\* max_active_butterfly_layers.
WithinCap == Cardinality(layers) <= Cap

\* While exits follow the primary layer, an open corridor has its primary, and the
\* primary is the oldest layer: no supplemental layer outlives the one that guards it.
PrimaryAnchors ==
  ~ IndividualExits /\ layers # {} => primary \in layers /\ \A id \in layers : primary <= id

\* Without hold_overnight no layer survives a bar outside the trading window.
FlatOutsideWindow ==
  ~ HoldsOvernight /\ ~ IndividualExits /\ ~ InWindow(now) => layers = {}

\* A pending rebuild still satisfies what it was granted for, however many bars it waits:
\* the drift lasted drift_persistence_bars and the cooldown has passed.
PendingRebuildEarned ==
  state = "REBUILD" =>
    drift >= Persistence /\ drift > 0 /\ (lastRebuild = Never \/ now - lastRebuild >= Cooldown)

\* The drift counter is alive only during a drift, so that no earlier drift counts
\* towards the persistence of the next one.
NoStaleDrift == state \notin {"DRIFTING", "REBUILD"} => drift = 0

\* What a step does to the book is what its actions tell the caller: layers it closes
\* were open, layers it opens have ids never used before, and nothing else changes.
ActionsExplainLayers ==
  [][ /\ toClose' \subseteq layers
      /\ \A id \in toOpen' : id >= nextId /\ id < nextId'
      /\ layers' = (layers \ toClose') \cup toOpen' ]_vars

\* Two rebuilds are never closer than rebuild_cooldown_minutes, though the cooldown is
\* tested on the bar that requests the rebuild and the rebuild happens on a later one.
RebuildsKeepCooldown ==
  [][ lastRebuild # Never /\ lastRebuild' # lastRebuild
        => lastRebuild' - lastRebuild >= Cooldown ]_vars

\* --block-same-day-reentry-after-take-profit: after a take-profit no layer is opened
\* in the same session (entry, rebuild, daily addition or edge layer).
TakeProfitEndsSession ==
  [][ BlocksReentry /\ toOpen' # {} => lastTakeProfit # Day(now') ]_vars

\* Layers that stay open get at most one batch of additions per session: opening a
\* batch marks the session, and in a marked session only a single edge layer can join.
OneBatchPerSession ==
  [][ now' # now /\ layers # {} /\ toClose' = {} /\ toOpen' # {}
        => \/ lastEntry # Day(now') /\ lastEntry' = Day(now')
           \/ Cardinality(toOpen') = 1 /\ ConfiguredTargets <= 1 ]_vars

\* A drift and a requested rebuild always come to an end, if only with the session.
DriftEnds == state \in {"DRIFTING", "REBUILD"} ~> state \in {"IDLE", "ACTIVE_CENTERED", "ABORT"}

(***************************************************************************)
(* The book of layers that the machine promises its callers.               *)
(***************************************************************************)
Book == INSTANCE LayerBook WITH open <- layers, issued <- nextId - 1, Limit <- Cap
KeepsBook == Book!Spec

=============================================================================
