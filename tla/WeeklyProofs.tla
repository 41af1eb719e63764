---------------------------- MODULE WeeklyProofs ----------------------------
(***************************************************************************)
(* Theorems about WeeklyBacktest, for every calendar, feed and setting of  *)
(* the weekly corridor.                                                    *)
(***************************************************************************)
EXTENDS WeeklyBacktest, FiniteSetTheorems, TLAPS

\* The context is that of the week of the last bar, and says truly whether it is open.
Calendar ==
  /\ weekKey = now.week
  /\ active # {} <=> state \in Holding
  /\ state = "IDLE" => adjustments = 0
  /\ weekKey = NoWeek => state = "IDLE"
  /\ active # {} => deployedAt.week = now.week /\ deployedAt.day <= EntryLastDay

\* No id is used twice, and no layer comes from the future.
FreshIds == \A layer \in priced : layer.id < nextId /\ layer.week <= now.week

\* The counter of the adjustments is right, and its limit holds in every week.
Counted ==
  /\ adjustments <= MaxAdjustments
  /\ Cardinality(Added(now.week)) = adjustments
  /\ \A week \in Weeks \cup {NoWeek} :
       IsFiniteSet(Added(week)) /\ Cardinality(Added(week)) <= MaxAdjustments

IInv == WeeklyTypeOK /\ Calendar /\ HeldInItsWeek /\ LedgerFollows /\ FreshIds /\ Counted

----------------------------------------------------------------------------
(***************************************************************************)
(* What a bar can do to the open layers: deploy new ones, leave none, keep *)
(* them, or add one.                                                       *)
(***************************************************************************)
Arrives(bar, t) ==
  /\ bar.time = t /\ now' = t /\ weekKey' = t.week
  /\ priced' = priced \cup {layer \in active' : layer.id \notin Ids}
  /\ realized' = realized \cup {layer \in active : layer.id \notin Ids'}

Deploys(bar, t) ==
  /\ SameWeek(t) => state = "IDLE"
  /\ t.week \notin EventWeeks /\ t.day <= EntryLastDay /\ InitialCount > 0
  /\ bar.center # NoCenter /\ center' = bar.center
  /\ state' = "ACTIVE" /\ active' = InitialLayers(nextId, bar.center, t.week)
  /\ nextId' = nextId + InitialCount
  /\ deployedAt' = t /\ adjustments' = 0 /\ eventSkipped' = FALSE

Clears(bar, t) ==
  /\ active' = {} /\ nextId' = nextId
  /\ deployedAt' \in {deployedAt, Epoch} /\ center' \in {center, NoCenter}
  /\ eventSkipped' \in BOOLEAN
  /\ \/ ~ SameWeek(t) /\ state' = "IDLE" /\ adjustments' = 0
     \/ SameWeek(t) /\ state = "IDLE" /\ state' = "IDLE" /\ adjustments' = adjustments
     \/ /\ SameWeek(t) /\ state \in Holding /\ adjustments' = adjustments
        /\ \/ state' = "ABORTED"
           \/ state' = "EXITED" /\ (DteLow(t) \/ HeldLong(t) \/ WeekEnds(t))

Keeps(bar, t) ==
  /\ SameWeek(t) /\ state # "IDLE"
  /\ UNCHANGED <<state, center, active, nextId, deployedAt, adjustments, eventSkipped>>

Grows(bar, t) ==
  /\ SameWeek(t) /\ state \in Holding
  /\ adjustments < MaxAdjustments /\ Cardinality(active) < MaxActive
  /\ state' = "ADJUSTED"
  /\ active' = active \cup {Layer(nextId, "ADJUSTMENT", bar.price, t.week)}
  /\ nextId' = nextId + 1 /\ adjustments' = adjustments + 1
  /\ UNCHANGED <<center, deployedAt, eventSkipped>>

LEMMA BarFacts ==
  ASSUME NEW t \in Times, NEW bar \in Bar(t)
  PROVE  /\ bar.time = t /\ t \in Time
         /\ t.week \in Weeks /\ t.week \in Nat /\ t.day \in 0..4 /\ t.slot \in Nat
         /\ bar.price \in Nat /\ bar.center \in Nat \cup {NoCenter}
         /\ bar.regime = "RANGE" => t.week \notin EventWeeks
<1>1. /\ bar.time = t /\ bar.price \in Prices /\ bar.center \in Centers \cup {NoCenter}
      /\ bar.regime \in RegimesIn(t.week)
  BY DEF Bar
<1>2. t \in [week : Weeks, day : SessionDays, slot : Slots]
  BY DEF Times
<1>3. /\ t.week \in Weeks /\ t.day \in SessionDays /\ t.slot \in Slots
      /\ t = [week |-> t.week, day |-> t.day, slot |-> t.slot]
  BY <1>2
<1>4. /\ t.week \in Nat /\ t.day \in 0..4 /\ t.slot \in Nat
  BY <1>3, CalendarAssumption
<1>5. t \in Time
  BY <1>3, <1>4 DEF Time
<1>6. bar.price \in Nat /\ bar.center \in Nat \cup {NoCenter}
  BY <1>1, MarketAssumption
<1>7. bar.regime = "RANGE" => t.week \notin EventWeeks
  BY <1>1 DEF RegimesIn
<1>. QED BY <1>1, <1>3, <1>4, <1>5, <1>6, <1>7

\* Every bar does one of the four.
LEMMA StepEffects ==
  ASSUME IInv, NEW t \in Times, NEW bar \in Bar(t), RunBar(bar)
  PROVE  /\ Arrives(bar, t) /\ now.week <= t.week /\ weekKey <= t.week
         /\ Deploys(bar, t) \/ Clears(bar, t) \/ Keeps(bar, t) \/ Grows(bar, t)
<1>1. /\ bar.time = t /\ t.week \in Nat
      /\ bar.regime = "RANGE" => t.week \notin EventWeeks
  BY BarFacts
<1>2. Arrives(bar, t)
  BY <1>1 DEF RunBar, ProcessBar, Price, Realize, Arrives
<1>3. now.week <= t.week /\ weekKey <= t.week
  <2>1. Earlier(now, t) /\ weekKey = now.week /\ now.week \in Int
    BY <1>1, CalendarAssumption
    DEF IInv, RunBar, ProcessBar, Calendar, WeeklyTypeOK, Time, NoWeek
  <2>. QED BY <1>1, <2>1 DEF Earlier
<1>4. /\ active # {} <=> state \in Holding
      /\ eventSkipped \in BOOLEAN
  BY DEF IInv, Calendar, WeeklyTypeOK
<1>5. CASE SkipEventWeek(bar)
  <2>1. /\ StateIn(t) = "IDLE" /\ state' = "IDLE" /\ eventSkipped' = TRUE /\ Reset(t)
    BY <1>1, <1>5 DEF SkipEventWeek
  <2>2. Clears(bar, t)
    BY <1>4, <2>1 DEF Clears, StateIn, Reset, FirstFreeId, Holding
  <2>. QED BY <1>2, <1>3, <2>2
<1>6. CASE DeployInitial(bar)
  <2>1. /\ StateIn(t) = "IDLE" /\ bar.center # NoCenter /\ bar.regime = "RANGE"
        /\ InEntryWindow(t) /\ InitialCount > 0
        /\ state' = "ACTIVE" /\ active' = InitialLayers(FirstFreeId(t), bar.center, t.week)
        /\ nextId' = FirstFreeId(t) + InitialCount
        /\ center' = bar.center /\ deployedAt' = t
        /\ adjustments' = 0 /\ eventSkipped' = FALSE
    BY <1>1, <1>6 DEF DeployInitial, MayDeploy
  <2>2. t.day <= EntryLastDay
    BY <2>1, BarFacts, WindowAssumption DEF InEntryWindow
  <2>3. SameWeek(t) => state = "IDLE"
    BY <2>1 DEF StateIn
  <2>4. Deploys(bar, t)
    BY <1>1, <2>1, <2>2, <2>3 DEF Deploys, FirstFreeId
  <2>. QED BY <1>2, <1>3, <2>4
<1>7. CASE Wait(bar)
  <2>1. /\ StateIn(t) = "IDLE" /\ state' = "IDLE" /\ Reset(t)
        /\ eventSkipped' = (SameWeek(t) /\ eventSkipped)
    BY <1>1, <1>7 DEF Wait
  <2>2. eventSkipped' \in BOOLEAN
    BY <2>1
  <2>3. Clears(bar, t)
    BY <1>4, <2>1, <2>2 DEF Clears, StateIn, Reset, FirstFreeId, Holding
  <2>. QED BY <1>2, <1>3, <2>3
<1>8. CASE Abort(bar) \/ ExitDte(bar) \/ ExitHold(bar) \/ ExitWeek(bar)
  <2>1. /\ SameWeek(t) /\ state \in Holding /\ CloseAll
        /\ \/ state' = "ABORTED"
           \/ state' = "EXITED" /\ (DteLow(t) \/ HeldLong(t) \/ WeekEnds(t))
    BY <1>1, <1>8 DEF Abort, ExitDte, ExitHold, ExitWeek, Held
  <2>2. Clears(bar, t)
    BY <1>4, <2>1 DEF Clears, CloseAll
  <2>. QED BY <1>2, <1>3, <2>2
<1>9. CASE AddAdjustment(bar)
  <2>1. /\ SameWeek(t) /\ state \in Holding
        /\ adjustments < MaxAdjustments /\ Cardinality(active) < MaxActive
    BY <1>1, <1>9 DEF AddAdjustment, Stays, Held, ShouldAdjust
  <2>2. Grows(bar, t)
    BY <1>1, <1>9, <2>1 DEF AddAdjustment, Grows
  <2>. QED BY <1>2, <1>3, <2>2
<1>10. CASE Hold(bar) \/ StayOut(bar)
  <2>1. /\ SameWeek(t) /\ state # "IDLE"
    BY <1>1, <1>10 DEF Hold, StayOut, Stays, Held, Holding
  <2>2. UNCHANGED <<state, center, active, nextId, deployedAt, adjustments, eventSkipped>>
    BY <1>10 DEF Hold, StayOut, contextVars
  <2>3. Keeps(bar, t)
    BY <2>1, <2>2 DEF Keeps
  <2>. QED BY <1>2, <1>3, <2>3
<1>. QED
  BY <1>5, <1>6, <1>7, <1>8, <1>9, <1>10 DEF RunBar, ProcessBar

----------------------------------------------------------------------------
(***************************************************************************)
(* The layers of a deployment.                                             *)
(***************************************************************************)
LEMMA LayerTyped ==
  ASSUME NEW id \in Nat \ {0}, NEW kind \in {"INITIAL", "ADJUSTMENT"}, NEW price \in Int,
         NEW week \in Weeks
  PROVE  Layer(id, kind, price, week) \in LayerType
<1>1. price \div Rounding \in Int
  BY LadderAssumption
<1>2. RoundStrike(price) \in Int
  <2>. DEFINE q == price \div Rounding
              r == IF 2 * (price % Rounding) > Rounding
                        \/ (2 * (price % Rounding) = Rounding /\ q % 2 = 1)
                     THEN q + 1 ELSE q
  <2>1. r \in Int /\ Rounding \in Int
    BY <1>1, LadderAssumption
  <2>2. RoundStrike(price) = Rounding * r
    BY DEF RoundStrike
  <2>. HIDE DEF r
  <2>. QED BY <2>1, <2>2
<1>. QED BY <1>2 DEF Layer, LayerType

LEMMA InitialCountTyped == InitialCount \in 0..3
BY LadderAssumption DEF InitialCount

LEMMA InitialLayersTyped ==
  ASSUME NEW id \in Nat \ {0}, NEW c \in Nat, NEW week \in Weeks
  PROVE  /\ InitialLayers(id, c, week) \in SUBSET LayerType
         /\ \A layer \in InitialLayers(id, c, week) :
              /\ layer.id >= id /\ layer.id < id + InitialCount
              /\ layer.week = week /\ layer.kind = "INITIAL"
<1>. SUFFICES ASSUME NEW layer \in InitialLayers(id, c, week)
              PROVE  /\ layer \in LayerType
                     /\ layer.id >= id /\ layer.id < id + InitialCount
                     /\ layer.week = week /\ layer.kind = "INITIAL"
  OBVIOUS
<1>1. PICK i \in 0..(InitialCount - 1) : layer = Layer(id + i, "INITIAL", c + (i - 1) * Spacing, week)
  BY DEF InitialLayers
<1>2. id + i \in Nat \ {0} /\ i < InitialCount /\ InitialCount \in Nat
  BY InitialCountTyped
<1>3. c + (i - 1) * Spacing \in Int
  <2>1. i - 1 \in Int /\ Spacing \in Int
    BY LadderAssumption
  <2>. HIDE DEF InitialCount
  <2>2. (i - 1) * Spacing \in Int
    BY <2>1
  <2>. QED BY <2>2
<1>4. layer \in LayerType
  BY <1>1, <1>2, <1>3, LayerTyped
<1>5. layer.id = id + i /\ layer.week = week /\ layer.kind = "INITIAL"
  BY <1>1 DEF Layer
<1>. QED BY <1>2, <1>4, <1>5

\* A deployment has as many layers as it should: no two of them are the same.
LEMMA InitialLayersCounted ==
  ASSUME NEW id \in Nat \ {0}, NEW c \in Nat, NEW week \in Weeks
  PROVE  /\ IsFiniteSet(InitialLayers(id, c, week))
         /\ Cardinality(InitialLayers(id, c, week)) = InitialCount
<1>. DEFINE L(i) == Layer(id + i, "INITIAL", c + (i - 1) * Spacing, week)
<1>1. L(0) # L(1) /\ L(0) # L(2) /\ L(1) # L(2)
  <2>1. L(0).id = id + 0 /\ L(1).id = id + 1 /\ L(2).id = id + 2
    BY DEF Layer
  <2>. QED BY <2>1
<1>2. InitialLayers(id, c, week) = {L(i) : i \in 0..(InitialCount - 1)}
  BY DEF InitialLayers
<1>. HIDE DEF L
<1>3. CASE InitialCount = 0
  <2>1. InitialLayers(id, c, week) = {}
    BY <1>2, <1>3
  <2>. QED BY <1>3, <2>1, FS_EmptySet
<1>4. CASE InitialCount = 1
  <2>1. 0..(InitialCount - 1) = {0}
    BY <1>4
  <2>2. InitialLayers(id, c, week) = {} \cup {L(0)}
    BY <1>2, <2>1
  <2>3. IsFiniteSet({} \cup {L(0)}) /\ Cardinality({} \cup {L(0)}) = 1
    BY FS_EmptySet, FS_AddElement
  <2>. QED BY <1>4, <2>2, <2>3
<1>5. CASE InitialCount = 2
  <2>1. 0..(InitialCount - 1) = {0, 1}
    BY <1>5
  <2>2. InitialLayers(id, c, week) = ({} \cup {L(0)}) \cup {L(1)}
    BY <1>2, <2>1
  <2>3. IsFiniteSet({} \cup {L(0)}) /\ Cardinality({} \cup {L(0)}) = 1
    BY FS_EmptySet, FS_AddElement
  <2>4. L(1) \notin {} \cup {L(0)}
    BY <1>1
  <2>. QED BY <1>5, <2>2, <2>3, <2>4, FS_AddElement
<1>6. CASE InitialCount = 3
  <2>1. 0..(InitialCount - 1) = {0, 1, 2}
    BY <1>6
  <2>2. InitialLayers(id, c, week) = (({} \cup {L(0)}) \cup {L(1)}) \cup {L(2)}
    BY <1>2, <2>1
  <2>3. IsFiniteSet({} \cup {L(0)}) /\ Cardinality({} \cup {L(0)}) = 1
    BY FS_EmptySet, FS_AddElement
  <2>4. L(1) \notin {} \cup {L(0)} /\ L(2) \notin ({} \cup {L(0)}) \cup {L(1)}
    BY <1>1
  <2>5. /\ IsFiniteSet(({} \cup {L(0)}) \cup {L(1)})
        /\ Cardinality(({} \cup {L(0)}) \cup {L(1)}) = 2
    BY <2>3, <2>4, FS_AddElement
  <2>. QED BY <1>6, <2>2, <2>4, <2>5, FS_AddElement
<1>. QED BY <1>3, <1>4, <1>5, <1>6, InitialCountTyped

----------------------------------------------------------------------------
(***************************************************************************)
(* The invariant.                                                          *)
(***************************************************************************)
LEMMA InitInv ==
  ASSUME BacktestInit
  PROVE  IInv
<1>1. /\ state = "IDLE" /\ weekKey = NoWeek /\ center = NoCenter /\ active = {} /\ nextId = 1
      /\ deployedAt = Epoch /\ adjustments = 0 /\ eventSkipped = FALSE /\ now = Epoch
      /\ priced = {} /\ realized = {}
  BY DEF BacktestInit, Init
<1>2. Epoch \in Time /\ Epoch.week = NoWeek
  BY DEF Epoch, Time, NoWeek
<1>3. WeeklyTypeOK
  <2>1. IsFiniteSet(active)
    BY <1>1, FS_EmptySet
  <2>2. weekKey \in Weeks \cup {NoWeek} /\ center \in Nat \cup {NoCenter}
    BY <1>1 DEF NoCenter
  <2>3. state \in States
    BY <1>1 DEF States
  <2>4. nextId \in Nat \ {0} /\ adjustments \in Nat
    BY <1>1
  <2>5. eventSkipped \in BOOLEAN
    BY <1>1
  <2>6. deployedAt \in Time /\ now \in Time
    BY <1>1, <1>2
  <2>7. /\ active \in SUBSET LayerType
        /\ priced \in SUBSET LayerType /\ realized \in SUBSET LayerType
    BY <1>1
  <2>. QED BY <2>1, <2>2, <2>3, <2>4, <2>5, <2>6, <2>7 DEF WeeklyTypeOK
<1>4. Calendar
  BY <1>1, <1>2 DEF Calendar, Holding
<1>5. HeldInItsWeek /\ LedgerFollows /\ FreshIds
  BY <1>1 DEF HeldInItsWeek, LedgerFollows, FreshIds
<1>6. \A week : Added(week) = {}
  BY <1>1 DEF Added
<1>7. Counted
  BY <1>1, <1>6, FS_EmptySet, LadderAssumption DEF Counted
<1>. QED BY <1>3, <1>4, <1>5, <1>7 DEF IInv

LEMMA StepTyped ==
  ASSUME IInv, NEW t \in Times, NEW bar \in Bar(t), Arrives(bar, t),
         Deploys(bar, t) \/ Clears(bar, t) \/ Keeps(bar, t) \/ Grows(bar, t)
  PROVE  WeeklyTypeOK'
<1>1. WeeklyTypeOK
  BY DEF IInv
<1>2. /\ t \in Time /\ t.week \in Weeks /\ bar.price \in Nat /\ bar.center \in Nat \cup {NoCenter}
  BY BarFacts
<1>3. /\ now' \in Time /\ weekKey' \in Weeks \cup {NoWeek}
  BY <1>2 DEF Arrives
<1>4. Epoch \in Time
  BY DEF Epoch, Time, NoWeek
<1>5. /\ state' \in States /\ center' \in Nat \cup {NoCenter} /\ nextId' \in Nat \ {0}
      /\ deployedAt' \in Time /\ adjustments' \in Nat /\ eventSkipped' \in BOOLEAN
  <2>1. CASE Deploys(bar, t)
    <3>1. nextId' \in Nat \ {0}
      <4>1. nextId \in Nat \ {0} /\ InitialCount \in Nat
        BY <1>1, InitialCountTyped DEF WeeklyTypeOK
      <4>. QED BY <2>1, <4>1 DEF Deploys
    <3>. QED BY <1>2, <2>1, <3>1 DEF Deploys, States
  <2>2. CASE Clears(bar, t)
    BY <1>1, <1>4, <2>2 DEF Clears, WeeklyTypeOK, States
  <2>3. CASE Keeps(bar, t)
    BY <1>1, <2>3 DEF Keeps, WeeklyTypeOK
  <2>4. CASE Grows(bar, t)
    BY <1>1, <2>4 DEF Grows, WeeklyTypeOK, States
  <2>. QED BY <2>1, <2>2, <2>3, <2>4
<1>6. active' \in SUBSET LayerType /\ IsFiniteSet(active')
  <2>1. CASE Deploys(bar, t)
    <3>1. nextId \in Nat \ {0} /\ bar.center \in Nat
      BY <1>1, <1>2, <2>1 DEF WeeklyTypeOK, Deploys
    <3>. QED BY <1>2, <2>1, <3>1, InitialLayersTyped, InitialLayersCounted DEF Deploys
  <2>2. CASE Clears(bar, t)
    BY <2>2, FS_EmptySet DEF Clears
  <2>3. CASE Keeps(bar, t)
    BY <1>1, <2>3 DEF Keeps, WeeklyTypeOK
  <2>4. CASE Grows(bar, t)
    <3>1. nextId \in Nat \ {0} /\ bar.price \in Int /\ active \in SUBSET LayerType
          /\ IsFiniteSet(active)
      BY <1>1, <1>2 DEF WeeklyTypeOK
    <3>2. Layer(nextId, "ADJUSTMENT", bar.price, t.week) \in LayerType
      BY <1>2, <3>1, LayerTyped
    <3>. QED BY <2>4, <3>1, <3>2, FS_AddElement DEF Grows
  <2>. QED BY <2>1, <2>2, <2>3, <2>4
<1>7. priced' \in SUBSET LayerType /\ realized' \in SUBSET LayerType
  BY <1>1, <1>6 DEF Arrives, WeeklyTypeOK
<1>. QED BY <1>3, <1>5, <1>6, <1>7 DEF WeeklyTypeOK

LEMMA StepCalendar ==
  ASSUME IInv, NEW t \in Times, NEW bar \in Bar(t), Arrives(bar, t), now.week <= t.week,
         Deploys(bar, t) \/ Clears(bar, t) \/ Keeps(bar, t) \/ Grows(bar, t)
  PROVE  Calendar'
<1>1. Calendar
  BY DEF IInv
<1>2. /\ t.week \in Nat /\ t.week # NoWeek
  BY BarFacts DEF NoWeek
<1>3. now' = t /\ weekKey' = t.week
  BY DEF Arrives
<1>4. CASE Deploys(bar, t)
  <2>1. nextId \in Nat \ {0} /\ bar.center \in Nat /\ t.week \in Weeks
    BY <1>4, BarFacts DEF IInv, WeeklyTypeOK, Deploys
  <2>2. active' # {}
    BY <1>4, <2>1, InitialLayersCounted, FS_EmptySet DEF Deploys
  <2>. QED BY <1>2, <1>3, <1>4, <2>2 DEF Deploys, Calendar, Holding
<1>5. CASE Clears(bar, t)
  BY <1>1, <1>2, <1>3, <1>5 DEF Clears, Calendar, Holding
<1>6. CASE Keeps(bar, t)
  <2>1. weekKey = t.week
    BY <1>1, <1>6 DEF Keeps, Calendar, SameWeek
  <2>. QED BY <1>1, <1>2, <1>3, <1>6, <2>1 DEF Keeps, Calendar
<1>7. CASE Grows(bar, t)
  <2>1. weekKey = t.week /\ active # {}
    BY <1>1, <1>7 DEF Grows, Calendar, SameWeek, Holding
  <2>2. active' # {}
    BY <1>7 DEF Grows
  <2>. QED BY <1>1, <1>2, <1>3, <1>7, <2>1, <2>2 DEF Grows, Calendar, Holding
<1>. QED BY <1>4, <1>5, <1>6, <1>7

LEMMA StepHeld ==
  ASSUME IInv, NEW t \in Times, NEW bar \in Bar(t), Arrives(bar, t),
         Deploys(bar, t) \/ Clears(bar, t) \/ Keeps(bar, t) \/ Grows(bar, t)
  PROVE  HeldInItsWeek'
<1>1. HeldInItsWeek /\ Calendar
  BY DEF IInv
<1>2. now' = t
  BY DEF Arrives
<1>3. CASE Deploys(bar, t)
  <2>1. nextId \in Nat \ {0} /\ bar.center \in Nat /\ t.week \in Weeks
    BY <1>3, BarFacts DEF IInv, WeeklyTypeOK, Deploys
  <2>2. \A layer \in active' : layer.week = t.week
    BY <1>3, <2>1, InitialLayersTyped DEF Deploys
  <2>. QED BY <1>2, <1>3, <2>2 DEF Deploys, HeldInItsWeek
<1>4. CASE Clears(bar, t)
  BY <1>4 DEF Clears, HeldInItsWeek
<1>5. CASE Keeps(bar, t)
  <2>1. weekKey = t.week
    BY <1>1, <1>5 DEF Keeps, Calendar, SameWeek
  <2>. QED BY <1>1, <1>2, <1>5, <2>1 DEF Keeps, HeldInItsWeek, Calendar
<1>6. CASE Grows(bar, t)
  <2>1. weekKey = t.week /\ now.week = t.week /\ active # {}
    BY <1>1, <1>6 DEF Grows, Calendar, SameWeek, Holding
  <2>2. t.week \notin EventWeeks
    BY <1>1, <2>1 DEF HeldInItsWeek
  <2>3. Layer(nextId, "ADJUSTMENT", bar.price, t.week).week = t.week
    BY DEF Layer
  <2>. QED BY <1>1, <1>2, <1>6, <2>1, <2>2, <2>3 DEF Grows, HeldInItsWeek
<1>. QED BY <1>3, <1>4, <1>5, <1>6

LEMMA WeekInt ==
  ASSUME NEW week \in Weeks \cup {NoWeek}
  PROVE  week \in Int
<1>1. NoWeek \in Int
  BY DEF NoWeek
<1>. QED BY <1>1, CalendarAssumption

LEMMA StepLedger ==
  ASSUME IInv, NEW t \in Times, NEW bar \in Bar(t), Arrives(bar, t), now.week <= t.week,
         Deploys(bar, t) \/ Clears(bar, t) \/ Keeps(bar, t) \/ Grows(bar, t)
  PROVE  LedgerFollows' /\ FreshIds'
<1>1. /\ active \subseteq priced /\ realized = priced \ active
      /\ \A layer \in priced : layer.id < nextId /\ layer.week <= now.week
      /\ nextId \in Nat \ {0} /\ priced \in SUBSET LayerType
  BY DEF IInv, LedgerFollows, FreshIds, WeeklyTypeOK
<1>2. \A layer \in priced : layer.id \in Nat /\ layer.week \in Nat
  BY <1>1, CalendarAssumption DEF LayerType
<1>3. /\ t.week \in Nat /\ t.week \in Weeks /\ now.week \in Int
  <2>1. now \in Time /\ Weeks \subseteq Nat
    BY CalendarAssumption DEF IInv, WeeklyTypeOK
  <2>2. now.week \in Weeks \cup {NoWeek}
    BY <2>1 DEF Time
  <2>3. now.week \in Int
    BY <2>2, WeekInt
  <2>. QED BY <2>3, BarFacts
<1>4. /\ now' = t
      /\ priced' = priced \cup {layer \in active' : layer.id \notin Ids}
      /\ realized' = realized \cup {layer \in active : layer.id \notin Ids'}
  BY DEF Arrives
<1>5. \A layer \in priced : layer.week <= t.week
  BY <1>1, <1>2, <1>3
<1>6. CASE Deploys(bar, t)
  <2>1. /\ bar.center \in Nat /\ InitialCount \in Nat
        /\ active' = InitialLayers(nextId, bar.center, t.week) /\ nextId' = nextId + InitialCount
    BY <1>6, BarFacts, InitialCountTyped DEF Deploys
  <2>2. \A layer \in active' : layer.id >= nextId /\ layer.id < nextId' /\ layer.week = t.week
    BY <1>1, <1>3, <2>1, InitialLayersTyped
  <2>3. \A layer \in active' : layer.id \in Nat
    BY <1>1, <1>3, <2>1, InitialLayersTyped DEF LayerType
  <2>4. \A old \in priced, new \in active' : old.id # new.id
    BY <1>1, <1>2, <2>2, <2>3
  <2>5. \A layer \in active' : layer.id \notin Ids
    BY <1>1, <2>4 DEF Ids
  <2>6. \A layer \in active : layer.id \notin Ids'
    BY <1>1, <2>4 DEF Ids
  <2>7. priced' = priced \cup active' /\ realized' = realized \cup active
    BY <1>4, <2>5, <2>6
  <2>8. LedgerFollows'
    <3>1. active' \cap priced = {}
      BY <2>4
    <3>. QED BY <1>1, <2>7, <3>1 DEF LedgerFollows
  <2>9. \A layer \in priced : layer.id < nextId'
    BY <1>1, <1>2, <2>1
  <2>10. FreshIds'
    BY <1>3, <1>4, <1>5, <2>2, <2>7, <2>9 DEF FreshIds
  <2>. QED BY <2>8, <2>10
<1>7. CASE Clears(bar, t)
  <2>1. active' = {} /\ nextId' = nextId /\ Ids' = {}
    BY <1>7 DEF Clears, Ids
  <2>2. priced' = priced /\ realized' = realized \cup active
    BY <1>4, <2>1
  <2>. QED BY <1>1, <1>4, <1>5, <2>1, <2>2 DEF LedgerFollows, FreshIds
<1>8. CASE Keeps(bar, t)
  <2>1. active' = active /\ nextId' = nextId /\ Ids' = Ids
    BY <1>8 DEF Keeps, Ids
  <2>2. priced' = priced /\ realized' = realized
    BY <1>4, <2>1 DEF Ids
  <2>. QED BY <1>1, <1>4, <1>5, <2>1, <2>2 DEF LedgerFollows, FreshIds
<1>9. CASE Grows(bar, t)
  <2>. DEFINE new == Layer(nextId, "ADJUSTMENT", bar.price, t.week)
  <2>1. active' = active \cup {new} /\ nextId' = nextId + 1
    BY <1>9 DEF Grows
  <2>2. new.id = nextId /\ new.week = t.week
    BY DEF Layer
  <2>. HIDE DEF new
  <2>3. new \notin priced /\ new.id \notin Ids
    BY <1>1, <1>2, <2>2 DEF Ids
  <2>4. Ids \subseteq Ids'
    BY <2>1 DEF Ids
  <2>5. priced' = priced \cup {new}
    BY <1>4, <2>1, <2>3 DEF Ids
  <2>6. realized' = realized
    BY <1>4, <2>4 DEF Ids
  <2>7. LedgerFollows'
    BY <1>1, <2>1, <2>3, <2>5, <2>6 DEF LedgerFollows
  <2>8. \A layer \in priced : layer.id < nextId'
    BY <1>1, <1>2, <2>1
  <2>9. new.id < nextId' /\ new.week <= t.week
    BY <1>1, <1>3, <2>1, <2>2
  <2>10. FreshIds'
    BY <1>4, <1>5, <2>5, <2>8, <2>9 DEF FreshIds
  <2>. QED BY <2>7, <2>10
<1>. QED BY <1>6, <1>7, <1>8, <1>9

LEMMA StepCounted ==
  ASSUME IInv, NEW t \in Times, NEW bar \in Bar(t), Arrives(bar, t), now.week <= t.week,
         Deploys(bar, t) \/ Clears(bar, t) \/ Keeps(bar, t) \/ Grows(bar, t)
  PROVE  Counted'
<1>1. /\ active \subseteq priced /\ adjustments <= MaxAdjustments /\ adjustments \in Nat
      /\ Cardinality(Added(now.week)) = adjustments
      /\ \A week \in Weeks \cup {NoWeek} :
           IsFiniteSet(Added(week)) /\ Cardinality(Added(week)) <= MaxAdjustments
      /\ \A layer \in priced : layer.id < nextId /\ layer.week <= now.week
      /\ weekKey = now.week /\ now.week \in Weeks \cup {NoWeek} /\ now.week \in Int
      /\ nextId \in Nat \ {0} /\ priced \in SUBSET LayerType
  BY CalendarAssumption
  DEF IInv, LedgerFollows, FreshIds, Counted, Calendar, WeeklyTypeOK, Time, NoWeek
<1>2. /\ now' = t /\ t.week \in Nat /\ t.week \in Weeks /\ MaxAdjustments \in Nat
      /\ priced' = priced \cup {layer \in active' : layer.id \notin Ids}
  BY BarFacts, LadderAssumption DEF Arrives
\* In a week without adjustments so far the counter is 0.
<1>3. ASSUME ~ SameWeek(t) \/ adjustments = 0
      PROVE  Added(t.week) = {}
  <2>1. CASE t.week = now.week
    <3>1. adjustments = 0 /\ IsFiniteSet(Added(t.week))
      BY <1>1, <1>2, <1>3, <2>1 DEF SameWeek
    <3>. QED BY <1>1, <2>1, <3>1, FS_EmptySet
  <2>2. CASE t.week # now.week
    <3>1. t.week > now.week
      BY <1>1, <1>2, <2>2
    <3>2. \A layer \in priced : layer.week # t.week
      BY <1>1, <1>2, <3>1, CalendarAssumption DEF LayerType
    <3>. QED BY <3>2 DEF Added
  <2>. QED BY <2>1, <2>2
\* If no adjustment is bought, all that can change is which week is counted.
<1>4. ASSUME \A week : Added(week)' = Added(week),
             adjustments' <= MaxAdjustments, Cardinality(Added(t.week)) = adjustments'
      PROVE  Counted'
  <2>1. Cardinality(Added(now.week)') = adjustments'
    BY <1>2, <1>4
  <2>. QED BY <1>1, <1>4, <2>1 DEF Counted
<1>5. ASSUME Added(t.week) = {}, adjustments' = 0
      PROVE  adjustments' <= MaxAdjustments /\ Cardinality(Added(t.week)) = adjustments'
  BY <1>2, <1>5, FS_EmptySet
<1>6. ASSUME t.week = now.week, adjustments' = adjustments
      PROVE  adjustments' <= MaxAdjustments /\ Cardinality(Added(t.week)) = adjustments'
  BY <1>1, <1>6
<1>7. CASE Deploys(bar, t)
  <2>1. /\ bar.center \in Nat /\ adjustments' = 0
        /\ active' = InitialLayers(nextId, bar.center, t.week)
        /\ SameWeek(t) => adjustments = 0
    BY <1>7, BarFacts DEF Deploys, IInv, Calendar
  <2>2. \A layer \in active' : layer.kind = "INITIAL"
    BY <1>1, <1>2, <2>1, InitialLayersTyped
  <2>3. \A week : Added(week)' = Added(week)
    BY <1>2, <2>2 DEF Added
  <2>. QED BY <1>3, <1>4, <1>5, <2>1, <2>3
<1>8. CASE Clears(bar, t)
  <2>1. active' = {}
    BY <1>8 DEF Clears
  <2>2. \A week : Added(week)' = Added(week)
    BY <1>2, <2>1 DEF Added
  <2>3. CASE ~ SameWeek(t) /\ adjustments' = 0
    BY <1>3, <1>4, <1>5, <2>2, <2>3
  <2>4. CASE SameWeek(t) /\ state = "IDLE" /\ adjustments' = adjustments
    <3>1. adjustments = 0 /\ adjustments' = 0
      BY <2>4 DEF IInv, Calendar
    <3>. QED BY <1>3, <1>4, <1>5, <2>2, <3>1
  <2>5. CASE SameWeek(t) /\ state \in Holding /\ adjustments' = adjustments
    <3>1. t.week = now.week
      BY <1>1, <2>5 DEF IInv, Calendar, SameWeek, Holding
    <3>2. adjustments' = adjustments /\ t.week = now.week
      BY <2>5, <3>1
    <3>. QED BY <1>4, <1>6, <2>2, <3>2
  <2>. QED BY <1>8, <2>3, <2>4, <2>5 DEF Clears
<1>9. CASE Keeps(bar, t)
  <2>1. active' = active /\ adjustments' = adjustments /\ t.week = now.week
    BY <1>1, <1>9 DEF Keeps, IInv, Calendar, SameWeek
  <2>2. \A week : Added(week)' = Added(week)
    BY <1>1, <1>2, <2>1 DEF Added
  <2>. QED BY <1>4, <1>6, <2>1, <2>2
<1>10. CASE Grows(bar, t)
  <2>. DEFINE new == Layer(nextId, "ADJUSTMENT", bar.price, t.week)
  <2>1. /\ active' = active \cup {new} /\ adjustments' = adjustments + 1
        /\ adjustments < MaxAdjustments /\ t.week = now.week
    BY <1>1, <1>10 DEF Grows, IInv, Calendar, SameWeek, Holding
  <2>2. new.id = nextId /\ new.week = t.week /\ new.kind = "ADJUSTMENT"
    BY DEF Layer
  <2>. HIDE DEF new
  <2>3. new \notin priced /\ new.id \notin Ids
    BY <1>1, <2>2 DEF Ids, LayerType
  <2>4. priced' = priced \cup {new}
    BY <1>1, <1>2, <2>1, <2>3 DEF Ids
  <2>5. Added(t.week)' = Added(t.week) \cup {new} /\ new \notin Added(t.week)
    BY <2>2, <2>3, <2>4 DEF Added
  <2>6. \A week : week # t.week => Added(week)' = Added(week)
    BY <2>2, <2>4 DEF Added
  <2>7. IsFiniteSet(Added(t.week)) /\ Cardinality(Added(t.week)) = adjustments
    BY <1>1, <1>2, <2>1
  <2>8. IsFiniteSet(Added(t.week)') /\ Cardinality(Added(t.week)') = adjustments + 1
    BY <2>5, <2>7, FS_AddElement
  <2>9. adjustments' <= MaxAdjustments
    BY <1>1, <1>2, <2>1
  <2>10. Cardinality(Added(now.week)') = adjustments'
    BY <1>2, <2>1, <2>8
  <2>11. \A week \in Weeks \cup {NoWeek} :
           IsFiniteSet(Added(week)') /\ Cardinality(Added(week)') <= MaxAdjustments
    BY <1>1, <2>1, <2>6, <2>8, <2>9
  <2>. QED BY <2>9, <2>10, <2>11 DEF Counted
<1>. QED BY <1>7, <1>8, <1>9, <1>10

LEMMA StepInv ==
  ASSUME IInv, [BacktestNext]_backtestVars
  PROVE  IInv'
<1>1. CASE BacktestNext
  <2>1. PICK t \in Times : \E bar \in Bar(t) : RunBar(bar)
    BY <1>1 DEF BacktestNext
  <2>2. PICK bar \in Bar(t) : RunBar(bar)
    BY <2>1
  <2>3. /\ Arrives(bar, t) /\ now.week <= t.week
        /\ Deploys(bar, t) \/ Clears(bar, t) \/ Keeps(bar, t) \/ Grows(bar, t)
    BY <2>2, StepEffects
  <2>4. WeeklyTypeOK'
    BY <2>3, StepTyped
  <2>5. Calendar'
    BY <2>3, StepCalendar
  <2>6. HeldInItsWeek'
    BY <2>3, StepHeld
  <2>7. LedgerFollows' /\ FreshIds'
    BY <2>3, StepLedger
  <2>8. Counted'
    BY <2>3, StepCounted
  <2>. QED BY <2>4, <2>5, <2>6, <2>7, <2>8 DEF IInv
<1>2. CASE UNCHANGED backtestVars
  <2>1. UNCHANGED <<state, weekKey, center, active, nextId, deployedAt, adjustments,
                    eventSkipped, now, priced, realized>>
    BY <1>2 DEF backtestVars, vars, contextVars, ledgerVars
  <2>2. Calendar' = Calendar
    BY <2>1 DEF Calendar
  <2>3. HeldInItsWeek' = HeldInItsWeek /\ LedgerFollows' = LedgerFollows /\ FreshIds' = FreshIds
    BY <2>1 DEF HeldInItsWeek, LedgerFollows, FreshIds
  <2>4. WeeklyTypeOK' = WeeklyTypeOK
    BY <2>1 DEF WeeklyTypeOK
  <2>5. Counted' = Counted
    BY <2>1 DEF Counted, Added
  <2>. QED BY <2>2, <2>3, <2>4, <2>5 DEF IInv
<1>. QED BY <1>1, <1>2

LEMMA Invariance == BacktestSpec => []IInv
<1>1. BacktestInit => IInv
  BY InitInv
<1>2. IInv /\ [BacktestNext]_backtestVars => IInv'
  BY StepInv
<1>. QED BY <1>1, <1>2, PTL DEF BacktestSpec

----------------------------------------------------------------------------
(***************************************************************************)
(* Theorems.                                                               *)
(***************************************************************************)
\* Every variable of the machine and of the ledger keeps its type.
THEOREM WeeklyTypeCorrect == BacktestSpec => []WeeklyTypeOK
<1>1. IInv => WeeklyTypeOK
  BY DEF IInv
<1>. QED BY <1>1, Invariance, PTL

\* No layer is open in another week than the one it was bought in, nor in an event week:
\* the rollover closes what the forced exit could not.
THEOREM LayersStayInTheirWeek == BacktestSpec => []HeldInItsWeek
<1>1. IInv => HeldInItsWeek
  BY DEF IInv
<1>. QED BY <1>1, Invariance, PTL

\* Comparing ids tells the engine every layer that opens or closes, because ids are never
\* used again, not even in a new week.
THEOREM LedgerIsComplete == BacktestSpec => []LedgerFollows
<1>1. IInv => LedgerFollows
  BY DEF IInv
<1>. QED BY <1>1, Invariance, PTL

\* No week sees more adjustments than max_adjustments_per_week.
THEOREM AdjustmentsAreLimited == BacktestSpec => []AdjustmentsLimited
<1>1. IInv => AdjustmentsLimited
  BY DEF IInv, Counted, AdjustmentsLimited
<1>. QED BY <1>1, Invariance, PTL

LEMMA PatientExit ==
  ASSUME IInv, Patient, NEW t \in Times, active # {}, now.week <= t.week,
         ~ SameWeek(t) \/ DteLow(t) \/ HeldLong(t) \/ WeekEnds(t)
  PROVE  BusinessDays(deployedAt, t) >= MinHold
<1>. DEFINE d == deployedAt.day
            w == deployedAt.week
<1>1. /\ w = now.week /\ d <= EntryLastDay /\ weekKey = now.week
      /\ d \in 0..4 /\ deployedAt.slot \in Nat /\ now.week \in Weeks \cup {NoWeek}
  BY DEF IInv, Calendar, WeeklyTypeOK, Time
<1>2. t.week \in Nat /\ t.day \in 0..4 /\ t.slot \in Nat /\ w \in Int
  <2>1. t \in [week : Weeks, day : SessionDays, slot : Slots]
    BY DEF Times
  <2>2. t.week \in Weeks /\ t.day \in SessionDays /\ t.slot \in Slots
    BY <2>1
  <2>. QED BY <1>1, <2>2, WeekInt, CalendarAssumption
<1>3. /\ EntryLastDay + MinHold - 1 <= ExitDay /\ MinHold <= MaxHold
      /\ MinHold <= DteBuffer + 1 /\ MinHold <= 6 - EntryLastDay
      /\ EntryLastDay \in Nat /\ ExitDay \in Nat
      /\ MinHold \in Nat /\ MaxHold \in Nat /\ DteBuffer \in Int
  BY WindowAssumption, HoldAssumption DEF Patient
<1>4. BusinessDays(deployedAt, t) = 5 * (t.week - w) + t.day - d + 1
  BY DEF BusinessDays
<1>5. t.week >= w
  BY <1>1
<1>6. CASE t.week > w
  BY <1>1, <1>2, <1>3, <1>4, <1>6
<1>7. CASE t.week = w
  <2>1. SameWeek(t)
    BY <1>1, <1>7 DEF SameWeek
  <2>2. CASE DteLow(t)
    <3>1. 7 * (t.week - w) + t.day - d - (IF t.slot < deployedAt.slot THEN 1 ELSE 0) >= DteBuffer
      BY <2>2 DEF DteLow, ElapsedDays
    <3>2. t.day - d >= DteBuffer
      BY <1>1, <1>2, <1>3, <1>7, <3>1
    <3>. QED BY <1>1, <1>2, <1>3, <1>4, <1>7, <3>2
  <2>3. CASE HeldLong(t)
    BY <1>1, <1>2, <1>3, <1>4, <2>3 DEF HeldLong
  <2>4. CASE WeekEnds(t)
    BY <1>1, <1>2, <1>3, <1>4, <1>7, <2>4 DEF WeekEnds
  <2>. QED BY <2>1, <2>2, <2>3, <2>4
<1>. HIDE DEF d, w
<1>. QED BY <1>1, <1>2, <1>5, <1>6, <1>7

\* Whenever the days of entry and the limits of the exits leave room for it, a corridor
\* that is not aborted is held for min_hold_trading_days.
THEOREM PatientCorridors == BacktestSpec => HoldsItsMinimum
<1>1. ASSUME IInv, [BacktestNext]_backtestVars
      PROVE  [ Patient /\ active # {} /\ active \cap active' = {} /\ state' # "ABORTED"
                 => BusinessDays(deployedAt, now') >= MinHold ]_backtestVars
  <2>. SUFFICES ASSUME BacktestNext, Patient, active # {}, active \cap active' = {},
                       state' # "ABORTED"
                PROVE  BusinessDays(deployedAt, now') >= MinHold
    BY <1>1
  <2>1. PICK t \in Times : \E bar \in Bar(t) : RunBar(bar)
    BY DEF BacktestNext
  <2>2. PICK bar \in Bar(t) : RunBar(bar)
    BY <2>1
  <2>3. /\ Arrives(bar, t) /\ now.week <= t.week
        /\ Deploys(bar, t) \/ Clears(bar, t) \/ Keeps(bar, t) \/ Grows(bar, t)
    BY <1>1, <2>2, StepEffects
  <2>4. active # {} /\ state \in Holding /\ state # "IDLE"
    BY <1>1 DEF IInv, Calendar, Holding
  <2>5. ~ Keeps(bar, t) /\ ~ Grows(bar, t)
    BY <2>4 DEF Keeps, Grows
  <2>6. ~ SameWeek(t) \/ DteLow(t) \/ HeldLong(t) \/ WeekEnds(t)
    <3>1. CASE Deploys(bar, t)
      BY <2>4, <3>1 DEF Deploys
    <3>2. CASE Clears(bar, t)
      BY <2>4, <3>2 DEF Clears
    <3>. QED BY <2>3, <2>5, <3>1, <3>2
  <2>. QED BY <1>1, <2>3, <2>6, PatientExit DEF Arrives
<1>. QED BY <1>1, Invariance, PTL DEF BacktestSpec, HoldsItsMinimum

----------------------------------------------------------------------------
(***************************************************************************)
(* The backtest implements WeeklyCampaign.                                 *)
(***************************************************************************)
LEMMA CampaignStarts ==
  ASSUME BacktestInit
  PROVE  Campaign!Init
<1>1. state = "IDLE" /\ weekKey = NoWeek /\ active = {} /\ adjustments = 0
  BY DEF BacktestInit, Init
<1>2. Cardinality(active) = 0
  BY <1>1, FS_EmptySet
<1>3. Phase = "ahead"
  BY <1>1 DEF Phase
<1>. QED BY <1>1, <1>2, <1>3 DEF Campaign!Init, NoWeek

LEMMA CampaignStep ==
  ASSUME IInv, NEW t \in Times, NEW bar \in Bar(t), RunBar(bar)
  PROVE  Campaign!Next \/ UNCHANGED Campaign!campaignVars
<1>. DEFINE n == Cardinality(active)
<1>1. /\ Arrives(bar, t) /\ weekKey <= t.week
      /\ Deploys(bar, t) \/ Clears(bar, t) \/ Keeps(bar, t) \/ Grows(bar, t)
  BY StepEffects
<1>2. /\ active # {} <=> state \in Holding
      /\ state = "IDLE" => adjustments = 0
      /\ weekKey = NoWeek => state = "IDLE"
      /\ weekKey \in Weeks \cup {NoWeek} /\ IsFiniteSet(active) /\ state \in States
      /\ nextId \in Nat \ {0} /\ active \subseteq priced
      /\ \A layer \in priced : layer.id < nextId
      /\ priced \in SUBSET LayerType
  BY DEF IInv, Calendar, WeeklyTypeOK, LedgerFollows, FreshIds
<1>3. /\ t.week \in Nat /\ t.week \in Weeks /\ weekKey' = t.week /\ weekKey \in Int
  BY <1>1, <1>2, BarFacts, WeekInt DEF Arrives
<1>4. n = 0 <=> active = {}
  BY <1>2, FS_EmptySet
\* A bar that begins a week, or the first bar, begins a campaign week.
<1>5. ASSUME weekKey # t.week
      PROVE  t.week > weekKey
  BY <1>1, <1>3, <1>5
<1>6. CASE Deploys(bar, t)
  <2>1. /\ Phase' = "running" /\ adjustments' = 0
    BY <1>6 DEF Phase, Deploys, Holding
  <2>2. Cardinality(active)' = InitialCount
    BY <1>2, <1>3, <1>6, BarFacts, InitialLayersCounted DEF Deploys
  <2>3. Campaign!Launch
    BY <2>1, <2>2 DEF Campaign!Launch
  <2>4. CASE weekKey # t.week
    BY <1>3, <1>5, <2>3, <2>4 DEF Campaign!NewWeek, Campaign!Next
  <2>5. CASE weekKey = t.week
    <3>1. Phase = "ahead"
      BY <1>6, <2>5 DEF Deploys, SameWeek, Phase
    <3>. QED BY <1>3, <2>3, <2>5, <3>1 DEF Campaign!Deploy, Campaign!Next
  <2>. QED BY <2>4, <2>5
<1>7. CASE Clears(bar, t)
  <2>1. Cardinality(active)' = 0
    BY <1>7, FS_EmptySet DEF Clears
  <2>2. CASE weekKey # t.week
    <3>1. state' = "IDLE" /\ adjustments' = 0
      BY <1>2, <1>7, <2>2 DEF Clears, SameWeek, Holding
    <3>2. Phase' = "ahead"
      BY <3>1 DEF Phase
    <3>. QED BY <1>3, <1>5, <2>1, <2>2, <3>1, <3>2 DEF Campaign!NewWeek, Campaign!Next
  <2>3. CASE weekKey = t.week /\ state = "IDLE"
    <3>1. state' = state /\ adjustments' = adjustments /\ Phase' = Phase
      BY <1>7, <2>3 DEF Clears, SameWeek, Holding, Phase
    <3>2. n = 0
      BY <1>2, <1>4, <2>3 DEF Holding
    <3>3. Cardinality(active)' = n
      BY <2>1, <3>2
    <3>. QED BY <1>3, <2>3, <3>1, <3>3 DEF Campaign!campaignVars
  <2>4. CASE weekKey = t.week /\ state # "IDLE"
    <3>1. /\ state \in Holding /\ state' \in {"ABORTED", "EXITED"}
          /\ adjustments' = adjustments
      BY <1>7, <2>4 DEF Clears, SameWeek
    <3>2. Phase = "running" /\ Phase' = "over"
      BY <3>1 DEF Phase, Holding
    <3>. QED BY <1>3, <2>1, <2>4, <3>1, <3>2 DEF Campaign!End, Campaign!Next
  <2>. QED BY <2>2, <2>3, <2>4
<1>8. CASE Keeps(bar, t)
  <2>1. /\ weekKey = t.week /\ state' = state /\ active' = active /\ adjustments' = adjustments
    BY <1>2, <1>8 DEF Keeps, SameWeek
  <2>2. Phase' = Phase /\ Cardinality(active)' = n
    BY <2>1 DEF Phase
  <2>. QED BY <1>3, <2>1, <2>2 DEF Campaign!campaignVars
<1>9. CASE Grows(bar, t)
  <2>. DEFINE new == Layer(nextId, "ADJUSTMENT", bar.price, t.week)
  <2>1. /\ weekKey = t.week /\ state' = "ADJUSTED" /\ active' = active \cup {new}
        /\ adjustments' = adjustments + 1 /\ adjustments < MaxAdjustments
        /\ n < MaxActive /\ state \in Holding
    BY <1>2, <1>9 DEF Grows, SameWeek, Holding
  <2>2. new.id = nextId
    BY DEF Layer
  <2>. HIDE DEF new
  <2>3. new \notin active
    BY <1>2, <2>2 DEF LayerType
  <2>4. Cardinality(active)' = n + 1
    BY <1>2, <2>1, <2>3, FS_AddElement
  <2>5. Phase = "running" /\ Phase' = "running"
    BY <2>1 DEF Phase, Holding
  <2>. QED BY <1>3, <2>1, <2>4, <2>5 DEF Campaign!Grow, Campaign!Next
<1>. QED BY <1>1, <1>6, <1>7, <1>8, <1>9

\* Whatever the bars, a week has one corridor at most: deployed once and whole, grown
\* within the limits, closed as a whole, and gone when another week begins.
THEOREM ImplementsCampaign == BacktestSpec => OneCampaignPerWeek
<1>1. BacktestInit => Campaign!Init
  BY CampaignStarts
<1>2. IInv /\ [BacktestNext]_backtestVars => [Campaign!Next]_(Campaign!campaignVars)
  <2>. SUFFICES ASSUME IInv, [BacktestNext]_backtestVars
                PROVE  Campaign!Next \/ UNCHANGED Campaign!campaignVars
    OBVIOUS
  <2>1. CASE BacktestNext
    <3>1. PICK t \in Times : \E bar \in Bar(t) : RunBar(bar)
      BY <2>1 DEF BacktestNext
    <3>2. PICK bar \in Bar(t) : RunBar(bar)
      BY <3>1
    <3>. QED BY <3>2, CampaignStep
  <2>2. CASE UNCHANGED backtestVars
    <3>1. UNCHANGED <<state, weekKey, active, adjustments>>
      BY <2>2 DEF backtestVars, vars, contextVars
    <3>2. Phase' = Phase /\ Cardinality(active)' = Cardinality(active)
      BY <3>1 DEF Phase
    <3>. QED BY <3>1, <3>2 DEF Campaign!campaignVars
  <2>. QED BY <2>1, <2>2
<1>. QED BY <1>1, <1>2, Invariance, PTL DEF BacktestSpec, OneCampaignPerWeek, Campaign!Spec

=============================================================================
