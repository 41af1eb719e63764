------------------------ MODULE CorridorMachineProofs ------------------------
(***************************************************************************)
(* Proofs about CorridorMachine, for every feed of bars, every clock and   *)
(* every configuration that its assumptions allow.                         *)
(***************************************************************************)
EXTENDS CorridorMachine, FiniteSetTheorems, TLAPS

\* The ids of open layers were given out already.
IdsIssued == \A id \in layers : id < nextId

\* One half of ExposureMatchesState: a machine that says it is flat is flat.
IdleFlat == state \in {"IDLE", "ABORT"} => layers = {}

\* The session of the machine is that of its last bar, and no take-profit lies ahead of it.
SessionCurrent == session \in {Never, Day(now)} /\ lastTakeProfit <= session

\* With re-entry blocked, the corridor stays flat from a take-profit to the session's end.
FlatAfterTakeProfit ==
  BlocksReentry /\ ~ IndividualExits /\ lastTakeProfit = session => layers = {}

\* The inductive invariant.
IInv ==
  /\ TypeOK /\ IdsIssued /\ WithinCap
  /\ ExposureMatchesState /\ NoStaleDrift /\ PrimaryAnchors
  /\ FlatOutsideWindow /\ PendingRebuildEarned
  /\ SessionCurrent /\ FlatAfterTakeProfit

----------------------------------------------------------------------------
(***************************************************************************)
(* Facts about the constants and the helpers.                              *)
(***************************************************************************)
LEMMA BatchFits == Cap \in Nat \ {0} /\ EntryBatch \in 1..Cap
BY LayerAssumption DEF Cap, EntryBatch

LEMMA BarType ==
  ASSUME NEW bar \in Bars
  PROVE  /\ bar.center \in BOOLEAN /\ bar.distance \in Nat /\ bar.tolerance \in Nat
         /\ bar.gap \in BOOLEAN
BY BarsAssumption DEF Bar

LEMMA DayType ==
  ASSUME NEW t \in Int
  PROVE  Day(t) \in Int /\ (t >= 0 => Day(t) >= 0)
BY TimeAssumption DEF Day

\* Slots lie in the order of their sessions.
LEMMA DayMonotone ==
  ASSUME NEW s \in Int, NEW t \in Int, s <= t
  PROVE  Day(s) <= Day(t)
BY TimeAssumption DEF Day

LEMMA FreshIds ==
  ASSUME TypeOK, NEW n \in Nat
  PROVE  /\ Fresh(n) \in SUBSET (Nat \ {0})
         /\ IsFiniteSet(Fresh(n)) /\ Cardinality(Fresh(n)) = n
         /\ \A id \in Fresh(n) : id >= nextId /\ id < nextId + n
<1>1. nextId \in Nat \ {0}
  BY DEF TypeOK
<1>2. /\ IsFiniteSet(nextId .. (nextId + n - 1))
      /\ Cardinality(nextId .. (nextId + n - 1)) =
           IF nextId > nextId + n - 1 THEN 0 ELSE (nextId + n - 1) - nextId + 1
  BY <1>1, FS_Interval
<1>. QED BY <1>1, <1>2 DEF Fresh

\* Layers that join the book add up, because their ids are new.
LEMMA JoinFresh ==
  ASSUME TypeOK, IdsIssued, NEW n \in Nat
  PROVE  /\ IsFiniteSet(layers \cup Fresh(n))
         /\ Cardinality(layers \cup Fresh(n)) = Cardinality(layers) + n
<1>1. /\ Fresh(n) \in SUBSET (Nat \ {0})
      /\ IsFiniteSet(Fresh(n)) /\ Cardinality(Fresh(n)) = n
      /\ \A id \in Fresh(n) : id >= nextId
  BY FreshIds
<1>2. layers \cap Fresh(n) = {}
  BY <1>1 DEF TypeOK, IdsIssued
<1>3. IsFiniteSet(layers)
  BY DEF TypeOK
<1>4. Cardinality(layers \cap Fresh(n)) = 0
  BY <1>2, FS_EmptySet
<1>5. Cardinality(layers) \in Nat
  BY <1>3, FS_CardinalityType
<1>6. /\ IsFiniteSet(layers \cup Fresh(n))
      /\ Cardinality(layers \cup Fresh(n)) =
           Cardinality(layers) + Cardinality(Fresh(n)) - Cardinality(layers \cap Fresh(n))
  BY <1>1, <1>3, FS_Union
<1>. QED BY <1>1, <1>4, <1>5, <1>6

\* What StayCentered adds, however many layers there are.
LEMMA AdditionsCount ==
  ASSUME IsFiniteSet(layers), NEW b, NEW t
  PROVE  DailyAddition(b, t) + EdgeLayer(b, Cardinality(layers) + DailyAddition(b, t)) \in Nat
<1>1. Cardinality(layers) \in Nat
  BY FS_CardinalityType
<1>2. MaxLayers \in Nat /\ EntryBatch \in Nat
  BY BatchFits, LayerAssumption
<1>3. DailyAddition(b, t) \in Nat
  BY <1>1, <1>2 DEF DailyAddition
<1>4. EdgeLayer(b, Cardinality(layers) + DailyAddition(b, t)) \in {0, 1}
  BY DEF EdgeLayer
<1>. QED BY <1>3, <1>4

\* What StayCentered adds never exceeds the room that is left.
LEMMA AdditionsFit ==
  ASSUME TypeOK, WithinCap, NEW bar, NEW t
  PROVE  LET batch == DailyAddition(bar, t)
             added == batch + EdgeLayer(bar, Cardinality(layers) + batch)
         IN /\ batch \in Nat /\ added \in Nat
            /\ Cardinality(layers) + added <= Cap
            /\ layers = {} => added = 0
<1>1. Cardinality(layers) \in Nat /\ (layers = {} => Cardinality(layers) = 0)
  BY FS_CardinalityType, FS_EmptySet DEF TypeOK
<1>2. MaxLayers \in Nat /\ Cap \in Nat /\ EntryBatch \in Nat /\ MaxLayers <= Cap
  BY BatchFits, LayerAssumption DEF Cap
<1>3. /\ DailyAddition(bar, t) \in Nat
      /\ Cardinality(layers) + DailyAddition(bar, t) <= Cap
      /\ layers = {} => DailyAddition(bar, t) = 0
  BY <1>1, <1>2 DEF DailyAddition, WithinCap
<1>4. ASSUME NEW n \in Nat
      PROVE  /\ EdgeLayer(bar, n) \in {0, 1}
             /\ n <= Cap => n + EdgeLayer(bar, n) <= Cap
             /\ n = 0 => EdgeLayer(bar, n) = 0
  BY <1>2 DEF EdgeLayer
<1>. DEFINE joined == Cardinality(layers) + DailyAddition(bar, t)
<1>5. joined \in Nat /\ joined <= Cap /\ (layers = {} => joined = 0)
  BY <1>1, <1>3
<1>6. /\ EdgeLayer(bar, joined) \in {0, 1}
      /\ joined + EdgeLayer(bar, joined) <= Cap
      /\ joined = 0 => EdgeLayer(bar, joined) = 0
  BY <1>4, <1>5
<1>. QED BY <1>1, <1>3, <1>5, <1>6

----------------------------------------------------------------------------
(***************************************************************************)
(* Type correctness.                                                       *)
(***************************************************************************)
LEMMA SessionType ==
  ASSUME TypeOK, NEW gap \in BOOLEAN, NEW t \in Nat, UpdateSession(gap, t)
  PROVE  now' = t /\ now' \in Nat /\ session' \in Int /\ gapFiltered' \in BOOLEAN
<1>1. now' = t /\ session' \in Int
  BY DayType DEF UpdateSession
<1>2. CASE session = Day(t)
  BY <1>1, <1>2 DEF UpdateSession, TypeOK
<1>3. CASE session # Day(t)
  <2>1. gapFiltered' = (SkipsGapDays /\ session # Never /\ gap)
    BY <1>3 DEF UpdateSession
  <2>. QED BY <1>1, <2>1
<1>. QED BY <1>2, <1>3

LEMMA DriftType ==
  ASSUME TypeOK, NEW bar
  PROVE  NextDrift(bar) \in Nat
BY DEF TypeOK, NextDrift

\* What OpenEntryLayers leaves behind.
LEMMA EntryType ==
  ASSUME TypeOK, NEW t \in Nat, OpenEntryLayers(t)
  PROVE  /\ layers' = Fresh(EntryBatch) /\ toOpen' = Fresh(EntryBatch)
         /\ layers' \in SUBSET (Nat \ {0}) /\ IsFiniteSet(layers')
         /\ Cardinality(layers') = EntryBatch /\ layers' # {}
         /\ nextId' = nextId + EntryBatch /\ nextId' \in Nat \ {0}
         /\ primary' = nextId /\ primary' \in layers'
         /\ \A id \in layers' : primary' <= id /\ id < nextId'
         /\ lastEntry' \in Int /\ drift' = 0 /\ centered' = TRUE
<1>1. EntryBatch \in Nat \ {0}
  BY BatchFits
<1>2. nextId \in Nat \ {0}
  BY DEF TypeOK
<1>3. layers' = Fresh(EntryBatch) /\ toOpen' = Fresh(EntryBatch)
  BY DEF OpenEntryLayers
<1>4. nextId \in Fresh(EntryBatch)
  BY <1>1, <1>2 DEF Fresh
<1>5. lastEntry' \in Int
  BY DayType DEF OpenEntryLayers
<1>. QED
  BY <1>1, <1>2, <1>3, <1>4, <1>5, FreshIds DEF OpenEntryLayers, PrimaryOf

LEMMA BarStepType ==
  ASSUME TypeOK, IdsIssued, NEW bar \in Bars, NEW t \in Nat, ProcessBar(bar, t)
  PROVE  TypeOK'
<1>. USE DEF TypeOK
<1>1. bar.center \in BOOLEAN /\ bar.gap \in BOOLEAN /\ ShouldAbort(bar) \in BOOLEAN
  BY BarType DEF ShouldAbort
<1>2. UpdateSession(bar.gap, t) => now' \in Nat /\ session' \in Int /\ gapFiltered' \in BOOLEAN
  BY <1>1, SessionType
<1>3. NextDrift(bar) \in Nat
  BY DriftType
<1>4. {} \in SUBSET (Nat \ {0}) /\ IsFiniteSet({})
  BY FS_EmptySet
<1>5. CASE HoldOvernight(bar, t)
  BY <1>1, <1>2, <1>5 DEF HoldOvernight, States
<1>6. CASE SessionFlush(bar, t)
  BY <1>2, <1>4, <1>6 DEF SessionFlush, CloseAll, States, NoLayer
<1>7. CASE AbortCorridor(bar, t)
  BY <1>1, <1>2, <1>4, <1>7 DEF AbortCorridor, CloseAll, States, NoLayer
<1>8. CASE StayAborted(bar, t)
  BY <1>1, <1>2, <1>8 DEF StayAborted, Assessed
<1>9. CASE StayIdle(bar, t)
  BY <1>1, <1>2, <1>9 DEF StayIdle, Assessed, States
<1>10. ASSUME Assessed(bar, t), OpenEntryLayers(t), toClose' \in {{}, layers},
              lastRebuild' \in Int, lastTakeProfit' = lastTakeProfit
       PROVE  TypeOK'
  <2>1. now' \in Nat /\ session' \in Int /\ gapFiltered' \in BOOLEAN
    BY <1>1, <1>2, <1>10 DEF Assessed
  <2>2. state' \in States
    BY <1>10 DEF OpenEntryLayers, States
  <2>3. toClose' \in SUBSET (Nat \ {0}) /\ lastTakeProfit' \in Int
    BY <1>4, <1>10
  <2>4. /\ layers' \in SUBSET (Nat \ {0}) /\ IsFiniteSet(layers')
        /\ toOpen' = layers' /\ nextId' \in Nat \ {0} /\ primary' = nextId
        /\ lastEntry' \in Int /\ drift' = 0 /\ centered' = TRUE
    BY <1>10, EntryType
  <2>. QED BY <1>10, <2>1, <2>2, <2>3, <2>4
<1>11. CASE EnterCorridor(bar, t)
  BY <1>10, <1>11 DEF EnterCorridor
<1>12. CASE StartDrift(bar, t)
  BY <1>1, <1>2, <1>3, <1>12 DEF StartDrift, Assessed, States
<1>13. CASE StayCentered(bar, t)
  <2>. DEFINE batch == DailyAddition(bar, t)
              added == batch + EdgeLayer(bar, Cardinality(layers) + batch)
  <2>1. added \in Nat
    BY AdditionsCount
  <2>2. Fresh(added) \in SUBSET (Nat \ {0}) /\ IsFiniteSet(layers \cup Fresh(added))
    BY <2>1, FreshIds, JoinFresh
  <2>3. /\ toOpen' = Fresh(added) /\ layers' = layers \cup Fresh(added)
        /\ nextId' = nextId + added
        /\ lastEntry' = IF batch > 0 THEN Day(t) ELSE lastEntry
    BY <1>13 DEF StayCentered
  <2>4. lastEntry' \in Int
    BY <2>3, DayType
  <2>5. /\ now' \in Nat /\ session' \in Int /\ gapFiltered' \in BOOLEAN
        /\ centered' \in BOOLEAN
    BY <1>1, <1>2, <1>13 DEF StayCentered, Assessed
  <2>6. /\ toClose' = {}
        /\ UNCHANGED <<state, primary, drift, lastRebuild, lastTakeProfit>>
    BY <1>13 DEF StayCentered
  <2>. HIDE DEF batch, added
  <2>7. /\ layers' \in SUBSET (Nat \ {0}) /\ IsFiniteSet(layers')
        /\ toOpen' \in SUBSET (Nat \ {0})
    BY <2>2, <2>3
  <2>8. nextId' \in Nat \ {0}
    BY <2>1, <2>3
  <2>. QED BY <2>4, <2>5, <2>6, <2>7, <2>8
<1>14. CASE ResolveDrift(bar, t)
  BY <1>1, <1>2, <1>14 DEF ResolveDrift, Assessed, States
<1>15. CASE RequestRebuild(bar, t)
  BY <1>1, <1>2, <1>3, <1>15 DEF RequestRebuild, Assessed, States
<1>16. CASE KeepDrifting(bar, t)
  BY <1>1, <1>2, <1>3, <1>16 DEF KeepDrifting, Assessed
<1>17. CASE AwaitCenter(bar, t)
  BY <1>1, <1>2, <1>17 DEF AwaitCenter, Assessed
<1>18. CASE Rebuild(bar, t)
  BY <1>10, <1>18 DEF Rebuild
<1>. QED
  BY <1>5, <1>6, <1>7, <1>8, <1>9, <1>11, <1>12, <1>13, <1>14, <1>15, <1>16, <1>17, <1>18
  DEF ProcessBar

LEMMA TakeProfitType ==
  ASSUME TypeOK, NEW t \in Nat, NEW reasons, RecordTakeProfit(reasons, t)
  PROVE  lastTakeProfit' \in Int
BY DayType DEF RecordTakeProfit, TypeOK

LEMMA FlattenType ==
  ASSUME TypeOK, NEW t \in Nat, NEW reason, NEW gap \in BOOLEAN, FlattenPositions(reason, gap, t)
  PROVE  TypeOK'
<1>1. now' \in Nat /\ session' \in Int /\ gapFiltered' \in BOOLEAN
  BY SessionType DEF FlattenPositions
<1>2. lastTakeProfit' \in Int
  BY TakeProfitType DEF FlattenPositions
<1>. QED BY <1>1, <1>2, FS_EmptySet DEF TypeOK, FlattenPositions, CloseAll, States, NoLayer

LEMMA ExitStepType ==
  ASSUME TypeOK, NEW t \in Nat, PrimaryExit(t) \/ LayerExits(t)
  PROVE  TypeOK'
<1>. USE DEF TypeOK
<1>1. CASE PrimaryExit(t)
  BY <1>1, FlattenType DEF PrimaryExit
<1>2. CASE LayerExits(t)
  <2>1. PICK ids \in SUBSET layers, reasons \in SUBSET ProtectiveExits, gap \in BOOLEAN :
          CloseLayers(ids, reasons, gap, t)
    BY <1>2 DEF LayerExits
  <2>2. now' \in Nat /\ session' \in Int /\ gapFiltered' \in BOOLEAN
    BY <2>1, SessionType DEF CloseLayers
  <2>3. lastTakeProfit' \in Int
    BY <2>1, TakeProfitType DEF CloseLayers
  <2>4. IsFiniteSet(layers \ ids)
    BY FS_Subset, layers \ ids \in SUBSET layers
  <2>. QED BY <2>1, <2>2, <2>3, <2>4 DEF CloseLayers, StateWithout, States, NoLayer
<1>. QED BY <1>1, <1>2

LEMMA InitType == Init => TypeOK
<1>1. IsFiniteSet({})
  BY FS_EmptySet
<1>2. Never \in Int /\ NoLayer \in Nat /\ 1 \in Nat \ {0} /\ 0 \in Nat
  BY DEF Never, NoLayer
<1>. QED BY <1>1, <1>2 DEF Init, TypeOK, States

----------------------------------------------------------------------------
(***************************************************************************)
(* How a step changes the book.                                            *)
(***************************************************************************)
\* The branches that leave every layer where it is.
Keeps(bar, t) ==
  \/ HoldOvernight(bar, t) \/ StayAborted(bar, t) \/ StayIdle(bar, t)
  \/ StartDrift(bar, t) \/ ResolveDrift(bar, t) \/ RequestRebuild(bar, t)
  \/ KeepDrifting(bar, t) \/ AwaitCenter(bar, t)

LEMMA KeepsBookAsIs ==
  ASSUME NEW bar, NEW t, Keeps(bar, t)
  PROVE  /\ layers' = layers /\ primary' = primary /\ nextId' = nextId
         /\ lastEntry' = lastEntry /\ lastTakeProfit' = lastTakeProfit
         /\ lastRebuild' = lastRebuild
         /\ toClose' = {} /\ toOpen' = {} /\ now' = t
BY DEF Keeps, HoldOvernight, StayAborted, StayIdle, StartDrift, ResolveDrift,
       RequestRebuild, KeepDrifting, AwaitCenter, Assessed, UpdateSession

\* What joins an open corridor while it is centered.
LEMMA CenteredJoins ==
  ASSUME TypeOK, IdsIssued, WithinCap, NEW bar, NEW t, StayCentered(bar, t)
  PROVE  \E added \in Nat :
           /\ toOpen' = Fresh(added) /\ layers' = layers \cup Fresh(added)
           /\ nextId' = nextId + added /\ primary' = primary /\ toClose' = {}
           /\ Cardinality(layers) + added <= Cap
           /\ Cardinality(layers') = Cardinality(layers) + added
           /\ layers = {} => added = 0
<1>. DEFINE batch == DailyAddition(bar, t)
            added == batch + EdgeLayer(bar, Cardinality(layers) + batch)
<1>1. added \in Nat /\ Cardinality(layers) + added <= Cap /\ (layers = {} => added = 0)
  BY AdditionsFit
<1>2. /\ toOpen' = Fresh(added) /\ layers' = layers \cup toOpen'
      /\ nextId' = nextId + added /\ primary' = primary /\ toClose' = {}
  BY DEF StayCentered
<1>3. Cardinality(layers') = Cardinality(layers) + added
  BY <1>1, <1>2, JoinFresh
<1>. HIDE DEF batch, added
<1>. QED BY <1>1, <1>2, <1>3

\* Every branch of process_bar keeps, empties, replaces or extends the book.
LEMMA BarStepKinds ==
  ASSUME NEW bar, NEW t, ProcessBar(bar, t)
  PROVE  \/ Keeps(bar, t)
         \/ SessionFlush(bar, t) \/ AbortCorridor(bar, t)
         \/ EnterCorridor(bar, t) \/ Rebuild(bar, t)
         \/ StayCentered(bar, t)
BY DEF ProcessBar, Keeps

LEMMA BarStepBook ==
  ASSUME TypeOK, IdsIssued, WithinCap, NEW bar \in Bars, NEW t \in Nat, ProcessBar(bar, t)
  PROVE  IdsIssued' /\ WithinCap'
<1>1. CASE Keeps(bar, t)
  BY <1>1, KeepsBookAsIs DEF IdsIssued, WithinCap
<1>2. CASE SessionFlush(bar, t) \/ AbortCorridor(bar, t)
  <2>1. layers' = {}
    BY <1>2 DEF SessionFlush, AbortCorridor, CloseAll
  <2>. QED BY <2>1, BatchFits, FS_EmptySet DEF IdsIssued, WithinCap
<1>3. CASE EnterCorridor(bar, t) \/ Rebuild(bar, t)
  <2>1. OpenEntryLayers(t)
    BY <1>3 DEF EnterCorridor, Rebuild
  <2>2. Cardinality(layers') = EntryBatch /\ \A id \in layers' : id < nextId'
    BY <2>1, EntryType
  <2>. QED BY <2>2, BatchFits DEF IdsIssued, WithinCap
<1>4. CASE StayCentered(bar, t)
  <2>1. PICK added \in Nat :
          /\ layers' = layers \cup Fresh(added) /\ nextId' = nextId + added
          /\ Cardinality(layers) + added <= Cap
          /\ Cardinality(layers') = Cardinality(layers) + added
    BY <1>4, CenteredJoins
  <2>2. \A id \in Fresh(added) : id < nextId + added
    BY FreshIds
  <2>3. \A id \in layers : id < nextId + added
    BY DEF IdsIssued, TypeOK
  <2>. QED BY <2>1, <2>2, <2>3 DEF IdsIssued, WithinCap
<1>. QED BY <1>1, <1>2, <1>3, <1>4, BarStepKinds

LEMMA ExitStepBook ==
  ASSUME TypeOK, IdsIssued, WithinCap, NEW t \in Nat, PrimaryExit(t) \/ LayerExits(t)
  PROVE  /\ layers' \subseteq layers /\ layers' = layers \ toClose' /\ toClose' \subseteq layers
         /\ toOpen' = {} /\ nextId' = nextId /\ lastRebuild' = lastRebuild
         /\ IdsIssued' /\ WithinCap'
<1>1. /\ layers' \subseteq layers /\ layers' = layers \ toClose' /\ toClose' \subseteq layers
      /\ toOpen' = {} /\ nextId' = nextId /\ lastRebuild' = lastRebuild
  BY DEF PrimaryExit, LayerExits, FlattenPositions, CloseLayers, CloseAll
<1>2. Cardinality(layers') <= Cardinality(layers)
  BY <1>1, FS_Subset DEF TypeOK
<1>3. IsFiniteSet(layers')
  BY <1>1, FS_Subset DEF TypeOK
<1>4. Cardinality(layers) \in Nat /\ Cardinality(layers') \in Nat
  BY <1>3, FS_CardinalityType DEF TypeOK
<1>. QED BY <1>1, <1>2, <1>4, BatchFits DEF IdsIssued, WithinCap

----------------------------------------------------------------------------
(***************************************************************************)
(* The control state.                                                      *)
(***************************************************************************)
LEMMA BarStepControl ==
  ASSUME IInv, NEW bar \in Bars, NEW t \in Nat, now < t, ProcessBar(bar, t)
  PROVE  ExposureMatchesState' /\ NoStaleDrift' /\ PrimaryAnchors'
<1>. USE DEF ExposureMatchesState, NoStaleDrift, PrimaryAnchors
<1>1. ExposureMatchesState /\ NoStaleDrift /\ PrimaryAnchors /\ TypeOK /\ IdsIssued /\ WithinCap
  BY DEF IInv
<1>2. CASE Keeps(bar, t)
  <2>1. layers' = layers /\ primary' = primary
    BY <1>2, KeepsBookAsIs
  <2>2. ExposureMatchesState'
    BY <1>1, <1>2, <2>1
    DEF Keeps, HoldOvernight, Holding, StayAborted, StayIdle, RangeReturned, StartDrift,
        ResolveDrift, RequestRebuild, KeepDrifting, AwaitCenter
  <2>3. NoStaleDrift'
    BY <1>1, <1>2
    DEF Keeps, HoldOvernight, StayAborted, StayIdle, RangeReturned, StartDrift,
        ResolveDrift, RequestRebuild, KeepDrifting, AwaitCenter
  <2>. QED BY <1>1, <2>1, <2>2, <2>3
<1>3. CASE SessionFlush(bar, t) \/ AbortCorridor(bar, t)
  BY <1>3 DEF SessionFlush, AbortCorridor, CloseAll
<1>4. CASE EnterCorridor(bar, t) \/ Rebuild(bar, t)
  <2>1. OpenEntryLayers(t)
    BY <1>4 DEF EnterCorridor, Rebuild
  <2>2. /\ layers' # {} /\ primary' \in layers' /\ drift' = 0
        /\ \A id \in layers' : primary' <= id
    BY <1>1, <2>1, EntryType
  <2>3. state' = "ACTIVE_CENTERED"
    BY <2>1 DEF OpenEntryLayers
  <2>. QED BY <2>2, <2>3
<1>5. CASE StayCentered(bar, t)
  <2>1. PICK added \in Nat : layers' = layers \cup Fresh(added) /\ primary' = primary
    BY <1>1, <1>5, CenteredJoins
  <2>2. state = "ACTIVE_CENTERED" /\ state' = state /\ drift' = drift
    BY <1>5 DEF StayCentered
  <2>3. layers # {} /\ layers' # {}
    BY <1>1, <2>1, <2>2
  <2>4. ASSUME primary \in layers, NEW id \in Fresh(added)
        PROVE  primary <= id
    <3>1. id >= nextId /\ id \in Nat /\ nextId \in Nat
      BY <1>1, FreshIds DEF TypeOK
    <3>2. primary < nextId /\ primary \in Nat
      BY <1>1, <2>4 DEF IdsIssued, TypeOK
    <3>. QED BY <3>1, <3>2
  <2>. QED BY <1>1, <2>1, <2>2, <2>3, <2>4
<1>. QED BY <1>2, <1>3, <1>4, <1>5, BarStepKinds

LEMMA ExitStepControl ==
  ASSUME IInv, NEW t \in Nat, now < t, PrimaryExit(t) \/ LayerExits(t)
  PROVE  ExposureMatchesState' /\ NoStaleDrift' /\ PrimaryAnchors'
BY DEF PrimaryExit, LayerExits, FlattenPositions, CloseLayers, CloseAll, StateWithout,
       ExposureMatchesState, NoStaleDrift, PrimaryAnchors

\* The session never runs backwards, and within a session a take-profit means flat.
LEMMA SessionAdvances ==
  ASSUME IInv, NEW t \in Nat, now < t
  PROVE  /\ Day(t) \in Nat /\ session <= Day(t)
         /\ lastTakeProfit <= Day(t)
         /\ BlocksReentry /\ ~ IndividualExits /\ lastTakeProfit = Day(t) => layers = {}
<1>1. /\ now \in Nat /\ session \in Int /\ lastTakeProfit \in Int
      /\ session \in {Never, Day(now)} /\ lastTakeProfit <= session
  BY DEF IInv, TypeOK, SessionCurrent
<1>2. Day(t) \in Nat /\ Day(now) \in Nat /\ Day(now) <= Day(t)
  BY <1>1, DayType, DayMonotone
<1>3. session <= Day(t)
  BY <1>1, <1>2 DEF Never
<1>4. lastTakeProfit <= Day(t)
  BY <1>1, <1>2, <1>3
<1>5. lastTakeProfit = Day(t) => lastTakeProfit = session
  BY <1>1, <1>2, <1>3
<1>. QED BY <1>2, <1>3, <1>4, <1>5 DEF IInv, FlatAfterTakeProfit

LEMMA SessionStep ==
  ASSUME IInv, NEW gap, NEW t \in Nat, now < t, UpdateSession(gap, t),
         lastTakeProfit' = lastTakeProfit \/ lastTakeProfit' = Day(t)
  PROVE  SessionCurrent'
<1>1. now' = t /\ session' = Day(t)
  BY DEF UpdateSession
<1>2. lastTakeProfit' <= Day(t)
  BY SessionAdvances
<1>. QED BY <1>1, <1>2 DEF SessionCurrent

\* Every bar that the machine handles updates the session and nothing dates a take-profit
\* to another session than its own.
LEMMA BarStepSession ==
  ASSUME IInv, NEW bar \in Bars, NEW t \in Nat, now < t, ProcessBar(bar, t)
  PROVE  /\ UpdateSession(bar.gap, t) /\ lastTakeProfit' = lastTakeProfit
         /\ SessionCurrent'
<1>1. UpdateSession(bar.gap, t) /\ lastTakeProfit' = lastTakeProfit
  BY DEF ProcessBar, HoldOvernight, SessionFlush, AbortCorridor, Assessed, StayAborted,
         StayIdle, EnterCorridor, StartDrift, StayCentered, ResolveDrift, RequestRebuild,
         KeepDrifting, AwaitCenter, Rebuild
<1>. QED BY <1>1, SessionStep

LEMMA ExitStepSession ==
  ASSUME IInv, NEW t \in Nat, now < t, PrimaryExit(t) \/ LayerExits(t)
  PROVE  /\ now' = t /\ session' = Day(t)
         /\ lastTakeProfit' \in {lastTakeProfit, Day(t)}
         /\ SessionCurrent'
<1>1. PICK gap \in BOOLEAN : /\ UpdateSession(gap, t)
                             /\ lastTakeProfit' \in {lastTakeProfit, Day(t)}
  BY DEF PrimaryExit, LayerExits, FlattenPositions, CloseLayers, RecordTakeProfit
<1>2. SessionCurrent'
  BY <1>1, SessionStep
<1>. QED BY <1>1, <1>2 DEF UpdateSession

LEMMA BarStepWindow ==
  ASSUME IInv, NEW bar \in Bars, NEW t \in Nat, now < t, ProcessBar(bar, t)
  PROVE  FlatOutsideWindow'
<1>. SUFFICES ASSUME ~ HoldsOvernight, ~ InWindow(t)
              PROVE  layers' = {}
  BY BarStepSession DEF FlatOutsideWindow, UpdateSession, InWindow
<1>1. ~ Holding(t)
  BY DEF Holding
<1>2. ExposureMatchesState /\ state \in States
  BY DEF IInv, TypeOK
<1>3. CASE Flushing(t)
  <2>1. SessionFlush(bar, t)
    BY <1>3 DEF ProcessBar, HoldOvernight, Holding, AbortCorridor, Aborting, Assessed,
       StayAborted, StayIdle, EnterCorridor, StartDrift, StayCentered, ResolveDrift,
       RequestRebuild, KeepDrifting, AwaitCenter, Rebuild
  <2>. QED BY <2>1 DEF SessionFlush, CloseAll
<1>4. CASE ~ Flushing(t)
  <2>1. state \in {"IDLE", "ABORT"} /\ layers = {}
    BY <1>1, <1>2, <1>4 DEF Flushing, ExposureMatchesState, States
  <2>2. CASE Keeps(bar, t)
    BY <2>1, <2>2, KeepsBookAsIs
  <2>3. CASE SessionFlush(bar, t) \/ AbortCorridor(bar, t)
    BY <2>3 DEF SessionFlush, AbortCorridor, CloseAll
  <2>4. ~ EnterCorridor(bar, t) /\ ~ Rebuild(bar, t) /\ ~ StayCentered(bar, t)
    BY <2>1 DEF EnterCorridor, Entering, Rebuild, StayCentered
  <2>. QED BY <2>2, <2>3, <2>4, BarStepKinds
<1>. QED BY <1>3, <1>4

LEMMA ExitStepWindow ==
  ASSUME IInv, NEW t \in Nat, PrimaryExit(t) \/ LayerExits(t)
  PROVE  FlatOutsideWindow'
BY DEF PrimaryExit, LayerExits, FlattenPositions, CloseAll, FlatOutsideWindow

LEMMA BarStepPending ==
  ASSUME IInv, NEW bar \in Bars, NEW t \in Nat, now < t, ProcessBar(bar, t)
  PROVE  PendingRebuildEarned'
<1>. SUFFICES ASSUME state' = "REBUILD"
              PROVE  /\ drift' >= Persistence /\ drift' > 0
                     /\ lastRebuild' = Never \/ t - lastRebuild' >= Cooldown
  BY BarStepSession DEF PendingRebuildEarned, UpdateSession
<1>1. RequestRebuild(bar, t) \/ AwaitCenter(bar, t)
  BY DEF ProcessBar, HoldOvernight, SessionFlush, AbortCorridor, StayAborted, StayIdle,
         EnterCorridor, OpenEntryLayers, StartDrift, StayCentered, ResolveDrift,
         RequestRebuild, KeepDrifting, AwaitCenter, Rebuild
<1>2. CASE RequestRebuild(bar, t)
  <2>1. Outside(bar) /\ NextDrift(bar) >= Persistence /\ CooldownReady(t)
    BY <1>2 DEF RequestRebuild, ShouldRebuild
  <2>2. drift' = NextDrift(bar) /\ lastRebuild' = lastRebuild
    BY <1>2 DEF RequestRebuild
  <2>3. NextDrift(bar) = drift + 1 /\ drift \in Nat
    BY <2>1 DEF NextDrift, IInv, TypeOK
  <2>. QED BY <2>1, <2>2, <2>3 DEF CooldownReady
<1>3. CASE AwaitCenter(bar, t)
  <2>1. state = "REBUILD" /\ drift' = drift /\ lastRebuild' = lastRebuild
    BY <1>3 DEF AwaitCenter
  <2>2. now \in Nat /\ lastRebuild \in Int /\ Cooldown \in Nat
    BY RuleAssumption DEF IInv, TypeOK
  <2>. QED BY <2>1, <2>2 DEF IInv, PendingRebuildEarned
<1>. QED BY <1>1, <1>2, <1>3

LEMMA ExitStepPending ==
  ASSUME NEW t, PrimaryExit(t) \/ LayerExits(t)
  PROVE  PendingRebuildEarned'
BY DEF PrimaryExit, LayerExits, FlattenPositions, CloseLayers, StateWithout, PendingRebuildEarned

LEMMA BarStepTakeProfit ==
  ASSUME IInv, NEW bar \in Bars, NEW t \in Nat, now < t, ProcessBar(bar, t)
  PROVE  FlatAfterTakeProfit'
<1>. SUFFICES ASSUME BlocksReentry, ~ IndividualExits, lastTakeProfit = Day(t)
              PROVE  layers' = {}
  BY BarStepSession DEF FlatAfterTakeProfit, UpdateSession
<1>1. layers = {} /\ state \notin {"ACTIVE_CENTERED", "REBUILD"}
  BY SessionAdvances DEF IInv, ExposureMatchesState
<1>2. CASE Keeps(bar, t)
  BY <1>1, <1>2, KeepsBookAsIs
<1>3. CASE SessionFlush(bar, t) \/ AbortCorridor(bar, t)
  BY <1>3 DEF SessionFlush, AbortCorridor, CloseAll
<1>4. ~ EnterCorridor(bar, t) /\ ~ Rebuild(bar, t) /\ ~ StayCentered(bar, t)
  BY <1>1 DEF EnterCorridor, Entering, EntryAllowed, Rebuild, StayCentered
<1>. QED BY <1>2, <1>3, <1>4, BarStepKinds

LEMMA ExitStepTakeProfit ==
  ASSUME NEW t, PrimaryExit(t) \/ LayerExits(t)
  PROVE  FlatAfterTakeProfit'
BY DEF PrimaryExit, LayerExits, FlattenPositions, CloseAll, FlatAfterTakeProfit

----------------------------------------------------------------------------
(***************************************************************************)
(* The inductive invariant.                                                *)
(***************************************************************************)
LEMMA InvInit == Init => IInv
<1>. SUFFICES ASSUME Init PROVE IInv
  OBVIOUS
<1>1. TypeOK
  BY InitType
<1>2. IdsIssued /\ WithinCap
  BY BatchFits, FS_EmptySet DEF Init, IdsIssued, WithinCap
<1>3. ExposureMatchesState /\ NoStaleDrift /\ PrimaryAnchors /\ FlatOutsideWindow
  BY DEF Init, ExposureMatchesState, NoStaleDrift, PrimaryAnchors, FlatOutsideWindow
<1>4. PendingRebuildEarned /\ SessionCurrent /\ FlatAfterTakeProfit
  BY DEF Init, PendingRebuildEarned, SessionCurrent, FlatAfterTakeProfit, Never
<1>. QED BY <1>1, <1>2, <1>3, <1>4 DEF IInv

LEMMA BarStepInv ==
  ASSUME IInv, NEW bar \in Bars, NEW t \in Nat, now < t, ProcessBar(bar, t)
  PROVE  IInv'
<1>1. TypeOK /\ IdsIssued /\ WithinCap
  BY DEF IInv
<1>2. TypeOK' /\ IdsIssued' /\ WithinCap'
  BY <1>1, BarStepType, BarStepBook
<1>. QED
  BY <1>2, BarStepControl, BarStepWindow, BarStepPending, BarStepSession, BarStepTakeProfit
  DEF IInv

LEMMA ExitStepInv ==
  ASSUME IInv, NEW t \in Nat, now < t, PrimaryExit(t) \/ LayerExits(t)
  PROVE  IInv'
<1>1. TypeOK /\ IdsIssued /\ WithinCap
  BY DEF IInv
<1>2. TypeOK' /\ IdsIssued' /\ WithinCap'
  BY <1>1, ExitStepType, ExitStepBook
<1>. QED
  BY <1>2, ExitStepControl, ExitStepWindow, ExitStepPending, ExitStepSession, ExitStepTakeProfit
  DEF IInv

\* A step of the feed is a bar or an exit at a later slot.
LEMMA NextKinds ==
  ASSUME TypeOK, Next
  PROVE  \E t \in Nat : /\ now < t
                        /\ \/ \E bar \in Bars : ProcessBar(bar, t)
                           \/ PrimaryExit(t) \/ LayerExits(t)
<1>1. PICK t \in (now + 1)..Horizon : \/ \E bar \in Bars : ProcessBar(bar, t)
                                      \/ PrimaryExit(t) \/ LayerExits(t)
  BY DEF Next
<1>2. t \in Nat /\ now < t
  BY TimeAssumption DEF TypeOK
<1>. QED BY <1>1, <1>2

LEMMA InvStutter == IInv /\ UNCHANGED vars => IInv'
BY DEF IInv, vars, machineVars, TypeOK, IdsIssued, WithinCap, ExposureMatchesState,
       NoStaleDrift, PrimaryAnchors, FlatOutsideWindow, PendingRebuildEarned,
       SessionCurrent, FlatAfterTakeProfit

LEMMA InvStep == IInv /\ [Next]_vars => IInv'
<1>1. ASSUME IInv, Next PROVE IInv'
  <2>1. PICK t \in Nat : /\ now < t
                         /\ \/ \E bar \in Bars : ProcessBar(bar, t)
                            \/ PrimaryExit(t) \/ LayerExits(t)
    BY <1>1, NextKinds DEF IInv
  <2>. QED BY <1>1, <2>1, BarStepInv, ExitStepInv
<1>. QED BY <1>1, InvStutter

LEMMA Invariance == Spec => []IInv
BY InvInit, InvStep, PTL DEF Spec

----------------------------------------------------------------------------
(***************************************************************************)
(* The theorems.                                                           *)
(***************************************************************************)
\* The variables of the machine keep their types.
THEOREM TypeCorrect == Spec => []TypeOK
<1>1. IInv => TypeOK
  BY DEF IInv
<1>. QED BY <1>1, Invariance, PTL

\* The machine holds layers exactly in the states that say so.
THEOREM BookIsSound == Spec => []ExposureMatchesState
<1>1. IInv => ExposureMatchesState
  BY DEF IInv
<1>. QED BY <1>1, Invariance, PTL

\* Entries, ladders, rebuilds, additions and edge layers together never open more than
\* max_active_butterfly_layers.
THEOREM CapIsKept == Spec => []WithinCap
<1>1. IInv => WithinCap
  BY DEF IInv
<1>. QED BY <1>1, Invariance, PTL

\* While exits follow the primary, an open corridor has its primary as oldest layer.
THEOREM PrimaryIsOldest == Spec => []PrimaryAnchors
<1>1. IInv => PrimaryAnchors
  BY DEF IInv
<1>. QED BY <1>1, Invariance, PTL

\* Without hold_overnight (and with exits that follow the primary) the corridor is flat
\* after every bar outside the trading window.
THEOREM NoExposureOutsideWindow == Spec => []FlatOutsideWindow
<1>1. IInv => FlatOutsideWindow
  BY DEF IInv
<1>. QED BY <1>1, Invariance, PTL

\* A rebuild that waits for its bar has persistence and cooldown behind it.
THEOREM RebuildIsEarned == Spec => []PendingRebuildEarned
<1>1. IInv => PendingRebuildEarned
  BY DEF IInv
<1>. QED BY <1>1, Invariance, PTL

\* No state but DRIFTING and the pending rebuild carries a drift count.
THEOREM DriftIsForgotten == Spec => []NoStaleDrift
<1>1. IInv => NoStaleDrift
  BY DEF IInv
<1>. QED BY <1>1, Invariance, PTL

\* Rebuilds keep rebuild_cooldown_minutes between them.
THEOREM CooldownRespected == Spec => RebuildsKeepCooldown
<1>. DEFINE Apart == lastRebuild # Never /\ lastRebuild' # lastRebuild
                       => lastRebuild' - lastRebuild >= Cooldown
<1>1. ASSUME IInv, Next PROVE Apart
  <2>1. PICK t \in Nat : /\ now < t
                         /\ \/ \E bar \in Bars : ProcessBar(bar, t)
                            \/ PrimaryExit(t) \/ LayerExits(t)
    BY <1>1, NextKinds DEF IInv
  <2>2. ASSUME NEW bar \in Bars, Rebuild(bar, t) PROVE Apart
    <3>1. now' = t /\ lastRebuild' = t /\ state = "REBUILD"
      BY <2>2 DEF Rebuild, Assessed, UpdateSession
    <3>2. lastRebuild = Never \/ now - lastRebuild >= Cooldown
      BY <1>1, <3>1 DEF IInv, PendingRebuildEarned
    <3>3. now \in Nat /\ lastRebuild \in Int /\ Cooldown \in Nat /\ now < now'
      BY <1>1, <2>1, <3>1, RuleAssumption DEF IInv, TypeOK
    <3>. QED BY <3>1, <3>2, <3>3
  <2>3. ASSUME NEW bar \in Bars, ProcessBar(bar, t), ~ Rebuild(bar, t) PROVE Apart
    <3>1. lastRebuild' = lastRebuild
      BY <2>3, BarStepKinds, KeepsBookAsIs
      DEF SessionFlush, AbortCorridor, EnterCorridor, StayCentered
    <3>. QED BY <3>1
  <2>4. CASE PrimaryExit(t) \/ LayerExits(t)
    BY <1>1, <2>4, ExitStepBook DEF IInv
  <2>. QED BY <2>1, <2>2, <2>3, <2>4
<1>2. IInv /\ [Next]_vars => [Apart]_vars
  BY <1>1
<1>. QED BY <1>2, Invariance, PTL DEF Spec, RebuildsKeepCooldown

\* After a take-profit that blocks re-entry no layer is opened in the same session, while
\* exits follow the primary (with layer exits of their own this fails, see README.md).
THEOREM TakeProfitBlocks ==
  ASSUME ~ IndividualExits
  PROVE  Spec => TakeProfitEndsSession
<1>. DEFINE Blocked == BlocksReentry /\ toOpen' # {} => lastTakeProfit # Day(now')
<1>1. ASSUME IInv, Next PROVE Blocked
  <2>1. PICK t \in Nat : /\ now < t
                         /\ \/ \E bar \in Bars : ProcessBar(bar, t)
                            \/ PrimaryExit(t) \/ LayerExits(t)
    BY <1>1, NextKinds DEF IInv
  <2>2. CASE PrimaryExit(t) \/ LayerExits(t)
    BY <1>1, <2>2, ExitStepBook DEF IInv
  <2>3. ASSUME NEW bar \in Bars, ProcessBar(bar, t),
               BlocksReentry, toOpen' # {}, lastTakeProfit = Day(t)
        PROVE  FALSE
    <3>1. layers = {} /\ state \notin {"ACTIVE_CENTERED", "REBUILD"}
      BY <1>1, <2>1, <2>3, SessionAdvances DEF IInv, ExposureMatchesState
    <3>2. ~ Keeps(bar, t) /\ ~ SessionFlush(bar, t) /\ ~ AbortCorridor(bar, t)
      BY <2>3, KeepsBookAsIs DEF SessionFlush, AbortCorridor
    <3>3. ~ EnterCorridor(bar, t) /\ ~ Rebuild(bar, t) /\ ~ StayCentered(bar, t)
      BY <2>3, <3>1 DEF EnterCorridor, Entering, EntryAllowed, Rebuild, StayCentered
    <3>. QED BY <2>3, <3>2, <3>3, BarStepKinds
  <2>4. ASSUME NEW bar \in Bars, ProcessBar(bar, t) PROVE now' = t
    BY <1>1, <2>1, <2>4, BarStepSession DEF UpdateSession
  <2>. QED BY <2>1, <2>2, <2>3, <2>4
<1>2. IInv /\ [Next]_vars => [Blocked]_vars
  BY <1>1
<1>. QED BY <1>2, Invariance, PTL DEF Spec, TakeProfitEndsSession

\* What the actions of a step say, as ActionsExplainLayers has it.
Explained == /\ toClose' \subseteq layers
             /\ \A id \in toOpen' : id >= nextId /\ id < nextId'
             /\ layers' = (layers \ toClose') \cup toOpen'

LEMMA StepExplained ==
  ASSUME TypeOK, IdsIssued, WithinCap, IdleFlat, Next
  PROVE  Explained
<1>. USE DEF Explained
<1>1. PICK t \in Nat : \/ \E bar \in Bars : ProcessBar(bar, t)
                       \/ PrimaryExit(t) \/ LayerExits(t)
  BY NextKinds
<1>3. ASSUME NEW bar, Keeps(bar, t) PROVE Explained
  BY <1>3, KeepsBookAsIs
<1>4. ASSUME NEW bar, SessionFlush(bar, t) \/ AbortCorridor(bar, t) PROVE Explained
  BY <1>4 DEF SessionFlush, AbortCorridor, CloseAll
<1>5. ASSUME NEW bar, EnterCorridor(bar, t) \/ Rebuild(bar, t) PROVE Explained
  <2>1. OpenEntryLayers(t) /\ (toClose' = layers \/ (toClose' = {} /\ layers = {}))
    BY <1>5 DEF EnterCorridor, Rebuild, RangeReturned, IdleFlat
  <2>2. layers' = Fresh(EntryBatch) /\ toOpen' = Fresh(EntryBatch)
        /\ nextId' = nextId + EntryBatch
    BY <2>1 DEF OpenEntryLayers
  <2>3. EntryBatch \in Nat
    BY BatchFits
  <2>4. \A id \in toOpen' : id >= nextId /\ id < nextId'
    BY <2>2, <2>3, FreshIds
  <2>. QED BY <2>1, <2>2, <2>4
<1>6. ASSUME NEW bar, StayCentered(bar, t) PROVE Explained
  BY <1>6, CenteredJoins, FreshIds
<1>7. CASE PrimaryExit(t) \/ LayerExits(t)
  BY <1>7, ExitStepBook
<1>. QED BY <1>1, <1>3, <1>4, <1>5, <1>6, <1>7, BarStepKinds

\* What a step may add to layers that stay open, as OneBatchPerSession has it.
OneBatch ==
  layers # {} /\ toClose' = {} /\ toOpen' # {}
    => \/ lastEntry # Day(now') /\ lastEntry' = Day(now')
       \/ Cardinality(toOpen') = 1 /\ ConfiguredTargets <= 1

LEMMA CenteredBatch ==
  ASSUME TypeOK, IdsIssued, WithinCap, NEW bar, NEW t, StayCentered(bar, t)
  PROVE  OneBatch
<1>. DEFINE batch == DailyAddition(bar, t)
            edge == EdgeLayer(bar, Cardinality(layers) + batch)
<1>1. batch \in Nat /\ batch + edge \in Nat
  BY AdditionsFit
<1>2. now' = t /\ toOpen' = Fresh(batch + edge)
      /\ lastEntry' = (IF batch > 0 THEN Day(t) ELSE lastEntry)
  BY DEF StayCentered, Assessed, UpdateSession
<1>3. batch > 0 => lastEntry # Day(t)
  BY DEF DailyAddition
<1>4. edge \in {0, 1} /\ (edge = 1 => ConfiguredTargets <= 1)
  BY DEF EdgeLayer
<1>5. Cardinality(toOpen') = batch + edge
  BY <1>1, <1>2, FreshIds
<1>6. toOpen' # {} => batch + edge # 0
  BY <1>1, <1>2 DEF Fresh, TypeOK
<1>. HIDE DEF batch, edge
<1>7. CASE batch > 0
  BY <1>2, <1>3, <1>7 DEF OneBatch
<1>8. CASE batch = 0
  BY <1>4, <1>5, <1>6, <1>8 DEF OneBatch
<1>. QED BY <1>1, <1>7, <1>8

LEMMA StepBatch ==
  ASSUME TypeOK, IdsIssued, WithinCap, IdleFlat, Next
  PROVE  OneBatch
<1>1. PICK t \in Nat : \/ \E bar \in Bars : ProcessBar(bar, t)
                       \/ PrimaryExit(t) \/ LayerExits(t)
  BY NextKinds
<1>2. ASSUME NEW bar, Keeps(bar, t) PROVE OneBatch
  BY <1>2, KeepsBookAsIs DEF OneBatch
<1>3. ASSUME NEW bar, SessionFlush(bar, t) \/ AbortCorridor(bar, t) PROVE OneBatch
  BY <1>3 DEF SessionFlush, AbortCorridor, OneBatch
<1>4. ASSUME NEW bar, EnterCorridor(bar, t) \/ Rebuild(bar, t) PROVE OneBatch
  BY <1>4 DEF EnterCorridor, Rebuild, RangeReturned, IdleFlat, OneBatch
<1>5. ASSUME NEW bar, StayCentered(bar, t) PROVE OneBatch
  BY <1>5, CenteredBatch
<1>6. CASE PrimaryExit(t) \/ LayerExits(t)
  BY <1>6, ExitStepBook DEF OneBatch
<1>. QED BY <1>1, <1>2, <1>3, <1>4, <1>5, <1>6, BarStepKinds

\* Layers that stay open get one batch of additions per session, and a single edge layer
\* at a time beside it.
THEOREM OneBatchASession == Spec => OneBatchPerSession
<1>1. IInv /\ [Next]_vars => [now' # now => OneBatch]_vars
  BY StepBatch DEF IInv, IdleFlat, ExposureMatchesState
<1>. QED BY <1>1, Invariance, PTL DEF Spec, OneBatchPerSession, OneBatch

\* The actions of a step say exactly what happens to the book.
THEOREM ActionsAreComplete == Spec => ActionsExplainLayers
<1>1. IInv /\ [Next]_vars => [Explained]_vars
  BY StepExplained DEF IInv, IdleFlat, ExposureMatchesState
<1>. QED BY <1>1, Invariance, PTL DEF Spec, ActionsExplainLayers, Explained

LEMMA StepKeepsBook ==
  ASSUME TypeOK, IdsIssued, WithinCap, Next
  PROVE  Book!Next \/ UNCHANGED Book!bookVars
<1>1. PICK t \in Nat : \/ \E bar \in Bars : ProcessBar(bar, t)
                       \/ PrimaryExit(t) \/ LayerExits(t)
  BY NextKinds
<1>2. TypeOK /\ IdsIssued /\ WithinCap /\ nextId \in Nat
  BY DEF TypeOK
<1>3. ASSUME NEW n \in Nat PROVE Book!NextIds(n) = Fresh(n)
  BY <1>2 DEF Book!NextIds, Fresh
<1>4. ASSUME NEW bar, Keeps(bar, t) PROVE UNCHANGED Book!bookVars
  BY <1>4, KeepsBookAsIs DEF Book!bookVars
<1>5. ASSUME layers' \subseteq layers, nextId' = nextId PROVE Book!Next
  <2>1. layers' = layers \ (layers \ layers') /\ layers \ layers' \in SUBSET layers
    BY <1>5
  <2>2. Book!Close(layers \ layers')
    BY <1>5, <2>1 DEF Book!Close
  <2>. QED BY <2>1, <2>2 DEF Book!Next
<1>6. ASSUME NEW bar, SessionFlush(bar, t) \/ AbortCorridor(bar, t) PROVE Book!Next
  BY <1>5, <1>6 DEF SessionFlush, AbortCorridor, CloseAll
<1>7. ASSUME NEW bar, EnterCorridor(bar, t) \/ Rebuild(bar, t) PROVE Book!Next
  <2>1. OpenEntryLayers(t)
    BY <1>7 DEF EnterCorridor, Rebuild
  <2>2. /\ EntryBatch \in 1..Cap /\ layers' = Fresh(EntryBatch)
        /\ nextId' = nextId + EntryBatch
    BY <1>2, <2>1, EntryType, BatchFits
  <2>3. Book!Replace(EntryBatch)
    BY <1>2, <1>3, <2>2, BatchFits DEF Book!Replace
  <2>. QED BY <2>2, <2>3 DEF Book!Next
<1>8. ASSUME NEW bar, StayCentered(bar, t) PROVE Book!Next \/ UNCHANGED Book!bookVars
  <2>1. PICK added \in Nat :
          /\ layers' = layers \cup Fresh(added) /\ nextId' = nextId + added
          /\ Cardinality(layers) + added <= Cap
    BY <1>2, <1>8, CenteredJoins
  <2>2. CASE added = 0
    <3>1. Fresh(added) = {}
      BY <1>2, <2>2 DEF Fresh
    <3>. QED BY <1>2, <2>1, <2>2, <3>1 DEF Book!bookVars
  <2>3. CASE added > 0
    <3>1. Cardinality(layers) \in Nat
      BY <1>2, FS_CardinalityType DEF TypeOK
    <3>2. added \in 1..Cap
      BY <2>1, <2>3, <3>1, BatchFits
    <3>3. Book!Cardinality(layers) = Cardinality(layers)
      BY DEF Book!Cardinality, Book!IsFiniteSet, Cardinality, IsFiniteSet
    <3>4. layers' = layers \cup Book!NextIds(added) /\ nextId' - 1 = nextId - 1 + added
      BY <1>2, <1>3, <2>1
    <3>5. Book!Add(added)
      BY <2>1, <3>3, <3>4 DEF Book!Add
    <3>. QED BY <3>2, <3>5 DEF Book!Next
  <2>. QED BY <2>2, <2>3
<1>9. CASE PrimaryExit(t) \/ LayerExits(t)
  BY <1>2, <1>5, <1>9, ExitStepBook
<1>. QED BY <1>1, <1>4, <1>6, <1>7, <1>8, <1>9, BarStepKinds

\* The machine keeps the book that LayerBook describes: ids are never reused, layers are
\* never reopened, and a step adds, closes or replaces.
THEOREM MachineKeepsBook == Spec => KeepsBook
<1>1. Init => Book!Init
  BY DEF Init, Book!Init
<1>2. UNCHANGED vars => UNCHANGED Book!bookVars
  BY DEF vars, machineVars, Book!bookVars
<1>3. IInv /\ [Next]_vars => [Book!Next]_(Book!bookVars)
  BY <1>2, StepKeepsBook DEF IInv
<1>. QED BY <1>1, <1>3, Invariance, PTL DEF Spec, KeepsBook, Book!Spec

=============================================================================
