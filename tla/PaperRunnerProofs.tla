-------------------------- MODULE PaperRunnerProofs --------------------------
(***************************************************************************)
(* Theorems about PaperRunner, for every feed, configuration, set of       *)
(* contracts and number of crashes and late trades.                        *)
(***************************************************************************)
EXTENDS PaperRunner, CorridorMachineProofs, WellFoundedInduction

\* Every id in use was given out by the counter of the process, or of the recovery file.
IdsBelowCounter ==
  /\ nextId \in Nat \ {0}
  /\ \A id \in layers \cup DOMAIN positions \cup toOpen \cup toClose :
       id \in Nat \ {0} /\ id < nextId

FileIdsBelowCounter ==
  /\ file.nextId \in Nat \ {0}
  /\ \A id \in DOMAIN file.positions : id \in Nat \ {0} /\ id < file.nextId

Typed ==
  /\ now \in Nat /\ latest \in Nat
  /\ pc \in {"down", "seeding", "ready", "bars", "retry"}
  /\ held \in [Contracts -> Int]
  /\ \A id \in DOMAIN positions : positions[id] \in Position
  /\ \A id \in DOMAIN file.positions : file.positions[id] \in Position

\* Nothing is tracked before the start, and no action waits between two polls.
Phases ==
  /\ ~ Running => DOMAIN positions = {}
  /\ pc = "ready" => toClose = {} /\ toOpen = {}
  /\ pc = "retry" => toOpen = {}

\* A machine that is IDLE or ABORT has no layers (the converse fails: a restored state can be
\* that of a corridor whose positions are gone).
FlatWhenIdle == state \in {"IDLE", "ABORT"} => layers = {}

\* What is still to be opened is a layer that the machine has not taken back.
OpensAreLayers == Running => toOpen \subseteq layers

RInv ==
  /\ Typed /\ IdsBelowCounter /\ FileIdsBelowCounter /\ Phases /\ FlatWhenIdle /\ OpensAreLayers
  /\ NewLayersUntracked /\ OrphansAwaitClose /\ DivergenceIsNoticed

----------------------------------------------------------------------------
(***************************************************************************)
(* Minima, maxima and counts.                                              *)
(***************************************************************************)
\* Below each element of a set of naturals lie finitely many others; the set of those is
\* smallest for the least element.
LEMMA LeastNatural ==
  ASSUME NEW S \in SUBSET Nat, S # {}
  PROVE  \E m \in S : \A y \in S : m <= y
<1>. DEFINE UpTo(x) == {y \in S : y <= x}
            T == {U \in SUBSET Nat : \E x \in S : U = UpTo(x)}
            R == StrictSubsetOrdering(Nat)
<1>1. \A x \in S : UpTo(x) \in T /\ IsFiniteSet(UpTo(x))
  BY FS_BoundedSetOfNaturals
<1>2. T \subseteq FiniteSubsetsOf(Nat) /\ T # {}
  BY <1>1 DEF FiniteSubsetsOf
<1>3. IsWellFoundedOn(R, FiniteSubsetsOf(Nat))
  BY FS_StrictSubsetOrderingWellFounded
<1>4. PICK U \in T : \A V \in T : ~ (<<V, U>> \in R)
  <2>. HIDE DEF T, R
  <2>. QED BY <1>2, <1>3, WFMin
<1>5. PICK m \in S : U = UpTo(m)
  BY <1>4
<1>6. ASSUME NEW y \in S, ~ (m <= y)
      PROVE  FALSE
  <2>1. UpTo(y) \subseteq UpTo(m) /\ m \in UpTo(m) /\ m \notin UpTo(y)
    <3>1. y \in Nat /\ m \in Nat /\ y < m
      BY <1>6
    <3>2. \A z \in S : z \in Nat /\ (z <= y => z <= m)
      BY <3>1
    <3>3. UpTo(y) \subseteq UpTo(m)
      BY <3>2
    <3>4. m \in UpTo(m) /\ m \notin UpTo(y)
      BY <3>1
    <3>. QED BY <3>3, <3>4
  <2>2. UpTo(y) \in T
    BY <1>1
  <2>3. UpTo(y) \in SUBSET Nat /\ UpTo(m) \in SUBSET Nat
    OBVIOUS
  <2>4. <<UpTo(y), UpTo(m)>> \in R
    BY <2>1, <2>3 DEF StrictSubsetOrdering
  <2>. QED BY <1>4, <1>5, <2>2, <2>4
<1>. QED BY <1>6

LEMMA MinBelongs ==
  ASSUME NEW S \in SUBSET Nat, S # {}
  PROVE  Min(S) \in S
BY LeastNatural DEF Min

LEMMA MaxBounds ==
  ASSUME NEW S \in SUBSET Nat, S # {}, NEW b \in Nat, \A x \in S : x < b
  PROVE  Max(S) \in S /\ \A x \in S : x <= Max(S)
<1>. DEFINE D == {d \in Nat : \E x \in S : d = b - x}
<1>1. \A x \in S : b - x \in D
  OBVIOUS
<1>2. PICK d \in D : \A e \in D : d <= e
  BY <1>1, LeastNatural
<1>3. PICK m \in S : d = b - m
  BY <1>2
<1>4. ASSUME NEW x \in S
      PROVE  m >= x
  <2>1. b - m <= b - x
    BY <1>1, <1>2, <1>3
  <2>2. m \in Nat /\ x \in Nat
    OBVIOUS
  <2>. QED BY <2>1, <2>2
<1>5. Max(S) \in S /\ \A x \in S : Max(S) >= x
  BY <1>4 DEF Max
<1>6. \A x \in S : x \in Nat
  OBVIOUS
<1>7. Max(S) \in Nat
  BY <1>5, <1>6
<1>8. ASSUME NEW x \in S
      PROVE  x <= Max(S)
  BY <1>5, <1>6, <1>7
<1>. QED BY <1>5, <1>8

LEMMA BoundedFinite ==
  ASSUME NEW S, NEW b \in Nat, \A x \in S : x \in Nat \ {0} /\ x < b
  PROVE  IsFiniteSet(S)
BY FS_BoundedSetOfNaturals, S \in SUBSET Nat, \A x \in S : x <= b

LEMMA TrackedSame ==
  ASSUME NEW ps, NEW qs, DOMAIN qs = DOMAIN ps,
         \A id \in DOMAIN ps : qs[id].contract = ps[id].contract
  PROVE  Tracked(qs) = Tracked(ps)
<1>1. \A c \in Contracts : {id \in DOMAIN qs : qs[id].contract = c}
                           = {id \in DOMAIN ps : ps[id].contract = c}
  OBVIOUS
<1>. QED BY <1>1 DEF Tracked

LEMMA TrackedWith ==
  ASSUME NEW ps, NEW qs, IsFiniteSet(DOMAIN ps), NEW n, n \notin DOMAIN ps,
         DOMAIN qs = DOMAIN ps \cup {n}, NEW c \in Contracts, qs[n].contract = c,
         \A id \in DOMAIN ps : qs[id].contract = ps[id].contract
  PROVE  Tracked(qs) = [Tracked(ps) EXCEPT ![c] = @ + 1]
<1>. DEFINE P(d) == {id \in DOMAIN ps : ps[id].contract = d}
            Q(d) == {id \in DOMAIN qs : qs[id].contract = d}
<1>1. ASSUME NEW d \in Contracts
      PROVE  Cardinality(Q(d)) = IF d = c THEN Cardinality(P(d)) + 1 ELSE Cardinality(P(d))
  <2>1. IsFiniteSet(P(d)) /\ n \notin P(d)
    BY FS_Subset, P(d) \in SUBSET DOMAIN ps
  <2>2. CASE d = c
    <3>1. Q(d) = P(d) \cup {n}
      BY <2>2
    <3>. HIDE DEF P, Q
    <3>. QED BY <2>1, <2>2, <3>1, FS_AddElement
  <2>3. CASE d # c
    <3>1. Q(d) = P(d)
      BY <2>3
    <3>. QED BY <2>3, <3>1
  <2>. QED BY <2>2, <2>3
<1>2. Tracked(qs) = [d \in Contracts |-> Cardinality(Q(d))]
  BY DEF Tracked
<1>3. Tracked(ps) = [d \in Contracts |-> Cardinality(P(d))]
  BY DEF Tracked
<1>. HIDE DEF P, Q
<1>. QED BY <1>1, <1>2, <1>3

LEMMA TrackedWithout ==
  ASSUME NEW ps, IsFiniteSet(DOMAIN ps), NEW n \in DOMAIN ps, ps[n].contract \in Contracts
  PROVE  LET qs == Restrict(ps, DOMAIN ps \ {n}) IN
         Tracked(qs) = [Tracked(ps) EXCEPT ![ps[n].contract] = @ - 1]
<1>. DEFINE qs == Restrict(ps, DOMAIN ps \ {n})
            P(d) == {id \in DOMAIN ps : ps[id].contract = d}
            Q(d) == {id \in DOMAIN qs : qs[id].contract = d}
            c == ps[n].contract
<1>1. DOMAIN qs = DOMAIN ps \ {n} /\ \A id \in DOMAIN qs : qs[id] = ps[id]
  BY DEF Restrict
<1>2. Tracked(qs) = [d \in Contracts |-> Cardinality(Q(d))]
  BY DEF Tracked
<1>3. Tracked(ps) = [d \in Contracts |-> Cardinality(P(d))]
  BY DEF Tracked
<1>. HIDE DEF qs
<1>4. ASSUME NEW d \in Contracts
      PROVE  Cardinality(Q(d)) = IF d = c THEN Cardinality(P(d)) - 1 ELSE Cardinality(P(d))
  <2>1. IsFiniteSet(P(d))
    BY FS_Subset, P(d) \in SUBSET DOMAIN ps
  <2>2. CASE d = c
    <3>1. Q(d) = P(d) \ {n} /\ n \in P(d)
      BY <1>1, <2>2
    <3>. HIDE DEF P, Q
    <3>. QED BY <2>1, <2>2, <3>1, FS_RemoveElement
  <2>3. CASE d # c
    <3>1. Q(d) = P(d)
      BY <1>1, <2>3
    <3>. QED BY <2>3, <3>1
  <2>. QED BY <2>2, <2>3
<1>. HIDE DEF P, Q
<1>5. Tracked(qs) = [Tracked(ps) EXCEPT ![c] = @ - 1]
  BY <1>2, <1>3, <1>4
<1>. QED BY <1>5 DEF qs

----------------------------------------------------------------------------
(***************************************************************************)
(* The machine's part of a step.                                           *)
(***************************************************************************)
\* What a bar or an exit may do to the book, whatever the book was before (restored layers
\* can be more than the cap).
BookStep ==
  /\ nextId' \in Nat \ {0} /\ nextId <= nextId'
  /\ toClose' \subseteq layers
  /\ layers' = (layers \ toClose') \cup toOpen'
  /\ \A id \in toOpen' : id \in Nat \ {0} /\ nextId <= id /\ id < nextId'

LEMMA FreshRange ==
  ASSUME nextId \in Nat \ {0}, NEW n \in Nat
  PROVE  /\ \A id \in Fresh(n) : id \in Nat \ {0} /\ nextId <= id /\ id < nextId + n
         /\ nextId + n \in Nat \ {0} /\ nextId <= nextId + n
BY DEF Fresh

LEMMA BarBook ==
  ASSUME nextId \in Nat \ {0}, IsFiniteSet(layers), FlatWhenIdle, NEW b, NEW t, ProcessBar(b, t)
  PROVE  BookStep /\ now' = t
<1>1. CASE Keeps(b, t)
  BY <1>1, KeepsBookAsIs DEF BookStep
<1>2. CASE SessionFlush(b, t) \/ AbortCorridor(b, t)
  BY <1>2 DEF SessionFlush, AbortCorridor, CloseAll, UpdateSession, BookStep
<1>3. ASSUME OpenEntryLayers(t), toClose' = layers \/ (toClose' = {} /\ layers = {})
      PROVE  BookStep
  <2>1. EntryBatch \in Nat
    BY BatchFits
  <2>. QED BY <1>3, <2>1, FreshRange DEF OpenEntryLayers, BookStep
<1>4. CASE Rebuild(b, t)
  BY <1>3, <1>4 DEF Rebuild, Assessed, UpdateSession
<1>5. CASE EnterCorridor(b, t)
  <2>1. layers = {}
    BY <1>5 DEF EnterCorridor, RangeReturned, FlatWhenIdle
  <2>. QED BY <1>3, <1>5, <2>1 DEF EnterCorridor, Assessed, UpdateSession
<1>6. CASE StayCentered(b, t)
  <2>. DEFINE n == DailyAddition(b, t) + EdgeLayer(b, Cardinality(layers) + DailyAddition(b, t))
  <2>1. n \in Nat
    BY AdditionsCount
  <2>2. /\ toOpen' = Fresh(n) /\ layers' = layers \cup toOpen' /\ nextId' = nextId + n
        /\ toClose' = {} /\ now' = t
    BY <1>6 DEF StayCentered, Assessed, UpdateSession
  <2>. HIDE DEF n
  <2>. QED BY <2>1, <2>2, FreshRange DEF BookStep
<1>. QED BY <1>1, <1>2, <1>4, <1>5, <1>6, BarStepKinds

LEMMA BarFlat ==
  ASSUME FlatWhenIdle, NEW b, NEW t, ProcessBar(b, t)
  PROVE  FlatWhenIdle'
<1>. USE DEF FlatWhenIdle
<1>1. CASE Keeps(b, t)
  BY <1>1, KeepsBookAsIs DEF Keeps, HoldOvernight, StayAborted, StayIdle, RangeReturned,
       StartDrift, ResolveDrift, RequestRebuild, KeepDrifting, AwaitCenter
<1>2. CASE SessionFlush(b, t) \/ AbortCorridor(b, t)
  BY <1>2 DEF SessionFlush, AbortCorridor, CloseAll
<1>3. CASE EnterCorridor(b, t) \/ Rebuild(b, t)
  BY <1>3 DEF EnterCorridor, Rebuild, OpenEntryLayers
<1>4. CASE StayCentered(b, t)
  BY <1>4 DEF StayCentered
<1>. QED BY <1>1, <1>2, <1>3, <1>4, BarStepKinds

\* A protective exit of the runner.
LEMMA ExitBook ==
  ASSUME nextId \in Nat \ {0}, NEW b, NEW t, ExitOnSignal(b, t)
  PROVE  BookStep /\ now' = t /\ toOpen' = {} /\ (FlatWhenIdle => FlatWhenIdle')
<1>1. CASE SwallowBar(b, t)
  BY <1>1 DEF SwallowBar, UpdateSession, BookStep, FlatWhenIdle
<1>2. CASE \E reason \in ProtectiveExits : FlattenPositions(reason, b.gap, t)
  BY <1>2 DEF FlattenPositions, CloseAll, UpdateSession, BookStep, FlatWhenIdle
<1>. QED BY <1>1, <1>2 DEF ExitOnSignal

----------------------------------------------------------------------------
(***************************************************************************)
(* Starting and stopping.                                                  *)
(***************************************************************************)
LEMMA RunnerInitInv == RunnerInit => RInv
<1>. SUFFICES ASSUME RunnerInit PROVE RInv
  OBVIOUS
<1>. USE DEF RunnerInit, Init
<1>1. Typed
  BY RunnerAssumption, TimeAssumption DEF Typed, Flat, NoPositions
<1>2. IdsBelowCounter /\ FileIdsBelowCounter /\ Phases
  BY DEF IdsBelowCounter, FileIdsBelowCounter, Phases, NoPositions
<1>3. FlatWhenIdle /\ ~ Running
  BY DEF FlatWhenIdle, Running
<1>. QED
  BY <1>1, <1>2, <1>3
  DEF RInv, OpensAreLayers, NewLayersUntracked, OrphansAwaitClose, DivergenceIsNoticed

\* The process ends, whatever it was doing.
LEMMA StopInv ==
  ASSUME RInv, Stop, file' = file, held' \in [Contracts -> Int]
  PROVE  RInv'
<1>. USE DEF Stop
<1>1. Typed'
  BY DEF RInv, Typed, NoPositions
<1>2. IdsBelowCounter' /\ FileIdsBelowCounter' /\ Phases'
  BY DEF RInv, IdsBelowCounter, FileIdsBelowCounter, Phases, NoPositions
<1>3. FlatWhenIdle' /\ ~ Running'
  BY DEF FlatWhenIdle, Running
<1>. QED
  BY <1>1, <1>2, <1>3
  DEF RInv, OpensAreLayers, NewLayersUntracked, OrphansAwaitClose, DivergenceIsNoticed

LEMMA StartInv == ASSUME RInv, Start PROVE RInv'
<1>. USE DEF Start, vars, machineVars, accountVars, diskVars
<1>1. Typed'
  BY DEF RInv, Typed
<1>2. IdsBelowCounter' /\ FileIdsBelowCounter'
  BY DEF RInv, IdsBelowCounter, FileIdsBelowCounter
<1>3. Phases' /\ ~ Running'
  BY DEF RInv, Phases, Running
<1>4. FlatWhenIdle'
  BY DEF RInv, FlatWhenIdle
<1>. QED
  BY <1>1, <1>2, <1>3, <1>4
  DEF RInv, OpensAreLayers, NewLayersUntracked, OrphansAwaitClose, DivergenceIsNoticed

\* Only finitely many ids were given out.
LEMMA IdsFinite ==
  ASSUME IdsBelowCounter
  PROVE  IsFiniteSet(layers) /\ IsFiniteSet(DOMAIN positions)
<1>1. /\ nextId \in Nat
      /\ \A id \in layers : id \in Nat \ {0} /\ id < nextId
      /\ \A id \in DOMAIN positions : id \in Nat \ {0} /\ id < nextId
  BY DEF IdsBelowCounter
<1>. QED BY <1>1, BoundedFinite

\* What the machine opens and closes has ids below the new counter.
LEMMA BookStepIds ==
  ASSUME IdsBelowCounter, BookStep, positions' = positions
  PROVE  IdsBelowCounter'
<1>1. nextId \in Nat /\ nextId' \in Nat \ {0} /\ nextId <= nextId'
  BY DEF IdsBelowCounter, BookStep
<1>2. \A id \in layers \cup DOMAIN positions : id \in Nat \ {0} /\ id < nextId'
  BY <1>1 DEF IdsBelowCounter
<1>3. \A id \in toOpen' : id \in Nat \ {0} /\ id < nextId'
  BY DEF BookStep
<1>4. layers' \subseteq layers \cup toOpen' /\ toClose' \subseteq layers
  BY DEF BookStep
<1>. QED BY <1>1, <1>2, <1>3, <1>4 DEF IdsBelowCounter

LEMMA SeedInv ==
  ASSUME RInv, NEW b \in Bars, NEW t \in Nat, SeedBar(b, t)
  PROVE  RInv'
<1>. USE DEF SeedBar, runnerVars, processVars, accountVars, diskVars
<1>1. BookStep /\ now' = t /\ FlatWhenIdle'
  BY BarBook, BarFlat, IdsFinite DEF RInv, IdsBelowCounter
<1>2. Typed'
  BY <1>1 DEF RInv, Typed
<1>3. IdsBelowCounter' /\ FileIdsBelowCounter'
  BY <1>1, BookStepIds DEF RInv, FileIdsBelowCounter
<1>4. Phases' /\ ~ Running'
  BY DEF RInv, Phases, Running
<1>. QED
  BY <1>1, <1>2, <1>3, <1>4
  DEF RInv, OpensAreLayers, NewLayersUntracked, OrphansAwaitClose, DivergenceIsNoticed

\* The counter is moved past every restored layer.
LEMMA RestoredCounter ==
  ASSUME FileIdsBelowCounter
  PROVE  /\ RestoredNextId \in Nat \ {0}
         /\ \A id \in DOMAIN file.positions : id \in Nat \ {0} /\ id < RestoredNextId
<1>1. CASE DOMAIN file.positions = {}
  BY <1>1 DEF FileIdsBelowCounter, RestoredNextId
<1>2. CASE DOMAIN file.positions # {}
  <2>1. /\ file.nextId \in Nat
        /\ \A id \in DOMAIN file.positions : id \in Nat \ {0} /\ id < file.nextId
    BY DEF FileIdsBelowCounter
  <2>2. /\ Max(DOMAIN file.positions) \in DOMAIN file.positions
        /\ \A id \in DOMAIN file.positions : id <= Max(DOMAIN file.positions)
    BY <1>2, <2>1, MaxBounds, DOMAIN file.positions \in SUBSET Nat
  <2>3. RestoredNextId = Max(DOMAIN file.positions) + 1
    BY <1>2 DEF RestoredNextId
  <2>. QED BY <2>1, <2>2, <2>3
<1>. QED BY <1>1, <1>2

LEMMA ReadyInv ==
  ASSUME RInv, Ready, IdsBelowCounter', FlatWhenIdle',
         \A id \in DOMAIN positions' : positions'[id] \in Position,
         DOMAIN positions' \subseteq layers'
  PROVE  RInv'
<1>. USE DEF Ready, accountVars, diskVars
<1>1. Typed'
  BY DEF RInv, Typed
<1>2. FileIdsBelowCounter' /\ Phases'
  BY DEF RInv, FileIdsBelowCounter, Phases, Running
<1>3. OpensAreLayers' /\ NewLayersUntracked' /\ OrphansAwaitClose'
  BY DEF OpensAreLayers, NewLayersUntracked, OrphansAwaitClose
<1>4. DivergenceIsNoticed'
  BY DEF DivergenceIsNoticed
<1>. QED BY <1>1, <1>2, <1>3, <1>4 DEF RInv

LEMMA BeginInv ==
  ASSUME RInv, BeginWithFile \/ BeginWithoutFile
  PROVE  RInv'
<1>1. CASE BeginWithFile
  <2>1. /\ positions' = file.positions /\ layers' = DOMAIN file.positions
        /\ nextId' = RestoredNextId /\ toClose' = {} /\ toOpen' = {}
        /\ state' = IF layers' = {} THEN file.state ELSE "ACTIVE_CENTERED"
    BY <1>1 DEF BeginWithFile, RestoreFile, Ready
  <2>2. IdsBelowCounter'
    BY <2>1, RestoredCounter DEF RInv, IdsBelowCounter
  <2>3. FlatWhenIdle'
    BY <2>1 DEF FlatWhenIdle
  <2>4. \A id \in DOMAIN positions' : positions'[id] \in Position
    BY <2>1 DEF RInv, Typed
  <2>. QED BY <1>1, <2>1, <2>2, <2>3, <2>4, ReadyInv DEF BeginWithFile
<1>2. CASE BeginWithoutFile
  <2>1. /\ UNCHANGED <<positions, layers, state, nextId>>
        /\ toClose' = {} /\ toOpen' = {}
    BY <1>2 DEF BeginWithoutFile, Ready
  <2>2. DOMAIN positions = {}
    BY <1>2 DEF BeginWithoutFile, Ready, RInv, Phases, Running
  <2>3. IdsBelowCounter' /\ FlatWhenIdle'
    BY <2>1 DEF RInv, IdsBelowCounter, FlatWhenIdle
  <2>. QED BY <1>2, <2>1, <2>2, <2>3, ReadyInv DEF BeginWithoutFile
<1>. QED BY <1>1, <1>2

----------------------------------------------------------------------------
(***************************************************************************)
(* A bar and its actions.                                                  *)
(***************************************************************************)
LEMMA BarInv ==
  ASSUME RInv, NEW b \in Bars, NEW t \in Nat, FeedMachine(b, t) \/ ExitOnSignal(b, t)
  PROVE  RInv'
<1>1. TakeBar(b, t)
  BY DEF FeedMachine, ExitOnSignal
<1>. USE DEF TakeBar, accountVars, diskVars
<1>2. BookStep /\ now' = t /\ FlatWhenIdle'
  <2>1. nextId \in Nat \ {0} /\ IsFiniteSet(layers) /\ FlatWhenIdle
    BY IdsFinite DEF RInv, IdsBelowCounter
  <2>. QED BY <2>1, BarBook, BarFlat, ExitBook DEF FeedMachine
<1>3. Typed'
  BY <1>1, <1>2 DEF RInv, Typed
<1>4. IdsBelowCounter' /\ FileIdsBelowCounter'
  BY <1>1, <1>2, BookStepIds DEF RInv, FileIdsBelowCounter
<1>5. Phases' /\ Running /\ Running'
  BY <1>1 DEF RInv, Phases, Running
<1>6. OpensAreLayers'
  BY <1>2 DEF OpensAreLayers, BookStep
<1>7. NewLayersUntracked'
  <2>1. \A id \in DOMAIN positions : id \in Nat /\ id < nextId
    BY DEF RInv, IdsBelowCounter
  <2>2. \A id \in toOpen' : id \in Nat /\ nextId <= id
    BY <1>2 DEF BookStep
  <2>3. nextId \in Nat
    BY DEF RInv, IdsBelowCounter
  <2>. QED BY <1>1, <2>1, <2>2, <2>3 DEF NewLayersUntracked
<1>8. OrphansAwaitClose'
  BY <1>1, <1>2, <1>5 DEF RInv, OrphansAwaitClose, BookStep
<1>9. DivergenceIsNoticed'
  BY <1>1, <1>5 DEF RInv, DivergenceIsNoticed
<1>. QED BY <1>2, <1>3, <1>4, <1>5, <1>6, <1>7, <1>8, <1>9 DEF RInv

\* What every close leaves alone.
LEMMA CloseFrame ==
  ASSUME RInv, Closing, AfterClose, held' \in [Contracts -> Int],
         DOMAIN positions' \subseteq DOMAIN positions,
         \A id \in DOMAIN positions' : positions'[id] \in Position
  PROVE  /\ Typed' /\ IdsBelowCounter' /\ FileIdsBelowCounter' /\ Phases' /\ FlatWhenIdle'
         /\ OpensAreLayers' /\ NewLayersUntracked' /\ Running /\ Running'
         /\ layers' = layers /\ paper' = paper /\ unsure' = unsure
<1>. USE DEF AfterClose, machineVars, diskVars
<1>1. Typed'
  BY DEF RInv, Typed
<1>2. toClose' \subseteq toClose
  OBVIOUS
<1>3. IdsBelowCounter'
  BY <1>2 DEF RInv, IdsBelowCounter
<1>4. FileIdsBelowCounter' /\ FlatWhenIdle'
  BY DEF RInv, FileIdsBelowCounter, FlatWhenIdle
<1>5. Phases' /\ Running /\ Running'
  BY <1>2 DEF RInv, Phases, Running, Closing
<1>6. OpensAreLayers'
  BY DEF RInv, OpensAreLayers, Running
<1>7. NewLayersUntracked'
  BY DEF RInv, NewLayersUntracked, Running
<1>. QED BY <1>1, <1>3, <1>4, <1>5, <1>6, <1>7

LEMMA CloseInv ==
  ASSUME RInv, HandleClose
  PROVE  RInv'
<1>. DEFINE n == NextClose
<1>1. \A id \in DOMAIN positions : positions[id] \in Position
  BY DEF RInv, Typed
<1>2. held \in [Contracts -> Int] /\ IsFiniteSet(DOMAIN positions)
  BY IdsFinite DEF RInv, Typed
<1>3. CASE SkipClose \/ RefuseQuote
  <2>1. Closing /\ AfterClose /\ UNCHANGED <<positions, held>>
    BY <1>3 DEF SkipClose, RefuseQuote
  <2>2. n \notin DOMAIN positions \/ halted' = TRUE
    BY <1>3 DEF SkipClose, RefuseQuote
  <2>3. OrphansAwaitClose'
    BY <1>3, <2>1, <2>2, <1>1, <1>2, CloseFrame
    DEF SkipClose, RefuseQuote, AfterClose, RInv, OrphansAwaitClose
  <2>4. DivergenceIsNoticed'
    BY <1>3, <2>1, <1>1, <1>2, CloseFrame
    DEF SkipClose, RefuseQuote, RInv, DivergenceIsNoticed
  <2>. QED BY <2>1, <2>3, <2>4, <1>1, <1>2, CloseFrame DEF RInv
<1>4. CASE PretendClose \/ CloseFails
  <2>1. /\ Closing /\ AfterClose /\ n \in DOMAIN positions /\ ~ halted /\ held' = held
        /\ \/ positions' = [positions EXCEPT ![n].asked = "pretended"]
           \/ positions' = [positions EXCEPT ![n].asked = "ordered"]
    BY <1>4 DEF PretendClose, CloseFails
  <2>2. /\ DOMAIN positions' = DOMAIN positions
        /\ \A id \in DOMAIN positions' : positions'[id] \in Position
        /\ \A id \in DOMAIN positions : positions'[id].contract = positions[id].contract
        /\ positions'[n].asked # "no"
        /\ \A id \in DOMAIN positions : id # n => positions'[id] = positions[id]
    BY <2>1, <1>1 DEF Position
  <2>3. OrphansAwaitClose'
    BY <2>1, <2>2, <1>2, CloseFrame DEF AfterClose, RInv, OrphansAwaitClose
  <2>4. Tracked(positions') = Tracked(positions)
    BY <2>2, TrackedSame
  <2>5. DivergenceIsNoticed'
    BY <2>1, <2>2, <2>4, <1>2, CloseFrame DEF RInv, DivergenceIsNoticed
  <2>. QED BY <2>1, <2>2, <2>3, <2>5, <1>2, CloseFrame DEF RInv
<1>5. CASE CloseFills
  <2>. DEFINE c == positions[n].contract
  <2>1. /\ Closing /\ AfterClose /\ n \in DOMAIN positions /\ ~ halted /\ halted' = halted
        /\ positions' = Restrict(positions, DOMAIN positions \ {n})
        /\ held' = [held EXCEPT ![c] = @ - 1]
    BY <1>5 DEF CloseFills
  <2>2. held' \in [Contracts -> Int] /\ c \in Contracts
    BY <2>1, <1>1, <1>2 DEF Position
  <2>3. /\ DOMAIN positions' = DOMAIN positions \ {n}
        /\ \A id \in DOMAIN positions' : positions'[id] = positions[id]
    BY <2>1 DEF Restrict
  <2>4. \A id \in DOMAIN positions' : positions'[id] \in Position
    BY <2>3, <1>1
  <2>5. OrphansAwaitClose'
    BY <2>1, <2>2, <2>3, <2>4, CloseFrame DEF AfterClose, RInv, OrphansAwaitClose
  <2>6. Tracked(positions') = [Tracked(positions) EXCEPT ![c] = @ - 1]
    BY <2>1, <2>2, <1>2, TrackedWithout
  <2>7. DivergenceIsNoticed'
    BY <2>1, <2>2, <2>3, <2>4, <2>6, CloseFrame DEF RInv, DivergenceIsNoticed
  <2>. QED BY <2>1, <2>2, <2>3, <2>4, <2>5, <2>7, CloseFrame DEF RInv
<1>. QED BY <1>3, <1>4, <1>5 DEF HandleClose

\* What every open leaves alone, whether or not the layer is taken back.
LEMMA OpenFrame ==
  ASSUME RInv, Opening, AfterOpen, held' \in [Contracts -> Int], nextId' = nextId,
         layers' = layers \/ (layers' = layers \ {NextOpen} /\ NextOpen \notin DOMAIN positions'),
         DOMAIN positions' \subseteq DOMAIN positions \cup {NextOpen},
         \A id \in DOMAIN positions' : positions'[id] \in Position
  PROVE  /\ Typed' /\ IdsBelowCounter' /\ FileIdsBelowCounter' /\ Phases'
         /\ OpensAreLayers' /\ NewLayersUntracked' /\ Running /\ Running'
         /\ NextOpen \in layers
<1>. USE DEF AfterOpen, diskVars
<1>1. NextOpen \in toOpen
  <2>1. toOpen \in SUBSET Nat /\ toOpen # {}
    BY DEF RInv, IdsBelowCounter, Opening
  <2>. QED BY <2>1, MinBelongs DEF NextOpen
<1>2. Running /\ Running' /\ toOpen \subseteq layers
  BY DEF RInv, OpensAreLayers, Opening, Running
<1>3. Typed'
  BY DEF RInv, Typed
<1>4. toOpen' = toOpen \ {NextOpen} /\ toClose' = toClose
  OBVIOUS
<1>5. IdsBelowCounter'
  BY <1>1, <1>4 DEF RInv, IdsBelowCounter
<1>6. FileIdsBelowCounter'
  BY DEF RInv, FileIdsBelowCounter
<1>7. Phases'
  BY <1>2, <1>4 DEF RInv, Phases
<1>8. OpensAreLayers'
  BY <1>2, <1>4 DEF OpensAreLayers
<1>9. NewLayersUntracked'
  BY <1>2, <1>4 DEF RInv, NewLayersUntracked
<1>. QED BY <1>1, <1>2, <1>3, <1>5, <1>6, <1>7, <1>8, <1>9

LEMMA OpenInv ==
  ASSUME RInv, HandleOpen
  PROVE  RInv'
<1>. DEFINE n == NextOpen
<1>1. \A id \in DOMAIN positions : positions[id] \in Position
  BY DEF RInv, Typed
<1>2. held \in [Contracts -> Int] /\ IsFiniteSet(DOMAIN positions)
  BY IdsFinite DEF RInv, Typed
<1>3. CASE SkipOpen
  <2>1. /\ Opening /\ AfterOpen
        /\ UNCHANGED <<state, layers, nextId, positions, halted, held>>
    BY <1>3 DEF SkipOpen, machineVars
  <2>2. FlatWhenIdle'
    BY <2>1 DEF RInv, FlatWhenIdle
  <2>3. OrphansAwaitClose' /\ DivergenceIsNoticed'
    BY <2>1, <1>1, <1>2, OpenFrame DEF AfterOpen, RInv, OrphansAwaitClose, DivergenceIsNoticed
  <2>. QED BY <2>1, <2>2, <2>3, <1>1, <1>2, OpenFrame DEF RInv
<1>4. ASSUME Rollback(n), AfterOpen, Opening, n \notin DOMAIN positions,
             UNCHANGED <<positions, held>>, halted => halted'
      PROVE  RInv'
  <2>1. /\ layers' = layers \ {n} /\ nextId' = nextId
        /\ state' = IF layers' = {} THEN "IDLE" ELSE "ACTIVE_CENTERED"
    BY <1>4 DEF Rollback
  <2>2. FlatWhenIdle'
    BY <2>1 DEF FlatWhenIdle
  <2>3. Running
    BY <1>4 DEF Opening
  <2>4. OrphansAwaitClose' /\ DivergenceIsNoticed'
    BY <1>4, <2>1, <2>3 DEF AfterOpen, RInv, OrphansAwaitClose, DivergenceIsNoticed
  <2>. QED BY <1>4, <1>1, <1>2, <2>1, <2>2, <2>4, OpenFrame DEF RInv
<1>5. CASE RefuseOpen
  BY <1>4, <1>5 DEF RefuseOpen, CanOpen
<1>6. CASE \E c \in Contracts : OpenFails(c)
  BY <1>4, <1>6 DEF OpenFails, CanOpen
<1>7. CASE \E c \in Contracts : PretendOpen(c) \/ OpenFills(c)
  <2>1. PICK c \in Contracts : PretendOpen(c) \/ OpenFills(c)
    BY <1>7
  <2>2. /\ CanOpen /\ Opening /\ AfterOpen /\ Track(c) /\ n \notin DOMAIN positions /\ ~ halted
        /\ UNCHANGED <<state, layers, nextId, halted>>
        /\ \/ ~ paper /\ held' = held
           \/ held' = [held EXCEPT ![c] = @ + 1]
    BY <2>1 DEF PretendOpen, OpenFills, CanOpen, machineVars
  <2>3. /\ DOMAIN positions' = DOMAIN positions \cup {n}
        /\ positions'[n] = [contract |-> c, primary |-> n = primary,
                            day |-> Day(now), asked |-> "no"]
        /\ \A id \in DOMAIN positions : positions'[id] = positions[id]
    BY <2>2 DEF Track
  <2>4. Day(now) \in Nat
    BY DayType DEF RInv, Typed
  <2>5. (n = primary) \in BOOLEAN
    OBVIOUS
  <2>6. positions'[n] \in Position
    BY <2>3, <2>4, <2>5 DEF Position
  <2>7. \A id \in DOMAIN positions' : positions'[id] \in Position
    BY <2>3, <2>6, <1>1
  <2>8. held' \in [Contracts -> Int]
    BY <2>2, <1>2
  <2>9. n \in layers
    BY <2>2, <2>3, <2>7, <2>8, OpenFrame
  <2>10. FlatWhenIdle'
    BY <2>2 DEF RInv, FlatWhenIdle
  <2>11. OrphansAwaitClose'
    BY <2>2, <2>3, <2>9 DEF AfterOpen, RInv, OrphansAwaitClose, Running
  <2>12. Tracked(positions') = [Tracked(positions) EXCEPT ![c] = @ + 1]
    <3>1. positions'[n].contract = c
      BY <2>3
    <3>2. \A id \in DOMAIN positions : positions'[id].contract = positions[id].contract
      BY <2>3
    <3>3. n \notin DOMAIN positions /\ DOMAIN positions' = DOMAIN positions \cup {n}
      BY <2>2, <2>3
    <3>. HIDE DEF n
    <3>. QED BY <3>1, <3>2, <3>3, <1>2, TrackedWith
  <2>13. DivergenceIsNoticed'
    BY <2>2, <2>12 DEF AfterOpen, RInv, DivergenceIsNoticed, Running
  <2>. QED BY <2>2, <2>3, <2>7, <2>8, <2>10, <2>11, <2>13, OpenFrame DEF RInv
<1>. QED BY <1>3, <1>5, <1>6, <1>7 DEF HandleOpen

----------------------------------------------------------------------------
(***************************************************************************)
(* The rest of a poll, and trades behind the runner's back.                *)
(***************************************************************************)
\* A comparison with the account only drops positions, and a difference that is left halts.
LEMMA RefreshKeeps ==
  ASSUME Refresh
  PROVE  /\ DOMAIN positions' \subseteq DOMAIN positions
         /\ \A id \in DOMAIN positions' : positions'[id] = positions[id]
         /\ halted => halted'
         /\ \/ positions' = positions /\ halted' = halted /\ unsure' = unsure
            \/ halted' \/ held = Tracked(positions')
<1>1. CASE UNCHANGED <<positions, halted, unsure>>
  BY <1>1
<1>2. CASE /\ positions' = Restrict(positions, DOMAIN positions \ FlatConfirmed)
           /\ halted' = (halted \/ held # Tracked(positions'))
  <2>1. /\ DOMAIN positions' = DOMAIN positions \ FlatConfirmed
        /\ \A id \in DOMAIN positions' : positions'[id] = positions[id]
    BY <1>2 DEF Restrict
  <2>2. (halted => halted') /\ (halted' \/ held = Tracked(positions'))
    BY <1>2
  <2>. QED BY <2>1, <2>2
<1>. QED BY <1>1, <1>2 DEF Refresh

\* What the end of a poll leaves alone.
LEMMA PollFrame ==
  ASSUME RInv, Running, Running', UNCHANGED <<machineVars, now, held, latest, paper>>,
         DOMAIN positions' \subseteq DOMAIN positions,
         \A id \in DOMAIN positions' : positions'[id] = positions[id],
         toOpen' = toOpen, toClose' \subseteq toClose \cup DOMAIN positions, Phases',
         file' = file \/ Save
  PROVE  /\ Typed' /\ IdsBelowCounter' /\ FileIdsBelowCounter' /\ FlatWhenIdle'
         /\ OpensAreLayers' /\ NewLayersUntracked'
<1>. USE DEF machineVars
<1>1. \A id \in DOMAIN positions' : positions'[id] \in Position
  BY DEF RInv, Typed
<1>2. pc' \in {"down", "seeding", "ready", "bars", "retry"}
  BY DEF Running
<1>3. \A id \in DOMAIN file'.positions : file'.positions[id] \in Position
  BY <1>1 DEF Save, RInv, Typed
<1>4. Typed'
  BY <1>1, <1>2, <1>3 DEF RInv, Typed
<1>5. IdsBelowCounter'
  BY DEF RInv, IdsBelowCounter
<1>6. FileIdsBelowCounter'
  <2>1. CASE file' = file
    BY <2>1 DEF RInv, FileIdsBelowCounter
  <2>2. CASE Save
    <3>1. file'.nextId = nextId /\ DOMAIN file'.positions = DOMAIN positions'
      BY <2>2 DEF Save
    <3>2. nextId \in Nat \ {0} /\ \A id \in DOMAIN positions : id \in Nat \ {0} /\ id < nextId
      BY DEF RInv, IdsBelowCounter
    <3>. QED BY <3>1, <3>2 DEF FileIdsBelowCounter
  <2>. QED BY <2>1, <2>2
<1>7. FlatWhenIdle' /\ OpensAreLayers' /\ NewLayersUntracked'
  BY DEF RInv, FlatWhenIdle, OpensAreLayers, NewLayersUntracked
<1>. QED BY <1>4, <1>5, <1>6, <1>7

LEMMA PollInv ==
  ASSUME RInv, EndPoll \/ IdlePoll \/ RetryCloses \/ EndRetry
  PROVE  RInv'
<1>. USE DEF vars, accountVars, diskVars
<1>1. Running /\ Running'
  BY DEF EndPoll, IdlePoll, RetryCloses, EndRetry, Running
<1>2. /\ UNCHANGED <<machineVars, now, held, latest, paper>> /\ toOpen' = toOpen
      /\ file' = file \/ Save
  BY DEF EndPoll, IdlePoll, RetryCloses, EndRetry
<1>3. /\ DOMAIN positions' \subseteq DOMAIN positions
      /\ \A id \in DOMAIN positions' : positions'[id] = positions[id]
      /\ halted => halted'
      /\ \/ positions' = positions /\ halted' = halted /\ unsure' = unsure
         \/ halted' \/ held = Tracked(positions')
  BY RefreshKeeps DEF EndPoll, IdlePoll, RetryCloses, EndRetry
<1>4. toClose = {} /\ toClose' \subseteq DOMAIN positions
  BY <1>3 DEF EndPoll, IdlePoll, RetryCloses, EndRetry, Due, RInv, Phases
<1>5. Phases'
  BY <1>1, <1>2 DEF EndPoll, IdlePoll, RetryCloses, EndRetry, RInv, Phases
<1>6. OrphansAwaitClose'
  BY <1>1, <1>2, <1>3, <1>4 DEF RInv, OrphansAwaitClose, machineVars
<1>7. DivergenceIsNoticed'
  BY <1>1, <1>2, <1>3 DEF RInv, DivergenceIsNoticed
<1>. QED BY <1>1, <1>2, <1>3, <1>4, <1>5, <1>6, <1>7, PollFrame DEF RInv

LEMMA LateTradeInv ==
  ASSUME RInv, NEW order, LateTrade(order)
  PROVE  RInv'
<1>. USE DEF LateTrade, vars, machineVars, diskVars
<1>1. held' \in [Contracts -> Int]
  <2>1. held \in [Contracts -> Int]
    BY DEF RInv, Typed
  <2>2. held' = [c \in Contracts |-> IF c # order.contract THEN held[c]
                                     ELSE IF order.side = "BUY" THEN held[c] + 1 ELSE held[c] - 1]
    BY <2>1
  <2>3. \A c \in Contracts : held[c] \in Int /\ held[c] + 1 \in Int /\ held[c] - 1 \in Int
    BY <2>1
  <2>. QED BY <2>2, <2>3
<1>2. Typed'
  BY <1>1 DEF RInv, Typed
<1>3. IdsBelowCounter' /\ FileIdsBelowCounter' /\ Phases' /\ FlatWhenIdle'
  BY DEF RInv, IdsBelowCounter, FileIdsBelowCounter, Phases, FlatWhenIdle, Running
<1>4. OpensAreLayers' /\ NewLayersUntracked' /\ OrphansAwaitClose'
  BY DEF RInv, OpensAreLayers, NewLayersUntracked, OrphansAwaitClose, Running
<1>5. DivergenceIsNoticed'
  BY DEF DivergenceIsNoticed
<1>. QED BY <1>2, <1>3, <1>4, <1>5 DEF RInv

LEMMA RunnerStutterInv == ASSUME RInv, UNCHANGED allVars PROVE RInv'
<1>. USE DEF allVars, vars, machineVars, runnerVars, processVars, accountVars, diskVars
<1>1. Typed' /\ IdsBelowCounter' /\ FileIdsBelowCounter' /\ Phases' /\ FlatWhenIdle'
  BY DEF RInv, Typed, IdsBelowCounter, FileIdsBelowCounter, Phases, FlatWhenIdle, Running
<1>2. OpensAreLayers' /\ NewLayersUntracked' /\ OrphansAwaitClose' /\ DivergenceIsNoticed'
  BY DEF RInv, OpensAreLayers, NewLayersUntracked, OrphansAwaitClose, DivergenceIsNoticed, Running
<1>. QED BY <1>1, <1>2 DEF RInv

----------------------------------------------------------------------------
(***************************************************************************)
(* The theorems.                                                           *)
(***************************************************************************)
LEMMA RunnerStepInv == RInv /\ [RunnerNext]_allVars => RInv'
<1>. SUFFICES ASSUME RInv, [RunnerNext]_allVars PROVE RInv'
  OBVIOUS
<1>. USE DEF accountVars, diskVars
<1>1. held \in [Contracts -> Int] /\ now \in Nat
  BY DEF RInv, Typed
<1>2. CASE Start \/ BeginWithFile \/ BeginWithoutFile
  BY <1>2, StartInv, BeginInv
<1>3. CASE FailToStart \/ CrashAnywhere \/ CrashInSave
  BY <1>1, <1>3, StopInv DEF FailToStart, CrashAnywhere, CrashInSave, Crash
<1>4. CASE CrashInOrder
  <2>1. file' = file /\ Stop
    BY <1>4 DEF CrashInOrder, Crash
  <2>2. held' \in [Contracts -> Int]
    BY <1>1, <1>4 DEF CrashInOrder
  <2>. QED BY <2>1, <2>2, StopInv
<1>5. CASE \E t \in (now + 1)..Horizon, b \in Bars :
             SeedBar(b, t) \/ FeedMachine(b, t) \/ ExitOnSignal(b, t)
  <2>1. PICK t \in (now + 1)..Horizon, b \in Bars :
               SeedBar(b, t) \/ FeedMachine(b, t) \/ ExitOnSignal(b, t)
    BY <1>5
  <2>2. t \in Nat
    BY <1>1, <2>1, TimeAssumption
  <2>. QED BY <2>1, <2>2, SeedInv, BarInv
<1>6. CASE HandleClose \/ HandleOpen
  BY <1>6, CloseInv, OpenInv
<1>7. CASE EndPoll \/ IdlePoll \/ RetryCloses \/ EndRetry
  BY <1>7, PollInv
<1>8. CASE \E order \in sent : LateTrade(order)
  BY <1>8, LateTradeInv
<1>9. CASE UNCHANGED allVars
  BY <1>9, RunnerStutterInv
<1>. QED BY <1>2, <1>3, <1>4, <1>5, <1>6, <1>7, <1>8, <1>9 DEF RunnerNext

LEMMA RunnerInvariance == RunnerSpec => []RInv
BY RunnerInitInv, RunnerStepInv, PTL DEF RunnerSpec

\* However many orders fail, fill late or are cut off by a crash, a runner that trades holds
\* what it tracks, or an order traded since it last compared the two.
THEOREM DivergenceNoticed == RunnerSpec => []DivergenceIsNoticed
<1>1. RInv => DivergenceIsNoticed
  BY DEF RInv
<1>. QED BY <1>1, RunnerInvariance, PTL

\* No position whose layer the machine gave up is forgotten, whatever fails.
THEOREM OrphansRemembered == RunnerSpec => []OrphansAwaitClose
<1>1. RInv => OrphansAwaitClose
  BY DEF RInv
<1>. QED BY <1>1, RunnerInvariance, PTL

\* The ids of new layers are never those of tracked positions, over any number of restarts.
THEOREM NewIdsUntracked == RunnerSpec => []NewLayersUntracked
<1>1. RInv => NewLayersUntracked
  BY DEF RInv
<1>. QED BY <1>1, RunnerInvariance, PTL

\* A process that is stopped between two polls loses nothing: its recovery file holds what
\* it tracks (_write_state_snapshot at every end of poll_once).
THEOREM RecoveryFileCurrent == RunnerSpec => []FileIsCurrent
<1>1. RunnerInit => FileIsCurrent
  BY DEF RunnerInit, FileIsCurrent
<1>2. ASSUME RInv, FileIsCurrent, [RunnerNext]_allVars
      PROVE  FileIsCurrent'
  <2>. SUFFICES ASSUME pc' = "ready", saved' = "saved", ~ StartsFlat
                PROVE  file'.positions = positions'
    BY DEF FileIsCurrent
  <2>. USE DEF diskVars
  <2>1. ASSUME pc = "ready", UNCHANGED <<saved, file, positions>>
        PROVE  file'.positions = positions'
    BY <1>2, <2>1 DEF FileIsCurrent
  <2>2. CASE Start \/ FailToStart \/ CrashAnywhere \/ CrashInOrder \/ CrashInSave
    BY <2>2 DEF Start, FailToStart, CrashAnywhere, CrashInOrder, CrashInSave, Crash, Stop
  <2>3. CASE BeginWithFile \/ BeginWithoutFile
    BY <2>3 DEF BeginWithFile, RestoreFile, BeginWithoutFile, Ready
  <2>4. CASE \E t \in (now + 1)..Horizon, b \in Bars :
               SeedBar(b, t) \/ FeedMachine(b, t) \/ ExitOnSignal(b, t)
    BY <2>4 DEF SeedBar, runnerVars, processVars, FeedMachine, ExitOnSignal, TakeBar
  <2>5. CASE HandleClose \/ HandleOpen
    <3>1. pc = "ready" /\ (Closing \/ Opening)
      BY <2>5 DEF HandleClose, SkipClose, RefuseQuote, PretendClose, CloseFills, CloseFails,
                  AfterClose, HandleOpen, SkipOpen, RefuseOpen, CanOpen, PretendOpen, OpenFills,
                  OpenFails, AfterOpen
    <3>2. toClose = {} /\ toOpen = {}
      BY <1>2, <3>1 DEF RInv, Phases
    <3>. QED BY <3>1, <3>2 DEF Closing, Opening
  <2>6. CASE EndPoll \/ IdlePoll \/ RetryCloses \/ EndRetry
    BY <2>6 DEF EndPoll, IdlePoll, RetryCloses, EndRetry, Save
  <2>7. CASE (\E order \in sent : LateTrade(order)) \/ UNCHANGED allVars
    BY <2>1, <2>7 DEF LateTrade, allVars, runnerVars, processVars
  <2>. QED BY <1>2, <2>2, <2>3, <2>4, <2>5, <2>6, <2>7 DEF RunnerNext
<1>. QED BY <1>1, <1>2, RunnerInvariance, PTL DEF RunnerSpec

=============================================================================
