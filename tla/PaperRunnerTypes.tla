--------------------------- MODULE PaperRunnerTypes ---------------------------
(***************************************************************************)
(* Type correctness of PaperRunner, on top of the invariant of             *)
(* PaperRunnerProofs: its counter of ids is what makes the sets of layers  *)
(* finite, those of a bar as well as those of the recovery file.  With the *)
(* types, what parts positions and account: trades behind the runner's     *)
(* back, and nothing that it does itself.                                  *)
(***************************************************************************)
EXTENDS PaperRunnerProofs

\* What the recovery file holds beside the positions can be the state of a machine.
FileTyped ==
  /\ file.state \in States /\ file.centered \in BOOLEAN
  /\ file.lastEntry \in Int /\ file.lastTakeProfit \in Int

\* The variables that only the runner has.
RunnerTyped ==
  /\ paper \in BOOLEAN /\ bar \in Bars
  /\ halted \in BOOLEAN /\ unsure \in BOOLEAN /\ latest \in 0..Horizon
  /\ saved \in {"none", "saved", "torn"}
  /\ sent \subseteq [side : {"BUY", "SELL"}, contract : Contracts]
  /\ late \in 0..MaxLate /\ crashes \in 0..MaxCrashes

\* The primary is a layer, though not always the oldest one.
PrimaryOpen == primary \in layers \cup {NoLayer}

MachineTyped == TypeOK /\ PrimaryOpen

TInv == RInv /\ MachineTyped /\ RunnerTyped /\ FileTyped

----------------------------------------------------------------------------
(***************************************************************************)
(* The machine's variables.                                                *)
(***************************************************************************)
LEMMA RunnerIdsIssued == ASSUME RInv PROVE IdsIssued
BY DEF RInv, IdsBelowCounter, IdsIssued

LEMMA BarPrimary ==
  ASSUME TypeOK, PrimaryOpen, NEW b, NEW t, ProcessBar(b, t)
  PROVE  PrimaryOpen'
<1>. USE DEF PrimaryOpen
<1>1. CASE Keeps(b, t)
  BY <1>1, KeepsBookAsIs
<1>2. CASE SessionFlush(b, t) \/ AbortCorridor(b, t)
  BY <1>2 DEF SessionFlush, AbortCorridor, CloseAll
<1>3. CASE EnterCorridor(b, t) \/ Rebuild(b, t)
  <2>1. layers' = Fresh(EntryBatch) /\ primary' = nextId
    BY <1>3 DEF EnterCorridor, Rebuild, OpenEntryLayers, PrimaryOf
  <2>2. nextId \in Fresh(EntryBatch)
    BY BatchFits DEF TypeOK, Fresh
  <2>. QED BY <2>1, <2>2
<1>4. CASE StayCentered(b, t)
  BY <1>4 DEF StayCentered
<1>. QED BY <1>1, <1>2, <1>3, <1>4, BarStepKinds

LEMMA BarTyped ==
  ASSUME RInv, MachineTyped, NEW b \in Bars, NEW t \in Nat, ProcessBar(b, t)
  PROVE  MachineTyped'
BY RunnerIdsIssued, BarStepType, BarPrimary DEF MachineTyped

LEMMA ExitTyped ==
  ASSUME MachineTyped, NEW b \in Bars, NEW t \in Nat, ExitOnSignal(b, t)
  PROVE  MachineTyped'
<1>1. b.gap \in BOOLEAN
  BY BarType
<1>2. CASE SwallowBar(b, t)
  <2>1. now' \in Nat /\ session' \in Int /\ gapFiltered' \in BOOLEAN
    BY <1>1, <1>2, SessionType DEF SwallowBar, MachineTyped
  <2>. QED BY <1>2, <2>1 DEF SwallowBar, MachineTyped, PrimaryOpen, TypeOK
<1>3. CASE \E reason \in ProtectiveExits : FlattenPositions(reason, b.gap, t)
  <2>1. PICK reason \in ProtectiveExits : FlattenPositions(reason, b.gap, t)
    BY <1>3
  <2>2. TypeOK'
    BY <1>1, <2>1, FlattenType DEF MachineTyped
  <2>3. PrimaryOpen'
    BY <2>1 DEF FlattenPositions, CloseAll, PrimaryOpen
  <2>. QED BY <2>2, <2>3 DEF MachineTyped
<1>. QED BY <1>2, <1>3 DEF ExitOnSignal

\* What a restart takes from the recovery file.
LEMMA RestoreTyped ==
  ASSUME RInv, MachineTyped, FileTyped, BeginWithFile
  PROVE  MachineTyped'
<1>. DEFINE ps == file.positions
<1>1. /\ DOMAIN ps \subseteq Nat \ {0}
      /\ \A id \in DOMAIN ps : id \in Nat \ {0} /\ id < file.nextId
      /\ \A id \in DOMAIN ps : ps[id] \in Position
      /\ file.nextId \in Nat
  BY DEF RInv, FileIdsBelowCounter, Typed
<1>2. PrimaryPosition(ps) \in DOMAIN ps \cup {NoLayer}
  <2>. DEFINE primaries == {id \in DOMAIN ps : ps[id].primary}
  <2>1. CASE DOMAIN ps = {}
    BY <2>1 DEF PrimaryPosition
  <2>2. CASE DOMAIN ps # {}
    <3>1. DOMAIN ps \in SUBSET Nat /\ primaries \in SUBSET Nat
      BY <1>1
    <3>2. Min(DOMAIN ps) \in DOMAIN ps /\ (primaries # {} => Min(primaries) \in DOMAIN ps)
      BY <2>2, <3>1, MinBelongs
    <3>. QED BY <2>2, <3>2 DEF PrimaryPosition
  <2>. QED BY <2>1, <2>2
<1>3. RestoredLastEntry \in Int
  <2>1. DOMAIN ps # {} => PrimaryPosition(ps) \in DOMAIN ps
    BY <1>1, MinBelongs DEF PrimaryPosition
  <2>2. \A id \in DOMAIN ps : ps[id].day \in Int
    BY <1>1 DEF Position
  <2>3. file.lastEntry \in Int /\ lastEntry \in Int
    BY DEF FileTyped, MachineTyped, TypeOK
  <2>. QED BY <2>1, <2>2, <2>3 DEF RestoredLastEntry
<1>4. IsFiniteSet(DOMAIN ps)
  BY <1>1, BoundedFinite
<1>5. RestoredNextId \in Nat \ {0}
  BY RestoredCounter DEF RInv
<1>6. /\ layers' = DOMAIN ps /\ primary' = PrimaryPosition(ps)
      /\ state' = IF layers' = {} THEN file.state ELSE "ACTIVE_CENTERED"
      /\ centered' = (layers' # {} \/ file.centered)
      /\ nextId' = RestoredNextId /\ lastEntry' = RestoredLastEntry
      /\ lastTakeProfit' = IF file.lastTakeProfit # Never THEN file.lastTakeProfit
                           ELSE lastTakeProfit
      /\ now' = latest /\ toClose' = {} /\ toOpen' = {}
      /\ UNCHANGED <<drift, lastRebuild, session, gapFiltered>>
  BY DEF BeginWithFile, RestoreFile, Ready
<1>7. PrimaryOpen'
  BY <1>2, <1>6 DEF PrimaryOpen
<1>. HIDE DEF ps
<1>8. state' \in States /\ centered' \in BOOLEAN
  BY <1>6 DEF FileTyped, States
<1>9. lastEntry' \in Int /\ lastTakeProfit' \in Int /\ now' \in Nat
  BY <1>3, <1>6 DEF FileTyped, MachineTyped, TypeOK, RInv, Typed
<1>10. layers' \in SUBSET (Nat \ {0}) /\ IsFiniteSet(layers') /\ nextId' \in Nat \ {0}
  BY <1>1, <1>4, <1>5, <1>6
<1>11. primary' \in Nat
  BY <1>7, <1>10 DEF PrimaryOpen, NoLayer
<1>12. /\ toClose' \in SUBSET (Nat \ {0}) /\ toOpen' \in SUBSET (Nat \ {0})
       /\ UNCHANGED <<drift, lastRebuild, session, gapFiltered>>
  BY <1>6
<1>. QED BY <1>7, <1>8, <1>9, <1>10, <1>11, <1>12 DEF MachineTyped, TypeOK

LEMMA StopTyped == ASSUME Stop PROVE MachineTyped'
<1>1. IsFiniteSet({})
  BY FS_EmptySet
<1>2. Never \in Int /\ NoLayer \in Nat /\ 1 \in Nat \ {0} /\ 0 \in Nat
  BY DEF Never, NoLayer
<1>. QED BY <1>1, <1>2 DEF Stop, MachineTyped, PrimaryOpen, TypeOK, States

\* A layer that was not opened leaves the book, and the primary with it.
LEMMA RollbackTyped ==
  ASSUME MachineTyped, NEW id, Rollback(id), AfterOpen
  PROVE  MachineTyped'
<1>1. IsFiniteSet(layers')
  BY FS_Subset, layers \ {id} \in SUBSET layers DEF Rollback, MachineTyped, TypeOK
<1>2. state' \in States /\ centered' \in BOOLEAN /\ drift' \in Nat
  BY DEF Rollback, States
<1>3. primary' \in Nat /\ PrimaryOpen'
  BY DEF Rollback, MachineTyped, PrimaryOpen, TypeOK, NoLayer
<1>4. /\ layers' \subseteq layers /\ toOpen' \subseteq toOpen
      /\ UNCHANGED <<nextId, lastRebuild, session, gapFiltered, lastEntry, lastTakeProfit,
                     now, toClose>>
  BY DEF Rollback, AfterOpen
<1>. QED BY <1>1, <1>2, <1>3, <1>4 DEF MachineTyped, TypeOK

\* The steps that leave the machine alone.
LEMMA QuietTyped ==
  ASSUME MachineTyped, UNCHANGED <<machineVars, now>>,
         toClose' \in SUBSET (Nat \ {0}), toOpen' \in SUBSET (Nat \ {0})
  PROVE  MachineTyped'
BY DEF MachineTyped, PrimaryOpen, TypeOK, machineVars

LEMMA MachineStep ==
  ASSUME TInv, [RunnerNext]_allVars
  PROVE  MachineTyped'
<1>. USE DEF TInv
<1>1. /\ toClose \in SUBSET (Nat \ {0}) /\ toOpen \in SUBSET (Nat \ {0})
      /\ DOMAIN positions \in SUBSET (Nat \ {0}) /\ {} \in SUBSET (Nat \ {0})
  BY DEF MachineTyped, TypeOK, RInv, IdsBelowCounter
<1>2. CASE BeginWithFile
  BY <1>2, RestoreTyped
<1>3. CASE BeginWithoutFile
  <2>1. UNCHANGED <<machineVars, gapFiltered>> /\ now' = latest /\ toClose' = {} /\ toOpen' = {}
    BY <1>3 DEF BeginWithoutFile, Ready, machineVars
  <2>2. latest \in Nat
    BY DEF RInv, Typed
  <2>. QED BY <1>1, <2>1, <2>2 DEF MachineTyped, PrimaryOpen, TypeOK, machineVars
<1>4. CASE FailToStart \/ CrashAnywhere \/ CrashInOrder \/ CrashInSave
  BY <1>4, StopTyped DEF FailToStart, CrashAnywhere, CrashInOrder, CrashInSave, Crash
<1>5. CASE \E t \in (now + 1)..Horizon, b \in Bars :
             SeedBar(b, t) \/ FeedMachine(b, t) \/ ExitOnSignal(b, t)
  <2>1. PICK t \in (now + 1)..Horizon, b \in Bars :
               SeedBar(b, t) \/ FeedMachine(b, t) \/ ExitOnSignal(b, t)
    BY <1>5
  <2>2. t \in Nat
    BY <2>1, TimeAssumption DEF RInv, Typed
  <2>. QED BY <2>1, <2>2, BarTyped, ExitTyped DEF SeedBar, FeedMachine
<1>6. CASE HandleClose
  BY <1>1, <1>6, QuietTyped
  DEF HandleClose, SkipClose, RefuseQuote, PretendClose, CloseFills, CloseFails, AfterClose
<1>7. CASE SkipOpen \/ \E c \in Contracts : PretendOpen(c) \/ OpenFills(c)
  BY <1>1, <1>7, QuietTyped DEF SkipOpen, PretendOpen, OpenFills, AfterOpen
<1>8. CASE RefuseOpen \/ \E c \in Contracts : OpenFails(c)
  BY <1>8, RollbackTyped DEF RefuseOpen, OpenFails
<1>9. CASE EndPoll \/ IdlePoll \/ RetryCloses \/ EndRetry
  <2>1. UNCHANGED <<machineVars, now>> /\ toOpen' = toOpen
    BY <1>9 DEF EndPoll, IdlePoll, RetryCloses, EndRetry, vars
  <2>2. toClose' \subseteq toClose \cup DOMAIN positions
    BY <1>9, RefreshKeeps DEF EndPoll, IdlePoll, RetryCloses, EndRetry, vars, Due
  <2>. QED BY <1>1, <2>1, <2>2, QuietTyped
<1>10. CASE Start \/ (\E order \in sent : LateTrade(order)) \/ UNCHANGED allVars
  BY <1>1, <1>10, QuietTyped DEF Start, LateTrade, allVars, vars
<1>. QED
  BY <1>2, <1>3, <1>4, <1>5, <1>6, <1>7, <1>8, <1>9, <1>10 DEF RunnerNext, HandleOpen

----------------------------------------------------------------------------
(***************************************************************************)
(* The runner's variables and its recovery file.                           *)
(***************************************************************************)
\* A recovery file is only ever that of a machine, or the one before.
LEMMA FileStep ==
  ASSUME TInv, [RunnerNext]_allVars
  PROVE  FileTyped' /\ saved' \in {"none", "saved", "torn"}
<1>. USE DEF TInv, FileTyped, RunnerTyped
<1>1. CASE Save
  BY <1>1 DEF Save, MachineTyped, TypeOK
<1>2. CASE file' = file /\ saved' \in {saved, "torn"}
  BY <1>2
<1>3. RunnerNext /\ ~ (file' = file /\ saved' \in {saved, "torn"}) => Save
  BY DEF RunnerNext, Start, BeginWithFile, BeginWithoutFile, Ready, FailToStart,
    SeedBar, FeedMachine, ExitOnSignal, TakeBar,
    HandleClose, SkipClose, RefuseQuote, PretendClose, CloseFills, CloseFails, AfterClose,
    HandleOpen, SkipOpen, RefuseOpen, PretendOpen, OpenFills, OpenFails, AfterOpen,
    EndPoll, IdlePoll, RetryCloses, EndRetry,
    CrashAnywhere, CrashInOrder, CrashInSave, LateTrade, runnerVars, diskVars
<1>. QED BY <1>1, <1>2, <1>3 DEF allVars, runnerVars, diskVars

\* The slot of a bar and the counters of faults stay in their bounds.
LEMMA BoundsStep ==
  ASSUME TInv, [RunnerNext]_allVars
  PROVE  latest' \in 0..Horizon /\ late' \in 0..MaxLate /\ crashes' \in 0..MaxCrashes
<1>. USE DEF TInv, RunnerTyped
<1>1. Horizon \in Nat /\ MaxLate \in Nat /\ MaxCrashes \in Nat
  BY TimeAssumption, RunnerAssumption
<1>2. CASE Start
  BY <1>1, <1>2 DEF Start, accountVars
<1>3. CASE BeginWithFile \/ BeginWithoutFile
  BY <1>3 DEF BeginWithFile, BeginWithoutFile, Ready, accountVars
<1>4. CASE FailToStart \/ CrashAnywhere \/ CrashInOrder \/ CrashInSave
  <2>1. latest' = latest /\ late' = late
    BY <1>4 DEF FailToStart, CrashAnywhere, CrashInOrder, CrashInSave, Crash, Stop, accountVars
  <2>2. crashes' = crashes \/ (crashes < MaxCrashes /\ crashes' = crashes + 1)
    BY <1>4 DEF FailToStart, CrashAnywhere, CrashInOrder, CrashInSave, Crash
  <2>. QED BY <1>1, <2>1, <2>2
<1>5. CASE \E t \in (now + 1)..Horizon, b \in Bars :
             SeedBar(b, t) \/ FeedMachine(b, t) \/ ExitOnSignal(b, t)
  <2>1. PICK t \in (now + 1)..Horizon, b \in Bars :
               SeedBar(b, t) \/ FeedMachine(b, t) \/ ExitOnSignal(b, t)
    BY <1>5
  <2>2. t \in 0..Horizon
    BY <1>1, <2>1 DEF RInv, Typed
  <2>3. latest' \in {latest, t} /\ late' = late /\ crashes' = crashes
    BY <2>1 DEF SeedBar, FeedMachine, ExitOnSignal, TakeBar, runnerVars, accountVars
  <2>. QED BY <2>2, <2>3
<1>6. CASE HandleClose
  BY <1>6 DEF HandleClose, SkipClose, RefuseQuote, PretendClose, CloseFills, CloseFails, AfterClose
<1>7. CASE HandleOpen
  BY <1>7 DEF HandleOpen, SkipOpen, RefuseOpen, PretendOpen, OpenFills, OpenFails, AfterOpen
<1>8. CASE EndPoll \/ IdlePoll \/ RetryCloses \/ EndRetry
  BY <1>8 DEF EndPoll, IdlePoll, RetryCloses, EndRetry, accountVars
<1>9. CASE \E order \in sent : LateTrade(order)
  BY <1>1, <1>9 DEF LateTrade
<1>10. CASE UNCHANGED allVars
  BY <1>10 DEF allVars, runnerVars, accountVars
<1>. QED BY <1>2, <1>3, <1>4, <1>5, <1>6, <1>7, <1>8, <1>9, <1>10 DEF RunnerNext

\* Orders are sent for tracked positions, and for layers to be opened, only.
LEMMA OrderStep ==
  ASSUME TInv, [RunnerNext]_allVars
  PROVE  sent' \subseteq [side : {"BUY", "SELL"}, contract : Contracts]
<1>. USE DEF TInv, RunnerTyped
<1>1. \A c \in Contracts : /\ Order("SELL", c) \in [side : {"BUY", "SELL"}, contract : Contracts]
                           /\ Order("BUY", c) \in [side : {"BUY", "SELL"}, contract : Contracts]
  BY DEF Order
<1>2. \A id \in DOMAIN positions : positions[id].contract \in Contracts
  BY DEF RInv, Typed, Position
<1>3. \/ sent' = sent
      \/ \E c \in Contracts : sent' = sent \cup {Order("SELL", c)} \/ sent' = sent \cup {Order("BUY", c)}
  <2>1. CASE \/ Start \/ BeginWithFile \/ BeginWithoutFile \/ FailToStart
             \/ CrashAnywhere \/ CrashInSave
    BY <2>1 DEF Start, BeginWithFile, BeginWithoutFile, Ready, FailToStart,
                CrashAnywhere, CrashInSave, accountVars
  <2>2. CASE CrashInOrder
    BY <1>2, <2>2 DEF CrashInOrder
  <2>3. CASE \E t \in (now + 1)..Horizon, b \in Bars :
               SeedBar(b, t) \/ FeedMachine(b, t) \/ ExitOnSignal(b, t)
    BY <2>3 DEF SeedBar, FeedMachine, ExitOnSignal, TakeBar, runnerVars, accountVars
  <2>4. CASE HandleClose
    BY <1>2, <2>4 DEF HandleClose, SkipClose, RefuseQuote, PretendClose, CloseFills, CloseFails
  <2>5. CASE HandleOpen
    BY <2>5 DEF HandleOpen, SkipOpen, RefuseOpen, PretendOpen, OpenFills, OpenFails
  <2>6. CASE EndPoll \/ IdlePoll \/ RetryCloses \/ EndRetry
    BY <2>6 DEF EndPoll, IdlePoll, RetryCloses, EndRetry, accountVars
  <2>7. CASE (\E order \in sent : LateTrade(order)) \/ UNCHANGED allVars
    BY <2>7 DEF LateTrade, allVars, runnerVars, accountVars
  <2>. QED BY <2>1, <2>2, <2>3, <2>4, <2>5, <2>6, <2>7 DEF RunnerNext
<1>. HIDE DEF Order
<1>. QED BY <1>1, <1>3

LEMMA SwitchStep ==
  ASSUME TInv, [RunnerNext]_allVars
  PROVE  /\ paper' \in BOOLEAN /\ bar' \in Bars
         /\ halted' \in BOOLEAN /\ unsure' \in BOOLEAN
<1>. USE DEF TInv, RunnerTyped
<1>1. CASE Start
  BY <1>1, RunnerAssumption DEF Start
<1>2. CASE BeginWithFile \/ BeginWithoutFile
  <2>1. UNCHANGED <<paper, bar, halted>> /\ unsure' = (held # Tracked(positions'))
    BY <1>2 DEF BeginWithFile, BeginWithoutFile, Ready
  <2>. QED BY <2>1
<1>3. CASE FailToStart \/ CrashAnywhere \/ CrashInOrder \/ CrashInSave
  BY <1>3 DEF FailToStart, CrashAnywhere, CrashInOrder, CrashInSave, Crash, Stop
<1>4. CASE \E t \in (now + 1)..Horizon, b \in Bars :
             SeedBar(b, t) \/ FeedMachine(b, t) \/ ExitOnSignal(b, t)
  BY <1>4 DEF SeedBar, FeedMachine, ExitOnSignal, TakeBar, runnerVars, processVars
<1>5. CASE HandleClose
  BY <1>5 DEF HandleClose, SkipClose, RefuseQuote, PretendClose, CloseFills, CloseFails, AfterClose
<1>6. CASE HandleOpen
  BY <1>6 DEF HandleOpen, SkipOpen, RefuseOpen, PretendOpen, OpenFills, OpenFails, AfterOpen
<1>7. CASE EndPoll \/ IdlePoll \/ RetryCloses \/ EndRetry
  <2>1. /\ paper' = paper /\ bar' = bar
        /\ UNCHANGED <<halted, unsure>> \/ Refresh
    BY <1>7 DEF EndPoll, IdlePoll, RetryCloses, EndRetry
  <2>. QED BY <2>1 DEF Refresh
<1>8. CASE (\E order \in sent : LateTrade(order)) \/ UNCHANGED allVars
  BY <1>8 DEF LateTrade, allVars, runnerVars, processVars
<1>. QED BY <1>1, <1>2, <1>3, <1>4, <1>5, <1>6, <1>7, <1>8 DEF RunnerNext

----------------------------------------------------------------------------
LEMMA TypeInvariance == RunnerSpec => []TInv
<1>1. RunnerInit => TInv
  <2>. SUFFICES ASSUME RunnerInit PROVE TInv
    OBVIOUS
  <2>1. RInv /\ TypeOK
    BY RunnerInitInv, InitType DEF RunnerInit
  <2>2. PrimaryOpen /\ FileTyped
    BY DEF RunnerInit, Init, PrimaryOpen, FileTyped, States, Never
  <2>3. RunnerTyped
    <3>1. paper \in BOOLEAN /\ halted \in BOOLEAN /\ unsure \in BOOLEAN
      BY RunnerAssumption DEF RunnerInit
    <3>2. latest \in 0..Horizon /\ late \in 0..MaxLate /\ crashes \in 0..MaxCrashes
      BY RunnerAssumption DEF RunnerInit
    <3>3. bar \in Bars /\ saved = "none" /\ sent = {}
      BY DEF RunnerInit
    <3>. QED BY <3>1, <3>2, <3>3 DEF RunnerTyped
  <2>. QED BY <2>1, <2>2, <2>3 DEF TInv, MachineTyped
<1>2. TInv /\ [RunnerNext]_allVars => TInv'
  <2>. SUFFICES ASSUME TInv, [RunnerNext]_allVars PROVE TInv'
    OBVIOUS
  <2>1. RInv'
    BY RunnerStepInv DEF TInv
  <2>. QED BY <2>1, MachineStep, FileStep, BoundsStep, OrderStep, SwitchStep DEF TInv, RunnerTyped
<1>. QED BY <1>1, <1>2, PTL DEF RunnerSpec

\* Whatever is restored, refused, filled late or cut off by a crash, the machine's primary is
\* one of its layers or none, and every tracked position is of a contract and has a valid id.
THEOREM RunnerTypeCorrect == RunnerSpec => []RunnerTypeOK
<1>1. ASSUME TInv PROVE RunnerTypeOK
  <2>1. DOMAIN positions \subseteq Nat \ {0} /\ \A id \in DOMAIN positions : positions[id] \in Position
    BY <1>1 DEF TInv, RInv, Typed, IdsBelowCounter
  <2>2. pc \in {"down", "seeding", "ready", "bars", "retry"} /\ held \in [Contracts -> Int]
    BY <1>1 DEF TInv, RInv, Typed
  <2>. QED BY <1>1, <2>1, <2>2 DEF TInv, MachineTyped, PrimaryOpen, RunnerTyped, RunnerTypeOK
<1>. QED BY <1>1, TypeInvariance, PTL

----------------------------------------------------------------------------
(***************************************************************************)
(* The difference between the account and the tracked positions.           *)
(***************************************************************************)
LEMMA TrackedType ==
  ASSUME NEW ps, IsFiniteSet(DOMAIN ps)
  PROVE  Tracked(ps) \in [Contracts -> Nat]
<1>1. ASSUME NEW c \in Contracts
      PROVE  Cardinality({id \in DOMAIN ps : ps[id].contract = c}) \in Nat
  <2>. DEFINE P == {id \in DOMAIN ps : ps[id].contract = c}
  <2>1. IsFiniteSet(P)
    BY FS_Subset, P \in SUBSET DOMAIN ps
  <2>. QED BY <2>1, FS_CardinalityType
<1>. QED BY <1>1 DEF Tracked

\* An order that is filled and taken over moves both sides by one.
LEMMA BothMove ==
  ASSUME NEW h \in [Contracts -> Int], NEW t \in [Contracts -> Int], NEW c \in Contracts,
         NEW d \in Contracts
  PROVE  /\ [h EXCEPT ![c] = @ + 1][d] - [t EXCEPT ![c] = @ + 1][d] = h[d] - t[d]
         /\ [h EXCEPT ![c] = @ - 1][d] - [t EXCEPT ![c] = @ - 1][d] = h[d] - t[d]
<1>1. h[d] \in Int /\ t[d] \in Int
  OBVIOUS
<1>2. CASE c = d
  BY <1>1, <1>2
<1>3. CASE c # d
  BY <1>3
<1>. QED BY <1>2, <1>3

\* At most one position of a contract is confirmed as closed, and only one that makes up
\* the whole difference.
LEMMA ConfirmedCloses ==
  ASSUME IsFiniteSet(DOMAIN positions), DOMAIN positions \subseteq Nat, NEW c \in Contracts,
         NEW ps, ps = Restrict(positions, DOMAIN positions \ FlatConfirmed)
  PROVE  Tracked(ps)[c] = Tracked(positions)[c] \/ Tracked(ps)[c] = held[c]
<1>. DEFINE P == {id \in DOMAIN positions : positions[id].contract = c}
            Q == {id \in DOMAIN ps : ps[id].contract = c}
<1>1. /\ DOMAIN ps = DOMAIN positions \ FlatConfirmed
      /\ \A id \in DOMAIN ps : ps[id] = positions[id]
  BY DEF Restrict
<1>2. Tracked(positions)[c] = Cardinality(P) /\ Tracked(ps)[c] = Cardinality(Q)
  BY DEF Tracked
<1>3. Q = P \ FlatConfirmed
  BY <1>1
<1>4. CASE P \cap FlatConfirmed = {}
  <2>1. Q = P
    BY <1>3, <1>4
  <2>. QED BY <1>2, <2>1
<1>5. CASE P \cap FlatConfirmed # {}
  <2>1. PICK n \in P : n \in FlatConfirmed
    BY <1>5
  <2>2. held[c] = Tracked(positions)[c] - 1
    BY <2>1 DEF FlatConfirmed
  <2>3. ASSUME NEW m \in P, m \in FlatConfirmed PROVE m = n
    <3>1. m <= n /\ n <= m
      BY <2>1, <2>3 DEF FlatConfirmed
    <3>2. m \in Nat /\ n \in Nat
      BY <2>1
    <3>. QED BY <3>1, <3>2
  <2>4. Q = P \ {n}
    BY <1>3, <2>1, <2>3
  <2>5. IsFiniteSet(P) /\ n \in P
    BY <2>1, FS_Subset, P \in SUBSET DOMAIN positions
  <2>6. Cardinality(Q) = Cardinality(P) - 1
    <3>. HIDE DEF P, Q
    <3>. QED BY <2>4, <2>5, FS_RemoveElement
  <2>. QED BY <1>2, <2>2, <2>6
<1>. QED BY <1>4, <1>5

\* One step of the runner, for one contract.
LEMMA StepCloses ==
  ASSUME TInv, RunnerNext, Running, pc' # "down", paper, late' = late, NEW d \in Contracts
  PROVE  Surplus'[d] \in {0, Surplus[d]}
<1>. USE DEF accountVars, diskVars
<1>1. /\ held \in [Contracts -> Int] /\ IsFiniteSet(DOMAIN positions)
      /\ DOMAIN positions \subseteq Nat
      /\ \A id \in DOMAIN positions : positions[id] \in Position
  BY IdsFinite DEF TInv, RInv, Typed, IdsBelowCounter
<1>2. Tracked(positions) \in [Contracts -> Int]
  BY <1>1, TrackedType
<1>3. /\ Surplus[d] = held[d] - Tracked(positions)[d]
      /\ Surplus'[d] = held'[d] - Tracked(positions')[d]
  BY DEF Surplus
<1>4. ASSUME held' = held, Tracked(positions') = Tracked(positions)
      PROVE  Surplus'[d] \in {0, Surplus[d]}
  BY <1>3, <1>4
<1>5. CASE \/ Start \/ BeginWithFile \/ BeginWithoutFile \/ FailToStart
           \/ CrashAnywhere \/ CrashInOrder \/ CrashInSave
  BY <1>5 DEF Start, BeginWithFile, BeginWithoutFile, Ready, FailToStart, CrashAnywhere,
              CrashInOrder, CrashInSave, Crash, Stop, Running
<1>6. CASE \E t \in (now + 1)..Horizon, b \in Bars :
             SeedBar(b, t) \/ FeedMachine(b, t) \/ ExitOnSignal(b, t)
  <2>1. held' = held /\ positions' = positions
    BY <1>6 DEF SeedBar, runnerVars, processVars, FeedMachine, ExitOnSignal, TakeBar
  <2>. QED BY <1>4, <2>1
<1>7. CASE HandleClose
  <2>1. CASE SkipClose \/ RefuseQuote \/ PretendClose
    <3>1. held' = held /\ positions' = positions
      BY <2>1 DEF SkipClose, RefuseQuote, PretendClose
    <3>. QED BY <1>4, <3>1
  <2>2. CASE CloseFails
    <3>1. /\ held' = held
          /\ positions' = [positions EXCEPT ![NextClose].asked = "ordered"]
      BY <2>2 DEF CloseFails
    <3>2. /\ DOMAIN positions' = DOMAIN positions
          /\ \A id \in DOMAIN positions : positions'[id].contract = positions[id].contract
      BY <1>1, <3>1 DEF Position
    <3>3. Tracked(positions') = Tracked(positions)
      BY <3>2, TrackedSame
    <3>. QED BY <1>4, <3>1, <3>3
  <2>3. CASE CloseFills
    <3>. DEFINE n == NextClose  c == positions[n].contract
    <3>1. /\ n \in DOMAIN positions /\ held' = [held EXCEPT ![c] = @ - 1]
          /\ positions' = Restrict(positions, DOMAIN positions \ {n})
      BY <2>3 DEF CloseFills
    <3>2. c \in Contracts
      BY <1>1, <3>1 DEF Position
    <3>3. Tracked(positions') = [Tracked(positions) EXCEPT ![c] = @ - 1]
      BY <1>1, <3>1, <3>2, TrackedWithout
    <3>4. [held EXCEPT ![c] = @ - 1][d] - [Tracked(positions) EXCEPT ![c] = @ - 1][d]
            = held[d] - Tracked(positions)[d]
      <4>. HIDE DEF c
      <4>. QED BY <1>1, <1>2, <3>2, BothMove
    <3>. QED BY <1>3, <3>1, <3>3, <3>4
  <2>. QED BY <1>7, <2>1, <2>2, <2>3 DEF HandleClose
<1>8. CASE HandleOpen
  <2>1. CASE SkipOpen \/ RefuseOpen \/ \E c \in Contracts : PretendOpen(c) \/ OpenFails(c)
    <3>1. held' = held /\ positions' = positions
      BY <2>1 DEF SkipOpen, RefuseOpen, PretendOpen, OpenFails
    <3>. QED BY <1>4, <3>1
  <2>2. ASSUME NEW c \in Contracts, OpenFills(c) PROVE Surplus'[d] \in {0, Surplus[d]}
    <3>. DEFINE n == NextOpen
    <3>1. /\ n \notin DOMAIN positions /\ Track(c) /\ held' = [held EXCEPT ![c] = @ + 1]
      BY <2>2 DEF OpenFills, CanOpen
    <3>2. /\ DOMAIN positions' = DOMAIN positions \cup {n} /\ positions'[n].contract = c
          /\ \A id \in DOMAIN positions : positions'[id].contract = positions[id].contract
      BY <3>1 DEF Track
    <3>3. Tracked(positions') = [Tracked(positions) EXCEPT ![c] = @ + 1]
      <4>1. /\ IsFiniteSet(DOMAIN positions) /\ n \notin DOMAIN positions
            /\ DOMAIN positions' = DOMAIN positions \cup {n} /\ positions'[n].contract = c
            /\ \A id \in DOMAIN positions : positions'[id].contract = positions[id].contract
        BY <1>1, <3>1, <3>2
      <4>. HIDE DEF n
      <4>. QED BY <4>1, TrackedWith
    <3>4. [held EXCEPT ![c] = @ + 1][d] - [Tracked(positions) EXCEPT ![c] = @ + 1][d]
            = held[d] - Tracked(positions)[d]
      BY <1>1, <1>2, BothMove
    <3>. QED BY <1>3, <3>1, <3>3, <3>4
  <2>. QED BY <1>8, <2>1, <2>2 DEF HandleOpen
<1>9. CASE EndPoll \/ IdlePoll \/ RetryCloses \/ EndRetry
  <2>1. held' = held
    BY <1>9 DEF EndPoll, IdlePoll, RetryCloses, EndRetry
  <2>2. positions' = positions \/ positions' = Restrict(positions, DOMAIN positions \ FlatConfirmed)
    BY <1>9 DEF EndPoll, IdlePoll, RetryCloses, EndRetry, Refresh
  <2>3. CASE positions' = positions
    BY <1>4, <2>1, <2>3
  <2>4. CASE positions' = Restrict(positions, DOMAIN positions \ FlatConfirmed)
    <3>1. Tracked(positions')[d] = Tracked(positions)[d] \/ Tracked(positions')[d] = held[d]
      BY <1>1, <2>4, ConfirmedCloses
    <3>2. held[d] \in Int
      BY <1>1
    <3>. QED BY <1>3, <2>1, <3>1, <3>2
  <2>. QED BY <2>2, <2>3, <2>4
<1>10. CASE \E order \in sent : LateTrade(order)
  <2>1. late' = late + 1 /\ late \in Int
    BY <1>10 DEF LateTrade, TInv, RunnerTyped
  <2>. QED BY <2>1
<1>. QED BY <1>5, <1>6, <1>7, <1>8, <1>9, <1>10 DEF RunnerNext

\* Nothing that the runner does parts its positions from the account, whether or not it is
\* halted and whatever fails; a difference that is there stays until it is closed
\* (_open_position, _close_position, _refresh_positions_from_account).
THEOREM OnlyLateTradesDiverge == RunnerSpec => DifferenceOnlyCloses
<1>1. TInv /\ [RunnerNext]_allVars =>
        [Running /\ pc' # "down" /\ paper /\ late' = late =>
           \A c \in Contracts : Surplus'[c] \in {0, Surplus[c]}]_allVars
  BY StepCloses
<1>. QED BY <1>1, TypeInvariance, PTL DEF RunnerSpec, DifferenceOnlyCloses

\* Once halted, a process sends no order until it ends (_open_position, _close_position,
\* _retry_pending_session_closes).
THEOREM HaltStops == RunnerSpec => HaltStopsOrders
<1>1. ASSUME TInv, [RunnerNext]_allVars
      PROVE  [halted /\ pc' # "down" => /\ halted' /\ sent' = sent
                                        /\ late' = late => held' = held]_allVars
  <2>. SUFFICES ASSUME RunnerNext, halted, pc' # "down"
                PROVE  halted' /\ sent' = sent /\ (late' = late => held' = held)
    BY <1>1
  <2>. USE DEF accountVars
  <2>1. CASE \/ Start \/ BeginWithFile \/ BeginWithoutFile \/ FailToStart
             \/ CrashAnywhere \/ CrashInOrder \/ CrashInSave
    BY <2>1 DEF Start, BeginWithFile, BeginWithoutFile, Ready, FailToStart, Stop,
                CrashAnywhere, CrashInOrder, CrashInSave, Crash
  <2>2. CASE \E t \in (now + 1)..Horizon, b \in Bars :
               SeedBar(b, t) \/ FeedMachine(b, t) \/ ExitOnSignal(b, t)
    BY <2>2 DEF SeedBar, runnerVars, processVars, FeedMachine, ExitOnSignal, TakeBar
  <2>3. CASE HandleClose
    BY <2>3 DEF HandleClose, SkipClose, RefuseQuote, PretendClose, CloseFills, CloseFails
  <2>4. CASE HandleOpen
    BY <2>4 DEF HandleOpen, SkipOpen, RefuseOpen, CanOpen, PretendOpen, OpenFills, OpenFails
  <2>5. CASE EndPoll \/ IdlePoll \/ RetryCloses \/ EndRetry
    BY <2>5, RefreshKeeps DEF EndPoll, IdlePoll, RetryCloses, EndRetry
  <2>6. CASE \E order \in sent : LateTrade(order)
    <3>1. late' = late + 1 /\ late \in Int
      BY <1>1, <2>6 DEF LateTrade, TInv, RunnerTyped
    <3>2. late' # late
      BY <3>1
    <3>. QED BY <2>6, <3>2 DEF LateTrade
  <2>. QED BY <2>1, <2>2, <2>3, <2>4, <2>5, <2>6 DEF RunnerNext
<1>. QED BY <1>1, TypeInvariance, PTL DEF RunnerSpec, HaltStopsOrders

=============================================================================
