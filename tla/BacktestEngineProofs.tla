------------------------ MODULE BacktestEngineProofs ------------------------
(***************************************************************************)
(* Proofs about BacktestEngine, for every configuration of the machine and *)
(* any number of gates.                                                    *)
(***************************************************************************)
EXTENDS BacktestEngine, CorridorMachineProofs

\* While the layers of a bar are judged, the ledger still shows the book before the bar,
\* and the actions of the bar explain the book so far.
Judging ==
  /\ ledger = before
  /\ toClose \subseteq before
  /\ toOpen = awaiting \cup passed /\ awaiting \cap passed = {}
  /\ toOpen \cap before = {}
  /\ layers = (before \ toClose) \cup toOpen

\* The inductive invariant; it does not say that a corridor has layers, which the gates
\* can refuse.
EngineInv ==
  /\ TypeOK /\ EngineTypeOK
  /\ IdsIssued /\ WithinCap /\ IdleFlat
  /\ pc = "bar" => ledger = layers /\ ReportExplainsBook
  /\ pc = "gate" => Judging

----------------------------------------------------------------------------
(***************************************************************************)
(* A step of the machine, without its invariants that the gates break.     *)
(***************************************************************************)
LEMMA BarStepFlat ==
  ASSUME TypeOK, IdsIssued, WithinCap, IdleFlat, NEW bar \in Bars, NEW t \in Nat,
         ProcessBar(bar, t)
  PROVE  IdleFlat' /\ (ExposureMatchesState => ExposureMatchesState')
<1>. USE DEF IdleFlat, ExposureMatchesState
<1>1. CASE Keeps(bar, t)
  <2>1. layers' = layers
    BY <1>1, KeepsBookAsIs
  <2>. QED
    BY <1>1, <2>1
    DEF Keeps, HoldOvernight, Holding, StayAborted, StayIdle, RangeReturned, StartDrift,
        ResolveDrift, RequestRebuild, KeepDrifting, AwaitCenter
<1>2. CASE SessionFlush(bar, t) \/ AbortCorridor(bar, t)
  BY <1>2 DEF SessionFlush, AbortCorridor, CloseAll
<1>3. CASE EnterCorridor(bar, t) \/ Rebuild(bar, t)
  <2>1. OpenEntryLayers(t)
    BY <1>3 DEF EnterCorridor, Rebuild
  <2>2. layers' # {} /\ state' = "ACTIVE_CENTERED"
    BY <2>1, EntryType DEF OpenEntryLayers
  <2>. QED BY <2>2
<1>4. CASE StayCentered(bar, t)
  <2>1. PICK added \in Nat : layers' = layers \cup Fresh(added)
    BY <1>4, CenteredJoins
  <2>2. state = "ACTIVE_CENTERED" /\ state' = state
    BY <1>4 DEF StayCentered
  <2>. QED BY <2>1, <2>2
<1>. QED BY <1>1, <1>2, <1>3, <1>4, BarStepKinds

LEMMA MachineStep ==
  ASSUME TypeOK, IdsIssued, WithinCap, IdleFlat, Next
  PROVE  /\ TypeOK' /\ IdsIssued' /\ WithinCap' /\ IdleFlat'
         /\ ExposureMatchesState => ExposureMatchesState'
<1>1. PICK t \in Nat : \/ \E bar \in Bars : ProcessBar(bar, t)
                       \/ PrimaryExit(t) \/ LayerExits(t)
  BY NextKinds
<1>2. ASSUME NEW bar \in Bars, ProcessBar(bar, t)
      PROVE  /\ TypeOK' /\ IdsIssued' /\ WithinCap' /\ IdleFlat'
             /\ ExposureMatchesState => ExposureMatchesState'
  BY <1>2, BarStepType, BarStepBook, BarStepFlat
<1>3. CASE PrimaryExit(t) \/ LayerExits(t)
  <2>1. TypeOK' /\ IdsIssued' /\ WithinCap'
    BY <1>3, ExitStepType, ExitStepBook
  <2>2. IdleFlat' /\ ExposureMatchesState'
    BY <1>3 DEF PrimaryExit, LayerExits, FlattenPositions, CloseLayers, CloseAll, StateWithout,
                IdleFlat, ExposureMatchesState
  <2>. QED BY <2>1, <2>2
<1>. QED BY <1>1, <1>2, <1>3

----------------------------------------------------------------------------
(***************************************************************************)
(* The inductive invariant.                                                *)
(***************************************************************************)
LEMMA EngineInit_Inv == EngineInit => EngineInv
<1>. SUFFICES ASSUME EngineInit PROVE EngineInv
  OBVIOUS
<1>1. IInv
  BY InvInit DEF EngineInit
<1>2. TypeOK /\ IdsIssued /\ WithinCap /\ IdleFlat
  BY <1>1 DEF IInv, ExposureMatchesState, IdleFlat
<1>3. EngineTypeOK
  BY GatesAssumption DEF EngineInit, EngineTypeOK
<1>4. pc = "bar" /\ ledger = layers /\ ReportExplainsBook
  BY DEF EngineInit, Init, ReportExplainsBook
<1>. QED BY <1>2, <1>3, <1>4 DEF EngineInv

LEMMA TakeBarInv ==
  ASSUME EngineInv, TakeBar
  PROVE  EngineInv'
<1>1. TypeOK /\ IdsIssued /\ WithinCap /\ IdleFlat /\ EngineTypeOK /\ ledger = layers
  BY DEF EngineInv, TakeBar
<1>2. TypeOK' /\ IdsIssued' /\ WithinCap' /\ IdleFlat'
  BY <1>1, MachineStep DEF TakeBar
<1>3. Explained
  BY <1>1, StepExplained DEF TakeBar
<1>4. layers' \in SUBSET (Nat \ {0}) /\ layers \in SUBSET (Nat \ {0})
  BY <1>1, <1>2 DEF TypeOK
<1>5. EngineTypeOK'
  BY <1>1, <1>4, GatesAssumption DEF EngineTypeOK, TakeBar
<1>6. toOpen' \cap layers = {}
  <2>1. \A id \in layers : id < nextId /\ id \in Nat /\ nextId \in Nat
    BY <1>1 DEF IdsIssued, TypeOK
  <2>2. \A id \in toOpen' : id >= nextId
    BY <1>3 DEF Explained
  <2>3. \A id \in layers : ~ (id >= nextId)
    BY <2>1
  <2>. QED BY <2>2, <2>3
<1>7. Judging'
  BY <1>1, <1>3, <1>6 DEF Judging, Explained, TakeBar
<1>. QED BY <1>2, <1>5, <1>7 DEF EngineInv, TakeBar

LEMMA StartGateInv ==
  ASSUME EngineInv, StartGate
  PROVE  EngineInv'
<1>1. Judging
  BY DEF EngineInv, StartGate
<1>2. EngineTypeOK'
  BY GatesAssumption DEF EngineInv, EngineTypeOK, StartGate
<1>3. Judging'
  BY <1>1 DEF Judging, StartGate, vars, machineVars
<1>4. TypeOK' /\ IdsIssued' /\ WithinCap' /\ IdleFlat'
  BY DEF EngineInv, StartGate, vars, machineVars, TypeOK, IdsIssued, WithinCap, IdleFlat
<1>. QED BY <1>2, <1>3, <1>4 DEF EngineInv, StartGate

LEMMA KeepInv ==
  ASSUME EngineInv, NEW id, Keep(id)
  PROVE  EngineInv'
<1>1. Judging /\ id \in awaiting /\ pc = "gate"
  BY DEF EngineInv, Keep, Judged
<1>2. EngineTypeOK'
  BY <1>1 DEF EngineInv, EngineTypeOK, Keep
<1>3. Judging'
  BY <1>1 DEF Judging, Keep, vars, machineVars
<1>4. TypeOK' /\ IdsIssued' /\ WithinCap' /\ IdleFlat'
  BY DEF EngineInv, Keep, vars, machineVars, TypeOK, IdsIssued, WithinCap, IdleFlat
<1>. QED BY <1>1, <1>2, <1>3, <1>4 DEF EngineInv, Keep

LEMMA RefuseInv ==
  ASSUME EngineInv, NEW id, Refuse(id)
  PROVE  EngineInv'
<1>1. Judging /\ id \in awaiting /\ pc = "gate" /\ pc' = "gate"
  BY DEF EngineInv, Refuse, Judged
<1>2. TypeOK /\ IdsIssued /\ WithinCap /\ IdleFlat /\ EngineTypeOK
  BY DEF EngineInv
<1>3. EngineTypeOK'
  BY <1>1, <1>2 DEF EngineTypeOK, Refuse
<1>4. Judging'
  <2>1. id \in toOpen /\ id \notin before /\ id \notin passed
    BY <1>1 DEF Judging
  <2>. QED BY <1>1, <2>1 DEF Judging, Refuse
<1>5. layers' = layers \ {id}
  BY DEF Refuse
<1>6. IsFiniteSet(layers') /\ Cardinality(layers') <= Cardinality(layers)
  BY <1>2, <1>5, FS_Subset DEF TypeOK
<1>7. Cardinality(layers) \in Nat /\ Cardinality(layers') \in Nat
  BY <1>2, <1>6, FS_CardinalityType DEF TypeOK
<1>8. TypeOK'
  <2>1. state' \in States /\ drift' \in Nat /\ centered' \in BOOLEAN
    <3>1. CASE TakesBack(id)
      <4>1. state' = "IDLE" /\ drift' = 0
        BY <3>1 DEF Refuse
      <4>2. centered' = FALSE
        BY <3>1, Zenon DEF Refuse
      <4>. QED BY <4>1, <4>2 DEF States
    <3>2. CASE ~ TakesBack(id)
      BY <1>2, <3>2 DEF Refuse, TypeOK
    <3>. QED BY <3>1, <3>2
  <2>2. primary' \in Nat
    BY <1>2 DEF Refuse, TypeOK, NoLayer
  <2>3. toOpen' \in SUBSET (Nat \ {0}) /\ layers' \in SUBSET (Nat \ {0})
    BY <1>2 DEF Refuse, TypeOK
  <2>. QED BY <1>2, <1>6, <2>1, <2>2, <2>3 DEF Refuse, TypeOK
<1>9. IdsIssued' /\ WithinCap'
  BY <1>2, <1>5, <1>6, <1>7, BatchFits DEF IdsIssued, WithinCap, Refuse
<1>10. IdleFlat'
  BY <1>2, <1>5 DEF IdleFlat, Refuse, TakesBack
<1>. QED BY <1>1, <1>3, <1>4, <1>8, <1>9, <1>10 DEF EngineInv

LEMMA BookBarInv ==
  ASSUME EngineInv, BookBar
  PROVE  EngineInv'
<1>1. Judging /\ toOpen = passed
  BY DEF EngineInv, BookBar, Judging
<1>2. EngineTypeOK'
  BY DEF EngineInv, EngineTypeOK, BookBar
<1>3. ledger' = layers' /\ ReportExplainsBook'
  BY <1>1 DEF Judging, BookBar, ReportExplainsBook, vars, machineVars
<1>4. TypeOK' /\ IdsIssued' /\ WithinCap' /\ IdleFlat'
  BY DEF EngineInv, BookBar, vars, machineVars, TypeOK, IdsIssued, WithinCap, IdleFlat
<1>. QED BY <1>2, <1>3, <1>4 DEF EngineInv, BookBar

LEMMA EngineStep == EngineInv /\ [EngineNext]_allVars => EngineInv'
<1>1. ASSUME EngineInv, EngineNext PROVE EngineInv'
  BY <1>1, TakeBarInv, StartGateInv, KeepInv, RefuseInv, BookBarInv DEF EngineNext
<1>2. ASSUME EngineInv, UNCHANGED allVars PROVE EngineInv'
  <2>1. UNCHANGED vars /\ UNCHANGED engineVars
    BY <1>2 DEF allVars
  <2>2. TypeOK' /\ IdsIssued' /\ WithinCap' /\ IdleFlat'
    BY <1>2, <2>1 DEF EngineInv, vars, machineVars, TypeOK, IdsIssued, WithinCap, IdleFlat
  <2>3. EngineTypeOK' /\ (Judging => Judging') /\ (ReportExplainsBook => ReportExplainsBook')
    BY <1>2, <2>1 DEF EngineInv, EngineTypeOK, engineVars, Judging, ReportExplainsBook,
                      vars, machineVars
  <2>4. pc' = pc /\ ledger' = ledger /\ layers' = layers
    BY <2>1 DEF vars, machineVars, engineVars
  <2>. QED BY <1>2, <2>2, <2>3, <2>4 DEF EngineInv
<1>. QED BY <1>1, <1>2

LEMMA EngineInvariance == EngineSpec => []EngineInv
BY EngineInit_Inv, EngineStep, PTL DEF EngineSpec

----------------------------------------------------------------------------
(***************************************************************************)
(* The theorems.                                                           *)
(***************************************************************************)
\* Around the engine and its gates, too, the variables of the machine keep their types
\* and the book stays within max_active_butterfly_layers.
THEOREM EngineTypes == EngineSpec => [](TypeOK /\ EngineTypeOK /\ WithinCap)
<1>1. EngineInv => TypeOK /\ EngineTypeOK /\ WithinCap
  BY DEF EngineInv
<1>. QED BY <1>1, EngineInvariance, PTL

\* Whatever the gates refuse, the layers with an unrealized result are the open ones, and
\* a result is realized only for a layer that was bought.
THEOREM LedgerIsTheBook == EngineSpec => []LedgerFollowsBook
<1>1. EngineInv => LedgerFollowsBook
  BY DEF EngineInv, EngineTypeOK, LedgerFollowsBook, Judging
<1>. QED BY <1>1, EngineInvariance, PTL

\* Whatever the gates refuse, the actions of a bar account for what it changed.
THEOREM ReportIsComplete == EngineSpec => []ReportExplainsBook
<1>1. EngineInv => ReportExplainsBook
  BY DEF EngineInv, EngineTypeOK, ReportExplainsBook
<1>. QED BY <1>1, EngineInvariance, PTL

\* A refused layer that was the only one opened is the primary: a bar that opens a single
\* layer beside no other has entered or rebuilt the corridor.
LoneEntry ==
  pc = "gate" /\ toOpen # {} /\ before \subseteq toClose => toOpen = {primary}

LEMMA SingleEntry ==
  ASSUME EngineInv, EntryBatch = 1, ExposureMatchesState, TakeBar
  PROVE  ExposureMatchesState' /\ LoneEntry'
<1>1. TypeOK /\ IdsIssued /\ WithinCap /\ IdleFlat
  BY DEF EngineInv
<1>2. PICK t \in Nat : \/ \E bar \in Bars : ProcessBar(bar, t)
                       \/ PrimaryExit(t) \/ LayerExits(t)
  BY <1>1, NextKinds DEF TakeBar
<1>3. ExposureMatchesState' /\ before' = layers
  BY <1>1, MachineStep DEF TakeBar
<1>4. ASSUME NEW bar, Keeps(bar, t) PROVE LoneEntry'
  BY <1>4, KeepsBookAsIs DEF LoneEntry
<1>5. ASSUME NEW bar, SessionFlush(bar, t) \/ AbortCorridor(bar, t) PROVE LoneEntry'
  BY <1>5 DEF SessionFlush, AbortCorridor, LoneEntry
<1>6. ASSUME NEW bar, EnterCorridor(bar, t) \/ Rebuild(bar, t) PROVE LoneEntry'
  <2>1. toOpen' = Fresh(1) /\ primary' = nextId
    BY <1>6 DEF EnterCorridor, Rebuild, OpenEntryLayers, PrimaryOf
  <2>2. Fresh(1) = {nextId}
    BY <1>1 DEF Fresh, TypeOK
  <2>. QED BY <2>1, <2>2 DEF LoneEntry
<1>7. ASSUME NEW bar, StayCentered(bar, t) PROVE LoneEntry'
  <2>1. PICK added \in Nat : /\ toOpen' = Fresh(added) /\ toClose' = {}
                             /\ layers = {} => added = 0
    BY <1>1, <1>7, CenteredJoins
  <2>2. layers # {}
    BY <1>7 DEF StayCentered, ExposureMatchesState
  <2>3. ~ (before' \subseteq toClose')
    BY <1>3, <2>1, <2>2
  <2>. QED BY <2>3 DEF LoneEntry
<1>8. ASSUME PrimaryExit(t) \/ LayerExits(t) PROVE LoneEntry'
  BY <1>1, <1>8, ExitStepBook DEF LoneEntry
<1>. QED BY <1>2, <1>3, <1>4, <1>5, <1>6, <1>7, <1>8, BarStepKinds

LEMMA SingleRefusal ==
  ASSUME EngineInv, ExposureMatchesState, LoneEntry, NEW id, Refuse(id)
  PROVE  ExposureMatchesState' /\ LoneEntry'
<1>1. Judging /\ pc = "gate" /\ id \in toOpen
  BY DEF EngineInv, Refuse, Judged, Judging
<1>2. layers' = layers \ {id} /\ toOpen' = toOpen \ {id} /\ before' = before /\ toClose' = toClose
  BY DEF Refuse
<1>3. LoneEntry'
  BY <1>1, <1>2 DEF LoneEntry
<1>4. CASE layers = {id}
  <2>1. before \subseteq toClose
    BY <1>1, <1>4 DEF Judging
  <2>2. TakesBack(id)
    BY <1>1, <1>4, <2>1 DEF LoneEntry, TakesBack
  <2>3. layers' = {} /\ state' = "IDLE"
    BY <1>2, <1>4, <2>2 DEF Refuse
  <2>. QED BY <1>3, <2>3 DEF ExposureMatchesState
<1>5. CASE layers # {id}
  <2>1. id \in layers
    BY <1>1 DEF Judging
  <2>2. layers # {} /\ layers' # {}
    BY <1>2, <1>5, <2>1
  <2>3. state' = state
    BY <1>5 DEF Refuse, TakesBack
  <2>. QED BY <1>3, <2>2, <2>3 DEF ExposureMatchesState
<1>. QED BY <1>4, <1>5

\* When an entry opens a single layer, the control state and the book agree after the
\* gates as well: a refused entry or rebuild leaves an idle machine, a refused addition a
\* centered one.  A ladder of several layers does not have this property.
THEOREM GatesKeepExposure ==
  ASSUME EntryBatch = 1
  PROVE  EngineSpec => []GatedExposure
<1>. DEFINE Exposure == EngineInv /\ ExposureMatchesState /\ LoneEntry
<1>1. EngineInit => ExposureMatchesState /\ LoneEntry
  BY InvInit DEF EngineInit, IInv, LoneEntry
<1>2. ASSUME Exposure, EngineNext PROVE ExposureMatchesState' /\ LoneEntry'
  <2>1. CASE TakeBar
    BY <1>2, <2>1, SingleEntry
  <2>2. CASE StartGate \/ BookBar \/ \E id \in awaiting : Keep(id)
    <3>1. UNCHANGED vars
      BY <2>2 DEF StartGate, BookBar, Keep
    <3>2. before' = before /\ (pc' = pc \/ pc' = "bar")
      BY <2>2 DEF StartGate, BookBar, Keep
    <3>. QED BY <1>2, <3>1, <3>2 DEF ExposureMatchesState, LoneEntry, vars, machineVars
  <2>3. CASE \E id \in awaiting : Refuse(id)
    BY <1>2, <2>3, SingleRefusal
  <2>. QED BY <1>2, <2>1, <2>2, <2>3 DEF EngineNext
<1>3. ASSUME Exposure, UNCHANGED allVars PROVE ExposureMatchesState' /\ LoneEntry'
  <2>1. UNCHANGED vars /\ UNCHANGED engineVars
    BY <1>3 DEF allVars
  <2>. QED BY <1>3, <2>1 DEF ExposureMatchesState, LoneEntry, vars, machineVars, engineVars
<1>4. Exposure /\ [EngineNext]_allVars => Exposure'
  BY <1>2, <1>3, EngineStep
<1>5. Exposure => GatedExposure
  BY DEF GatedExposure
<1>6. EngineInit => Exposure
  BY <1>1, EngineInit_Inv
<1>. HIDE DEF Exposure
<1>. QED BY <1>4, <1>5, <1>6, PTL DEF EngineSpec

\* However the gates refuse, layers that stay open get one batch of additions per
\* session: a batch that is refused as a whole still counts.
THEOREM EngineOneBatch == EngineSpec => OneBatchPerSession
<1>1. ASSUME EngineInv, TakeBar PROVE OneBatch
  BY <1>1, StepBatch DEF EngineInv, TakeBar
<1>2. ASSUME StartGate \/ BookBar \/ \E id \in awaiting : Keep(id) \/ Refuse(id)
      PROVE  now' = now
  BY <1>2 DEF StartGate, BookBar, Keep, Refuse, vars
<1>3. EngineInv /\ [EngineNext]_allVars => [now' # now => OneBatch]_vars
  BY <1>1, <1>2 DEF EngineNext, allVars
<1>. QED BY <1>3, EngineInvariance, PTL DEF EngineSpec, OneBatchPerSession, OneBatch

\* The engine with its gates keeps the book of LayerBook: a refusal is a close.
THEOREM EngineKeepsBook == EngineSpec => KeepsBook
<1>1. EngineInit => Book!Init
  BY DEF EngineInit, Init, Book!Init
<1>2. ASSUME UNCHANGED vars PROVE UNCHANGED Book!bookVars
  BY <1>2 DEF vars, machineVars, Book!bookVars
<1>3. ASSUME EngineInv, TakeBar PROVE Book!Next \/ UNCHANGED Book!bookVars
  BY <1>3, StepKeepsBook DEF EngineInv, TakeBar
<1>4. ASSUME EngineInv, NEW id, Refuse(id) PROVE Book!Next
  <2>1. layers \cap {id} \in SUBSET layers
    OBVIOUS
  <2>2. Book!Close(layers \cap {id})
    BY <1>4 DEF Refuse, Book!Close
  <2>. QED BY <2>1, <2>2 DEF Book!Next
<1>5. ASSUME NEW id, StartGate \/ Keep(id) \/ BookBar PROVE UNCHANGED vars
  BY <1>5 DEF StartGate, Keep, BookBar
<1>6. UNCHANGED allVars => UNCHANGED vars
  BY DEF allVars
<1>7. EngineInv /\ [EngineNext]_allVars => [Book!Next]_(Book!bookVars)
  BY <1>2, <1>3, <1>4, <1>5, <1>6 DEF EngineNext
<1>. QED BY <1>1, <1>7, EngineInvariance, PTL DEF EngineSpec, KeepsBook, Book!Spec

=============================================================================
