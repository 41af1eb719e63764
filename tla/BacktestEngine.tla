--------------------------- MODULE BacktestEngine ---------------------------
(***************************************************************************)
(* The bar loop of corridor/backtest/engine.py around the corridor         *)
(* machine.  A bar makes the machine act; the engine compares the book     *)
(* before and after, lets its execution gates refuse opened layers one by  *)
(* one (the historical chain and the paper spread gate, or the spread gate *)
(* and the synthetic chain), takes the control state back when a refused   *)
(* entry leaves nothing open, and books entry costs and realized results.  *)
(*                                                                         *)
(* Whether a layer passes depends on quotes and is chosen freely.  The     *)
(* variable toOpen of the machine is, once the gates have run, what the    *)
(* bar's list of actions still says was opened.                            *)
(***************************************************************************)
EXTENDS CorridorMachine

CONSTANT Gates        \* how many gates the configuration puts in a row

ASSUME GatesAssumption == Gates \in Nat

VARIABLES
  pc,         \* "bar": between two bars; "gate": the bar's layers are judged
  before,     \* the book when the last bar arrived
  gate,       \* the gate that judges
  awaiting,   \* the opened layers that it has not judged
  passed,     \* the opened layers that are not refused
  ledger      \* the layers with an entry cost whose result is not realized

engineVars == <<pc, before, gate, awaiting, passed, ledger>>
allVars == <<vars, engineVars>>

EngineInit ==
  /\ Init
  /\ pc = "bar" /\ before = {} /\ gate = 0
  /\ awaiting = {} /\ passed = {} /\ ledger = {}

\* The engine does not read the actions: it compares the book with its copy.
TakeBar ==
  /\ pc = "bar" /\ Next
  /\ pc' = "gate" /\ before' = layers /\ gate' = 0
  /\ awaiting' = {} /\ passed' = layers' \ before'
  /\ UNCHANGED ledger

StartGate ==
  /\ pc = "gate" /\ awaiting = {} /\ passed # {} /\ gate < Gates
  /\ gate' = gate + 1 /\ awaiting' = passed /\ passed' = {}
  /\ UNCHANGED <<vars, pc, before, ledger>>

\* The layers are judged in the order of their ids.
Judged(id) == pc = "gate" /\ id \in awaiting /\ \A other \in awaiting : id <= other

Keep(id) ==
  /\ Judged(id)
  /\ awaiting' = awaiting \ {id} /\ passed' = passed \cup {id}
  /\ UNCHANGED <<vars, pc, before, gate, ledger>>

\* Mutant: the control state is taken back only for an entry, not for a rebuild.
ForgetsRebuilds(id) == id = primary /\ id \in toOpen /\ layers = {id} /\ before = {}

\* _rollback_filtered_entry_state: the action of the refused layer was ENTER_PRIMARY or
\* REBUILT, and no layer is left.
TakesBack(id) == id = primary /\ id \in toOpen /\ layers = {id}

\* Mutants: the layer is refused but its action stays; but it stays in the book.
RefuseSilently(id) ==
  /\ Judged(id)
  /\ awaiting' = awaiting \ {id}
  /\ layers' = layers \ {id}
  /\ primary' = IF id = primary THEN NoLayer ELSE primary
  /\ IF TakesBack(id)
     THEN state' = "IDLE" /\ centered' = FALSE /\ drift' = 0
     ELSE UNCHANGED <<state, centered, drift>>
  /\ UNCHANGED <<nextId, lastRebuild, session, gapFiltered, lastEntry, lastTakeProfit,
                 now, toClose, toOpen, pc, before, gate, passed, ledger>>
RefuseOnPaper(id) ==
  /\ Judged(id)
  /\ awaiting' = awaiting \ {id}
  /\ toOpen' = toOpen \ {id}
  /\ UNCHANGED <<machineVars, now, toClose, pc, before, gate, passed, ledger>>

Refuse(id) ==
  /\ Judged(id)
  /\ awaiting' = awaiting \ {id}
  /\ toOpen' = toOpen \ {id}
  /\ layers' = layers \ {id}
  /\ primary' = IF id = primary THEN NoLayer ELSE primary
  /\ IF TakesBack(id)
     THEN state' = "IDLE" /\ centered' = FALSE /\ drift' = 0
     ELSE UNCHANGED <<state, centered, drift>>
  /\ UNCHANGED <<nextId, lastRebuild, session, gapFiltered, lastEntry, lastTakeProfit,
                 now, toClose, pc, before, gate, passed, ledger>>

\* The layers that were kept get their entry cost, those that are gone their result.
BookBar ==
  /\ pc = "gate" /\ awaiting = {} /\ (passed = {} \/ gate = Gates)
  /\ ledger' = (ledger \cup passed) \ (before \ layers)
  /\ pc' = "bar"
  /\ UNCHANGED <<vars, before, gate, awaiting, passed>>

EngineNext ==
  \/ TakeBar \/ StartGate \/ BookBar
  \/ \E id \in awaiting : Keep(id) \/ Refuse(id)

EngineSpec == EngineInit /\ [][EngineNext]_allVars

----------------------------------------------------------------------------
EngineTypeOK ==
  /\ pc \in {"bar", "gate"} /\ gate \in 0..Gates
  /\ before \in SUBSET (Nat \ {0}) /\ ledger \in SUBSET (Nat \ {0})
  /\ awaiting \in SUBSET (Nat \ {0}) /\ passed \in SUBSET (Nat \ {0})

\* After the gates have run, the machine carries layers exactly while it is centered,
\* drifting or about to rebuild (_rollback_filtered_entry_state).
GatedExposure == pc = "bar" => ExposureMatchesState

\* Between two bars the layers with an unrealized result are exactly the open ones, and
\* no result is ever realized for a layer that has no entry cost: a refused layer costs
\* nothing, and a closed one is settled once (CorridorBacktestEngine.run).
LedgerFollowsBook ==
  /\ pc = "bar" => ledger = layers
  /\ before \ layers \subseteq ledger \/ pc = "bar"

\* The actions of a bar, from which trades and metrics are computed, account for the
\* change of the book that the bar made, the refusals included (_pop_open_action).
ReportExplainsBook == pc = "bar" => layers = (before \ toClose) \cup toOpen

=============================================================================
