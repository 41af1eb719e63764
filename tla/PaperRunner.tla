----------------------------- MODULE PaperRunner -----------------------------
(***************************************************************************)
(* The paper runner (corridor/execution/paper.py) around the corridor      *)
(* machine: it seeds the machine from history, restores the positions of   *)
(* its recovery file, and in each poll feeds the machine the new bars,     *)
(* carries out the machine's actions one by one as orders, compares its    *)
(* positions with the account and writes the recovery file.                *)
(*                                                                         *)
(* The machine's variables are those of CorridorMachine; toClose and       *)
(* toOpen are the actions of the bar that are still to be carried out,     *)
(* closes before opens and in the order of the layer ids.  An order        *)
(* behaves as OrderAttempt says.  Every layer is one butterfly; the        *)
(* account holds butterflies of a few contracts, so that two layers may    *)
(* share one.  The smoke sleeve is left out.                               *)
(***************************************************************************)
EXTENDS CorridorMachine, Functions, FiniteSetsExt

CONSTANTS
  Contracts,    \* the butterflies that can be selected
  Modes,        \* whether a process is started with paper_execution, or for a dry run
  StartsFlat,   \* start_flat
  SeedSlots,    \* bars that exist before the first start
  MaxLate,      \* bounds the trades of orders that were given up
  MaxCrashes,   \* bounds the stops of the process
  MaxFaults     \* bounds the two together

ASSUME RunnerAssumption ==
  /\ Modes \subseteq BOOLEAN /\ StartsFlat \in BOOLEAN
  /\ SeedSlots \in 0..Horizon /\ MaxLate \in Nat /\ MaxCrashes \in Nat /\ MaxFaults \in Nat

VARIABLES
  paper,       \* paper_execution of the process
  pc,          \* "down", "seeding", "ready" between polls, "bars", "retry"
  bar,         \* the bar whose actions are carried out
  positions,   \* the tracked positions, by layer id; asked: whether a close was asked for
  halted,      \* execution_halted_reason is set
  unsure,      \* the account may differ from the positions: not compared since it changed
  latest,      \* the slot of the last bar that exists
  saved, file, \* whether there is a recovery file, and what it holds
  held,        \* butterflies in the account, by contract
  sent,        \* the orders ever sent
  late, crashes

processVars == <<paper, pc, bar, positions, halted, unsure>>
accountVars == <<held, sent, late>>
diskVars == <<saved, file>>
runnerVars == <<processVars, accountVars, diskVars, latest, crashes>>
allVars == <<vars, runnerVars>>

Tracked(ps) == [c \in Contracts |-> Cardinality({id \in DOMAIN ps : ps[id].contract = c})]
Flat == [c \in Contracts |-> 0]
NoPositions == [id \in {} |-> FALSE]

\* _primary_position: the oldest position of kind PRIMARY, or else the oldest one.
PrimaryPosition(ps) ==
  LET primaries == {id \in DOMAIN ps : ps[id].primary} IN
  IF DOMAIN ps = {} THEN NoLayer
  ELSE Min(IF primaries = {} THEN DOMAIN ps ELSE primaries)

Running == pc \in {"ready", "bars", "retry"}

RunnerInit ==
  /\ Init
  /\ paper \in Modes /\ pc = "down" /\ bar \in Bars
  /\ positions = NoPositions /\ halted = FALSE /\ unsure = FALSE
  /\ latest = SeedSlots
  /\ saved = "none"
  /\ file = [positions |-> NoPositions, state |-> "IDLE", centered |-> FALSE, nextId |-> 1,
             lastEntry |-> Never, lastTakeProfit |-> Never]
  /\ held = Flat /\ sent = {} /\ late = 0 /\ crashes = 0

----------------------------------------------------------------------------
(***************************************************************************)
(* Starting: run() up to its loop.  A process that is down has lost its    *)
(* machine and its positions.                                              *)
(***************************************************************************)
Stop ==
  /\ state' = "IDLE" /\ layers' = {} /\ primary' = NoLayer /\ nextId' = 1
  /\ drift' = 0 /\ centered' = FALSE /\ lastRebuild' = Never
  /\ session' = Never /\ gapFiltered' = FALSE
  /\ lastEntry' = Never /\ lastTakeProfit' = Never
  /\ now' = 0 /\ toClose' = {} /\ toOpen' = {}
  /\ pc' = "down" /\ positions' = NoPositions /\ halted' = FALSE /\ unsure' = FALSE
  /\ UNCHANGED <<paper, bar, latest>>

Start ==
  /\ pc = "down"
  /\ paper' \in Modes /\ pc' = "seeding" /\ bar' \in Bars /\ latest' \in latest..Horizon
  /\ UNCHANGED <<vars, positions, halted, unsure, accountVars, diskVars, crashes>>

\* seed_from_history replays the bars with orders forbidden.  The regime and the center
\* are those of the whole history for every bar; only the price moves.
SameView(b) ==
  [b EXCEPT !.distance = 0, !.gap = FALSE] = [bar EXCEPT !.distance = 0, !.gap = FALSE]

SeedBar(b, t) ==
  /\ pc = "seeding" /\ ~ StartsFlat /\ t <= latest
  /\ SameView(b)
  /\ ProcessBar(b, t)
  /\ UNCHANGED runnerVars

\* Mutant: the counter of layer ids is not moved past the restored layers.
RestartedIds == IF DOMAIN file.positions = {} THEN file.nextId ELSE 1

RestoredNextId == IF DOMAIN file.positions = {} THEN file.nextId ELSE Max(DOMAIN file.positions) + 1

\* The session of the last entry: without a recorded take-profit the session in which the
\* primary was opened replaces it.
RestoredLastEntry ==
  IF file.lastTakeProfit = Never /\ DOMAIN file.positions # {}
    THEN file.positions[PrimaryPosition(file.positions)].day
  ELSE IF file.lastEntry # Never THEN file.lastEntry ELSE lastEntry

\* _restore_recovery_state
RestoreFile ==
  /\ positions' = file.positions
  /\ layers' = DOMAIN file.positions /\ primary' = PrimaryPosition(file.positions)
  /\ state' = IF layers' = {} THEN file.state ELSE "ACTIVE_CENTERED"
  /\ centered' = (layers' # {} \/ file.centered)
  /\ nextId' = RestoredNextId
  /\ lastEntry' = RestoredLastEntry
  /\ lastTakeProfit' = IF file.lastTakeProfit # Never THEN file.lastTakeProfit ELSE lastTakeProfit

\* _guard_startup_account_state
GuardPasses(ps) == paper => held = Flat \/ held = Tracked(ps)

Ready ==
  /\ pc = "seeding" /\ pc' = "ready"
  /\ GuardPasses(positions')
  /\ unsure' = (held # Tracked(positions'))
  /\ now' = latest /\ toClose' = {} /\ toOpen' = {}
  /\ UNCHANGED <<drift, lastRebuild, session, gapFiltered, paper, bar, halted,
                 accountVars, diskVars, latest, crashes>>

BeginWithFile == ~ StartsFlat /\ saved = "saved" /\ RestoreFile /\ Ready

BeginWithoutFile ==
  /\ StartsFlat \/ saved = "none"
  /\ UNCHANGED <<positions, layers, primary, state, centered, nextId, lastEntry, lastTakeProfit>>
  /\ Ready

\* The recovery file does not parse, or the guard finds a different account.
FailToStart ==
  /\ pc = "seeding"
  /\ \/ ~ StartsFlat /\ saved = "torn"
     \/ ~ GuardPasses(IF StartsFlat \/ saved = "none" THEN NoPositions ELSE file.positions)
  /\ Stop
  /\ UNCHANGED <<accountVars, diskVars, crashes>>

----------------------------------------------------------------------------
(***************************************************************************)
(* A bar (_process_bar): the machine's step.                               *)
(***************************************************************************)
\* A protective exit while the machine has no layers: the bar is used up.
SwallowBar(b, t) ==
  /\ layers = {}
  /\ UpdateSession(b.gap, t)
  /\ toClose' = {} /\ toOpen' = {}
  /\ UNCHANGED <<state, layers, primary, nextId, drift, centered, lastRebuild,
                 lastEntry, lastTakeProfit>>

TakeBar(b, t) ==
  /\ pc \in {"ready", "bars"} /\ toClose = {} /\ toOpen = {}
  /\ pc' = "bars" /\ bar' = b /\ latest' = t
  /\ UNCHANGED <<paper, positions, halted, unsure, accountVars, diskVars, crashes>>

FeedMachine(b, t) == TakeBar(b, t) /\ ProcessBar(b, t)

\* _protective_exit_signal looks at the primary of the tracked positions.
ExitOnSignal(b, t) ==
  /\ TakeBar(b, t) /\ DOMAIN positions # {}
  /\ \/ \E reason \in ProtectiveExits : FlattenPositions(reason, b.gap, t)
     \/ SwallowBar(b, t)

----------------------------------------------------------------------------
(***************************************************************************)
(* The actions of the bar (_handle_action).                                *)
(***************************************************************************)
Order(side, c) == [side |-> side, contract |-> c]

NextClose == Min(toClose)
NextOpen == Min(toOpen)

Closing == Running /\ toClose # {}
Opening == Running /\ toClose = {} /\ toOpen # {}

AfterClose == /\ toClose' = toClose \ {NextClose}
              /\ UNCHANGED <<machineVars, now, toOpen, paper, pc, bar, unsure, late, latest,
                             diskVars, crashes>>

\* No position is tracked for the layer, or execution is halted.
SkipClose ==
  /\ Closing /\ (NextClose \notin DOMAIN positions \/ halted)
  /\ AfterClose
  /\ UNCHANGED <<positions, halted, held, sent>>

\* The quote is not safe to trade on.
RefuseQuote ==
  /\ Closing /\ NextClose \in DOMAIN positions /\ ~ halted
  /\ halted' = TRUE
  /\ AfterClose
  /\ UNCHANGED <<positions, held, sent>>

\* A dry run sends nothing and keeps the position.
PretendClose ==
  /\ Closing /\ NextClose \in DOMAIN positions /\ ~ halted /\ ~ paper
  /\ positions' = [positions EXCEPT ![NextClose].asked = "pretended"]
  /\ AfterClose
  /\ UNCHANGED <<halted, held, sent>>

CloseFills ==
  /\ Closing /\ NextClose \in DOMAIN positions /\ ~ halted /\ paper
  /\ LET c == positions[NextClose].contract IN
       /\ held' = [held EXCEPT ![c] = @ - 1]
       /\ sent' = sent \cup {Order("SELL", c)}
  /\ positions' = Restrict(positions, DOMAIN positions \ {NextClose})
  /\ AfterClose
  /\ UNCHANGED halted

\* Mutant: a close that was given up is not recorded.
ForgetsRequest ==
  /\ Closing /\ NextClose \in DOMAIN positions /\ ~ halted /\ paper
  /\ sent' = sent \cup {Order("SELL", positions[NextClose].contract)}
  /\ halted' \in BOOLEAN
  /\ AfterClose
  /\ UNCHANGED <<held, positions>>

\* The chase gave up, which is benign, or the order was rejected.
CloseFails ==
  /\ Closing /\ NextClose \in DOMAIN positions /\ ~ halted /\ paper
  /\ sent' = sent \cup {Order("SELL", positions[NextClose].contract)}
  /\ positions' = [positions EXCEPT ![NextClose].asked = "ordered"]
  /\ halted' \in BOOLEAN
  /\ AfterClose
  /\ UNCHANGED held

HandleClose == SkipClose \/ RefuseQuote \/ PretendClose \/ CloseFills \/ CloseFails

\* Mutant: a layer that was not opened stays the primary.
RollbackKeepingPrimary(id) ==
  /\ layers' = layers \ {id}
  /\ state' = IF layers' = {} THEN "IDLE" ELSE "ACTIVE_CENTERED"
  /\ drift' = 0 /\ centered' = (layers' # {})
  /\ UNCHANGED <<primary, nextId, lastRebuild, session, gapFiltered, lastEntry, lastTakeProfit>>

\* _rollback_unfilled_open
Rollback(id) ==
  /\ layers' = layers \ {id}
  /\ primary' = IF primary = id THEN NoLayer ELSE primary
  /\ state' = IF layers' = {} THEN "IDLE" ELSE "ACTIVE_CENTERED"
  /\ drift' = 0 /\ centered' = (layers' # {})
  /\ UNCHANGED <<nextId, lastRebuild, session, gapFiltered, lastEntry, lastTakeProfit>>

AfterOpen == /\ toOpen' = toOpen \ {NextOpen}
             /\ UNCHANGED <<now, toClose, paper, pc, bar, unsure, late, latest, diskVars, crashes>>

\* An action of a bar outside the range regime opens nothing, and its layer stays.
SkipOpen ==
  /\ Opening
  /\ \/ NextOpen \in DOMAIN positions
     \/ ~ halted /\ ~ (bar.center /\ bar.regime = "RANGE")
  /\ AfterOpen
  /\ UNCHANGED <<machineVars, positions, halted, held, sent>>

\* Mutant: opens do not ask whether execution is halted.
CanOpenAlways == /\ Opening /\ NextOpen \notin DOMAIN positions
                 /\ bar.center /\ bar.regime = "RANGE"

CanOpen == /\ Opening /\ NextOpen \notin DOMAIN positions
           /\ ~ halted /\ bar.center /\ bar.regime = "RANGE"

\* Execution is halted, or there is no candidate to trade.
RefuseOpen ==
  /\ CanOpen \/ (Opening /\ NextOpen \notin DOMAIN positions /\ halted)
  /\ Rollback(NextOpen)
  /\ AfterOpen
  /\ UNCHANGED <<positions, halted, held, sent>>

Track(c) ==
  LET opened == [contract |-> c, primary |-> NextOpen = primary, day |-> Day(now), asked |-> "no"]
  IN positions' = [id \in DOMAIN positions \cup {NextOpen} |->
                     IF id = NextOpen THEN opened ELSE positions[id]]

PretendOpen(c) ==
  /\ CanOpen /\ ~ paper
  /\ Track(c)
  /\ AfterOpen
  /\ UNCHANGED <<machineVars, halted, held, sent>>

OpenFills(c) ==
  /\ CanOpen /\ paper
  /\ Track(c)
  /\ held' = [held EXCEPT ![c] = @ + 1] /\ sent' = sent \cup {Order("BUY", c)}
  /\ AfterOpen
  /\ UNCHANGED <<machineVars, halted>>

\* Mutant: an order that was given up is tracked like a filled one.
TracksUnfilled(c) ==
  /\ CanOpen /\ paper
  /\ sent' = sent \cup {Order("BUY", c)}
  /\ halted' \in BOOLEAN
  /\ Track(c)
  /\ AfterOpen
  /\ UNCHANGED <<machineVars, held>>

OpenFails(c) ==
  /\ CanOpen /\ paper
  /\ sent' = sent \cup {Order("BUY", c)}
  /\ halted' \in BOOLEAN
  /\ Rollback(NextOpen)
  /\ AfterOpen
  /\ UNCHANGED <<positions, held>>

HandleOpen == \/ SkipOpen \/ RefuseOpen
              \/ \E c \in Contracts : PretendOpen(c) \/ OpenFills(c) \/ OpenFails(c)

----------------------------------------------------------------------------
(***************************************************************************)
(* The rest of a poll.                                                     *)
(***************************************************************************)
\* Mutant: one butterfly less confirms the close of every position in its contract.
ConfirmsEvery ==
  {id \in DOMAIN positions :
     LET c == positions[id].contract IN
     positions[id].asked = "ordered" /\ held[c] = Tracked(positions)[c] - 1}

\* Positions whose close is confirmed by the account: when two of them share a contract
\* only the first can be.
FlatConfirmed ==
  {id \in DOMAIN positions :
     LET c == positions[id].contract IN
     /\ positions[id].asked = "ordered"
     /\ held[c] = Tracked(positions)[c] - 1
     /\ \A other \in DOMAIN positions :
          positions[other].asked = "ordered" /\ positions[other].contract = c => id <= other}

\* _refresh_positions_from_account; a dry run, a lost connection or an error skips it.
Refresh ==
  \/ UNCHANGED <<positions, halted, unsure>>
  \/ /\ paper
     /\ positions' = Restrict(positions, DOMAIN positions \ FlatConfirmed)
     /\ halted' = (halted \/ held # Tracked(positions'))
     /\ unsure' = FALSE

\* _write_state_snapshot
Save ==
  /\ saved' = "saved"
  /\ file' = [positions |-> positions', state |-> state, centered |-> centered,
              nextId |-> nextId, lastEntry |-> lastEntry, lastTakeProfit |-> lastTakeProfit]

EndPoll ==
  /\ pc = "bars" /\ toClose = {} /\ toOpen = {}
  /\ pc' = "ready"
  /\ Refresh /\ Save
  /\ UNCHANGED <<vars, paper, bar, accountVars, latest, crashes>>

\* No new bar, or no history.
IdlePoll ==
  /\ pc = "ready"
  /\ Refresh /\ Save
  /\ UNCHANGED <<vars, paper, pc, bar, accountVars, latest, crashes>>

\* Mutant: a close that was asked for is not asked for again.
DueOnce(ps) == {id \in DOMAIN ps : ps[id].asked = "no"}

\* Every position is due, though one that was asked to close is given some time first.
Due(ps) == DOMAIN ps

\* _retry_pending_session_closes, in a poll without new bars after the window closed: that is
\* told by the wall clock, which may be ahead of the last bar by any time, so that positions
\* whose layers the machine still holds can be closed as well.
RetryCloses ==
  /\ pc = "ready" /\ ~ HoldsOvernight
  /\ Refresh
  /\ Due(positions') # {} /\ ~ halted'
  /\ pc' = "retry"
  /\ \E waiting \in SUBSET {id \in DOMAIN positions' : positions'[id].asked # "no"} :
       toClose' = Due(positions') \ waiting
  /\ UNCHANGED <<machineVars, now, toOpen, paper, bar, accountVars, diskVars, latest, crashes>>

\* Mutant: a poll that retried closes does not write the recovery file.
EndsUnsaved ==
  /\ pc = "retry" /\ toClose = {}
  /\ pc' = "ready"
  /\ UNCHANGED <<vars, paper, bar, positions, halted, unsure, accountVars, diskVars, latest, crashes>>

EndRetry ==
  /\ pc = "retry" /\ toClose = {}
  /\ pc' = "ready"
  /\ positions' = positions /\ Save
  /\ UNCHANGED <<vars, paper, bar, halted, unsure, accountVars, latest, crashes>>

----------------------------------------------------------------------------
(***************************************************************************)
(* What happens to the runner: the process stops, between two steps, in    *)
(* the middle of an order, or while it writes the recovery file; and an    *)
(* order that it gave up trades after all (external).                      *)
(***************************************************************************)
Crash ==
  /\ crashes < MaxCrashes /\ late + crashes < MaxFaults /\ crashes' = crashes + 1
  /\ pc # "down" /\ Stop

CrashAnywhere == Crash /\ UNCHANGED <<accountVars, diskVars>>

CrashInOrder ==
  /\ Crash /\ paper /\ ~ halted
  /\ \/ /\ Closing /\ NextClose \in DOMAIN positions
        /\ LET c == positions[NextClose].contract IN
             sent' = sent \cup {Order("SELL", c)} /\ held' \in {held, [held EXCEPT ![c] = @ - 1]}
     \/ /\ CanOpen
        /\ \E c \in Contracts :
             sent' = sent \cup {Order("BUY", c)} /\ held' \in {held, [held EXCEPT ![c] = @ + 1]}
  /\ UNCHANGED <<late, diskVars>>

CrashInSave ==
  /\ Crash /\ Running /\ toClose = {} /\ toOpen = {}
  /\ saved' = "torn"
  /\ UNCHANGED <<accountVars, file>>

LateTrade(order) ==
  /\ late < MaxLate /\ late + crashes < MaxFaults /\ late' = late + 1
  /\ held' = [held EXCEPT ![order.contract] = IF order.side = "BUY" THEN @ + 1 ELSE @ - 1]
  /\ unsure' = TRUE
  /\ UNCHANGED <<vars, paper, pc, bar, positions, halted, sent, diskVars, latest, crashes>>

RunnerNext ==
  \/ Start \/ BeginWithFile \/ BeginWithoutFile \/ FailToStart
  \/ \E t \in (now + 1)..Horizon, b \in Bars :
       SeedBar(b, t) \/ FeedMachine(b, t) \/ ExitOnSignal(b, t)
  \/ HandleClose \/ HandleOpen
  \/ EndPoll \/ IdlePoll \/ RetryCloses \/ EndRetry
  \/ CrashAnywhere \/ CrashInOrder \/ CrashInSave
  \/ \E order \in sent : LateTrade(order)

RunnerSpec == RunnerInit /\ [][RunnerNext]_allVars

\* A poll goes on to its end, bars arrive until the horizon, a poll without new bars comes
\* again and again after the last bar of a window and late enough to retry every close, and
\* a close that is sent again and again is filled at some time (the last is assumed of the
\* broker).
Feed == \E t \in (now + 1)..Horizon, b \in Bars : FeedMachine(b, t)
RetryAll == RetryCloses /\ Slot(now) >= WindowEnd /\ toClose' = Due(positions')

FairRunnerSpec ==
  /\ RunnerSpec
  /\ WF_allVars(HandleClose \/ HandleOpen \/ EndPoll \/ EndRetry)
  /\ SF_allVars(Feed) /\ SF_allVars(RetryAll) /\ SF_allVars(CloseFills)

----------------------------------------------------------------------------
(***************************************************************************)
(* Correctness.                                                            *)
(***************************************************************************)
Position == [contract : Contracts, primary : BOOLEAN, day : Nat,
             asked : {"no", "pretended", "ordered"}]

RunnerTypeOK ==
  /\ TypeOK /\ primary \in layers \cup {NoLayer}
  /\ paper \in BOOLEAN /\ pc \in {"down", "seeding", "ready", "bars", "retry"} /\ bar \in Bars
  /\ DOMAIN positions \subseteq Nat \ {0} /\ \A id \in DOMAIN positions : positions[id] \in Position
  /\ halted \in BOOLEAN /\ unsure \in BOOLEAN /\ latest \in 0..Horizon
  /\ saved \in {"none", "saved", "torn"}
  /\ held \in [Contracts -> Int]
  /\ sent \subseteq [side : {"BUY", "SELL"}, contract : Contracts]
  /\ late \in 0..MaxLate /\ crashes \in 0..MaxCrashes

\* While the runner trades, its positions are exactly what the account holds, unless an
\* order traded behind its back since it last compared the two: opens, closes, rollbacks,
\* retries and restarts keep the book, and a difference that a comparison finds halts.
DivergenceIsNoticed == Running /\ paper /\ ~ halted /\ ~ unsure => held = Tracked(positions)

\* Between two polls the recovery file holds exactly the tracked positions, with what was
\* asked of each, whatever became of the orders of the poll before: a process that is
\* stopped there loses nothing.
FileIsCurrent == pc = "ready" /\ saved = "saved" /\ ~ StartsFlat => file.positions = positions

\* No position is forgotten: one whose layer the machine gave up is about to be closed,
\* was asked to close, or execution is halted.
OrphansAwaitClose ==
  Running => \A id \in DOMAIN positions \ layers :
               id \in toClose \/ positions[id].asked # "no" \/ halted

\* A new layer never has the id of a tracked position, also after a restart: its action
\* would be taken for done.
NewLayersUntracked == Running => toOpen \cap DOMAIN positions = {}

\* Once halted, a process sends no order: neither one that was never sent before, nor the like
\* of an earlier one, which would change the account.
HaltStopsOrders ==
  [][ halted /\ pc' # "down" => /\ halted' /\ sent' = sent
                                /\ late' = late => held' = held ]_allVars

\* What the account holds of a contract beyond what is tracked.
Surplus == [c \in Contracts |-> held[c] - Tracked(positions)[c]]

\* Only a trade behind its back, or a new start, can part positions and account: whatever else the
\* runner does, halted or not, a difference stays as it is until it is closed.
DifferenceOnlyCloses ==
  [][ Running /\ pc' # "down" /\ paper /\ late' = late =>
        \A c \in Contracts : Surplus'[c] \in {0, Surplus[c]} ]_allVars

\* Without hold_overnight a position that the corridor gave up is closed in the end, or
\* execution is halted (or the process stops): this is what the retries are for.
OrphansEnd ==
  \A id \in 1..(Cap * Horizon) :
    id \in DOMAIN positions \ layers ~> id \notin DOMAIN positions \/ halted

\* A restart keeps the session of the last entry.
RestoresLastEntry ==
  [][ BeginWithFile /\ file.lastEntry # Never => lastEntry' = file.lastEntry ]_allVars

\* The runner starts trading only when the account matches its positions.
StartsMatched == [][ pc = "seeding" /\ pc' = "ready" /\ paper => held = Tracked(positions') ]_allVars

=============================================================================
