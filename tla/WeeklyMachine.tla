---------------------------- MODULE WeeklyMachine ----------------------------
(***************************************************************************)
(* The weekly corridor (weekly_corridor/state_machine.py with the layers   *)
(* and the calendar of strategy.py): on each decision bar it may deploy    *)
(* the corridor of the week, add one adjustment to it, or close it; what   *)
(* is open when a new week begins is closed first.                         *)
(*                                                                         *)
(* A time is a week, a day of the week (0 is Monday) and a slot of the     *)
(* day.  A bar that begins a week sees the context as it is reset, so the  *)
(* actions read it through StateIn and AdjustmentsIn.  -1 is None.         *)
(***************************************************************************)
EXTENDS Integers, FiniteSets

CONSTANTS
  Weeks, SessionDays, Slots,   \* the times at which a bar may end
  EventWeeks,                  \* the weeks of event_dates, if they are skipped
  Prices, Centers,             \* the closes and the center estimates that occur
  EntryFirstDay, EntryLastDay, EntryFirstSlot, EntryLastSlot,  \* the entry window
  ExitDay, ExitSlot,           \* forced_exit_weekday, forced_exit_time
  DteBuffer,                   \* default_dte - min_remaining_dte
  MaxHold, MinHold,            \* max_ and min_hold_trading_days
  Spacing, Rounding, Tolerance,
  MaxActive,                   \* max_active_butterflies
  MaxAdjustments               \* max_adjustments_per_week

NoWeek == -1
NoCenter == -1
Regimes == {"RANGE", "TREND", "NEUTRAL", "EVENT_BLOCKED"}
States == {"IDLE", "ACTIVE", "ADJUSTED", "ABORTED", "EXITED"}
Holding == {"ACTIVE", "ADJUSTED"}
Times == [week : Weeks, day : SessionDays, slot : Slots]

ASSUME CalendarAssumption ==
  /\ Weeks \subseteq Nat /\ SessionDays \subseteq 0..4 /\ Slots \subseteq Nat
  /\ EventWeeks \subseteq Weeks
ASSUME MarketAssumption == Prices \subseteq Nat /\ Centers \subseteq Nat
ASSUME WindowAssumption ==
  /\ EntryFirstDay \in 0..6 /\ EntryLastDay \in 0..6
  /\ EntryFirstSlot \in Nat /\ EntryLastSlot \in Nat
  /\ ExitDay \in 0..6 /\ ExitSlot \in Nat
ASSUME HoldAssumption == DteBuffer \in Int /\ MaxHold \in Nat /\ MinHold \in Nat
ASSUME LadderAssumption ==
  /\ Spacing \in Nat /\ Rounding \in Nat \ {0} /\ Tolerance \in Nat
  /\ MaxActive \in Nat /\ MaxAdjustments \in Nat

VARIABLES
  state, weekKey, center, active, nextId, deployedAt, adjustments, eventSkipped,
  now           \* the time of the bar last handled

contextVars == <<state, weekKey, center, active, nextId, deployedAt, adjustments, eventSkipped>>
vars == <<contextVars, now>>

Epoch == [week |-> NoWeek, day |-> 0, slot |-> 0]
Ids == {layer.id : layer \in active}

Init ==
  /\ state = "IDLE" /\ weekKey = NoWeek /\ center = NoCenter
  /\ active = {} /\ nextId = 1 /\ deployedAt = Epoch
  /\ adjustments = 0 /\ eventSkipped = FALSE /\ now = Epoch

----------------------------------------------------------------------------
(***************************************************************************)
(* The calendar.                                                           *)
(***************************************************************************)
Earlier(s, t) == \/ s.week < t.week
                 \/ s.week = t.week /\ s.day < t.day
                 \/ s.week = t.week /\ s.day = t.day /\ s.slot < t.slot

\* Whole days of 24 hours from s to t.
ElapsedDays(s, t) == 7 * (t.week - s.week) + t.day - s.day - (IF t.slot < s.slot THEN 1 ELSE 0)

\* bday_count: the business days from the date of s to that of t, both included.
BusinessDays(s, t) == 5 * (t.week - s.week) + t.day - s.day + 1

InEntryWindow(t) == t.day \in EntryFirstDay..EntryLastDay /\ t.slot \in EntryFirstSlot..EntryLastSlot

\* What the classifier can say: NEUTRAL while the history is short, also in an event week.
RegimesIn(week) == IF week \in EventWeeks THEN {"EVENT_BLOCKED", "NEUTRAL"}
                   ELSE {"RANGE", "TREND", "NEUTRAL"}

----------------------------------------------------------------------------
(***************************************************************************)
(* Layers.                                                                 *)
(***************************************************************************)
\* round_strike: the nearest multiple of the increment, of two the even one.
RoundStrike(price) ==
  LET q == price \div Rounding
      twice == 2 * (price % Rounding)
  IN Rounding * (IF twice > Rounding \/ (twice = Rounding /\ q % 2 = 1) THEN q + 1 ELSE q)

Layer(id, kind, price, week) ==
  [id |-> id, kind |-> kind, body |-> RoundStrike(price), week |-> week]

InitialCount == IF MaxActive < 3 THEN MaxActive ELSE 3

\* build_initial_butterflies: below the center, at it and above it, as many as may be open.
InitialLayers(id, c, week) ==
  {Layer(id + i, "INITIAL", c + (i - 1) * Spacing, week) : i \in 0..(InitialCount - 1)}

----------------------------------------------------------------------------
(***************************************************************************)
(* The context a bar finds: that of an earlier week is closed and reset.   *)
(***************************************************************************)
SameWeek(t) == weekKey \in {NoWeek, t.week}
StateIn(t) == IF SameWeek(t) THEN state ELSE "IDLE"

\* Mutant: the layers of each week are numbered from 1.
RenumbersLayers(t) == IF SameWeek(t) THEN nextId ELSE 1

\* next_layer_id, which the reset leaves alone.
FirstFreeId(t) == nextId

\* Mutant: a new week finds the layers of the old one still open.
ForgetsToClose(t) ==
  /\ center' = IF SameWeek(t) THEN center ELSE NoCenter
  /\ active' = active
  /\ deployedAt' = IF SameWeek(t) THEN deployedAt ELSE Epoch
  /\ adjustments' = IF SameWeek(t) THEN adjustments ELSE 0
  /\ nextId' = FirstFreeId(t)

\* What the rollover and _reset_for_new_week leave of the context.
Reset(t) ==
  /\ center' = IF SameWeek(t) THEN center ELSE NoCenter
  /\ active' = IF SameWeek(t) THEN active ELSE {}
  /\ deployedAt' = IF SameWeek(t) THEN deployedAt ELSE Epoch
  /\ adjustments' = IF SameWeek(t) THEN adjustments ELSE 0
  /\ nextId' = FirstFreeId(t)

----------------------------------------------------------------------------
(***************************************************************************)
(* A bar of a week without a corridor so far.                              *)
(***************************************************************************)
SkipEventWeek(bar) ==
  /\ StateIn(bar.time) = "IDLE" /\ bar.regime = "EVENT_BLOCKED" /\ InEntryWindow(bar.time)
  /\ state' = "IDLE" /\ eventSkipped' = TRUE
  /\ Reset(bar.time)

MayDeploy(bar) ==
  /\ bar.center # NoCenter /\ bar.regime = "RANGE" /\ InEntryWindow(bar.time)
  /\ InitialCount > 0

\* Mutant: only a corridor that is open keeps another from being deployed.
DeploysAgain(bar) ==
  /\ StateIn(bar.time) \notin Holding /\ MayDeploy(bar)
  /\ state' = "ACTIVE"
  /\ active' = InitialLayers(FirstFreeId(bar.time), bar.center, bar.time.week)
  /\ nextId' = FirstFreeId(bar.time) + InitialCount
  /\ center' = bar.center /\ deployedAt' = bar.time
  /\ adjustments' = 0 /\ eventSkipped' = FALSE

DeployInitial(bar) ==
  /\ StateIn(bar.time) = "IDLE" /\ MayDeploy(bar)
  /\ state' = "ACTIVE"
  /\ active' = InitialLayers(FirstFreeId(bar.time), bar.center, bar.time.week)
  /\ nextId' = FirstFreeId(bar.time) + InitialCount
  /\ center' = bar.center /\ deployedAt' = bar.time
  /\ adjustments' = 0 /\ eventSkipped' = FALSE

Wait(bar) ==
  /\ StateIn(bar.time) = "IDLE" /\ ~ MayDeploy(bar)
  /\ ~ (bar.regime = "EVENT_BLOCKED" /\ InEntryWindow(bar.time))
  /\ state' = "IDLE"
  /\ eventSkipped' = (SameWeek(bar.time) /\ eventSkipped)
  /\ Reset(bar.time)

----------------------------------------------------------------------------
(***************************************************************************)
(* A bar of a week whose corridor is open, and of one whose is over.       *)
(***************************************************************************)
Held(bar) == SameWeek(bar.time) /\ state \in Holding

CloseAll == active' = {} /\ UNCHANGED <<center, nextId, deployedAt, adjustments, eventSkipped>>

Abort(bar) ==
  /\ Held(bar) /\ bar.regime = "TREND"
  /\ state' = "ABORTED" /\ CloseAll

\* Mutant: the forced exit is tested by the time of day alone.
ExitsAnyDay(t) == t.slot >= ExitSlot

DteLow(t) == ElapsedDays(deployedAt, t) >= DteBuffer
HeldLong(t) == BusinessDays(deployedAt, t) >= MaxHold
WeekEnds(t) == t.day >= ExitDay /\ t.slot >= ExitSlot

ExitDte(bar) ==
  /\ Held(bar) /\ bar.regime # "TREND" /\ DteLow(bar.time)
  /\ state' = "EXITED" /\ CloseAll

ExitHold(bar) ==
  /\ Held(bar) /\ bar.regime # "TREND" /\ ~ DteLow(bar.time) /\ HeldLong(bar.time)
  /\ state' = "EXITED" /\ CloseAll

ExitWeek(bar) ==
  /\ Held(bar) /\ bar.regime # "TREND" /\ ~ DteLow(bar.time) /\ ~ HeldLong(bar.time)
  /\ WeekEnds(bar.time)
  /\ state' = "EXITED" /\ CloseAll

Stays(bar) ==
  /\ Held(bar) /\ bar.regime # "TREND"
  /\ ~ DteLow(bar.time) /\ ~ HeldLong(bar.time) /\ ~ WeekEnds(bar.time)

\* Mutant: only the room for another layer limits the adjustments.
RoomAlone(bar) ==
  /\ bar.price > center + Tolerance \/ bar.price < center - Tolerance
  /\ Cardinality(active) < MaxActive
  /\ \A layer \in active : layer.body # RoundStrike(bar.price)

ShouldAdjust(bar) ==
  /\ bar.price > center + Tolerance \/ bar.price < center - Tolerance
  /\ adjustments < MaxAdjustments
  /\ Cardinality(active) < MaxActive
  /\ \A layer \in active : layer.body # RoundStrike(bar.price)

AddAdjustment(bar) ==
  /\ Stays(bar) /\ ShouldAdjust(bar)
  /\ state' = "ADJUSTED"
  /\ active' = active \cup {Layer(nextId, "ADJUSTMENT", bar.price, bar.time.week)}
  /\ nextId' = nextId + 1 /\ adjustments' = adjustments + 1
  /\ UNCHANGED <<center, deployedAt, eventSkipped>>

Hold(bar) == Stays(bar) /\ ~ ShouldAdjust(bar) /\ UNCHANGED contextVars

StayOut(bar) ==
  /\ SameWeek(bar.time) /\ state \in {"ABORTED", "EXITED"}
  /\ UNCHANGED <<state, center, active, nextId, deployedAt, adjustments, eventSkipped>>

ProcessBar(bar) ==
  /\ Earlier(now, bar.time) /\ now' = bar.time
  /\ weekKey' = bar.time.week
  /\ \/ SkipEventWeek(bar) \/ DeployInitial(bar) \/ Wait(bar)
     \/ Abort(bar) \/ ExitDte(bar) \/ ExitHold(bar) \/ ExitWeek(bar)
     \/ AddAdjustment(bar) \/ Hold(bar) \/ StayOut(bar)

Bar(t) == [time : {t}, price : Prices, regime : RegimesIn(t.week), center : Centers \cup {NoCenter}]
Next == \E t \in Times : \E bar \in Bar(t) : ProcessBar(bar)

Spec == Init /\ [][Next]_vars
=============================================================================
