----------------------------- MODULE ComboChase -----------------------------
(***************************************************************************)
(* One combo order of the paper runner (_place_combo_order_with_chase):    *)
(* a limit order is placed and given some time; if it is still working it  *)
(* is cancelled and placed again at a better limit, up to Steps times.     *)
(*                                                                         *)
(* The broker is not under src/: it fills, refuses and cancels orders when *)
(* it likes, and its reports reach the runner late.  The runner looks only *)
(* at the trade of its last attempt.  Prices are in cents.                 *)
(***************************************************************************)
EXTENDS Integers

CONSTANTS
  Sides,         \* which of BUY and SELL are explored
  Candidates,    \* the quotes that are explored, see Candidate
  Quantity,      \* butterflies per order
  Steps,         \* combo_max_chase_steps
  Fraction,      \* combo_chase_fraction_of_spread, in percent
  DebitRatio     \* combo_max_total_debit_ratio, in percent

Lo(a, b) == IF a < b THEN a ELSE b
Hi(a, b) == IF a < b THEN b ELSE a

\* round(x, 2) of a price given in hundredths of a cent: half a cent goes to the even cent.
Cents(x) ==
  LET c == x \div 100
      rest == x % 100
  IN  IF rest > 50 \/ (rest = 50 /\ c % 2 = 1) THEN c + 1 ELSE c

\* A quote that _candidate_execution_issue lets through: its net debit, its total
\* spread and the spread cap of its DTE.
Candidate == [debit : Nat \ {0}, spread : Nat \ {0}, spreadCap : Nat]

ASSUME SidesAssumption == Sides \subseteq {"BUY", "SELL"}
ASSUME CandidatesAssumption == Candidates \subseteq Candidate
ASSUME ChaseAssumption ==
  /\ Quantity \in Nat \ {0} /\ Steps \in Nat \ {0}
  /\ Fraction \in Nat /\ DebitRatio \in Nat

VARIABLES
  side, quote,   \* the order: never change
  pc,            \* where _place_combo_order_with_chase is
  step, limit,   \* the attempt at hand and its limit
  seen,          \* the trade of the attempt, as the runner sees it
  result,        \* what the caller concludes from the trade it is given
  reason,        \* abort_reason of the fill audit
  broker,        \* the order of each attempt at the broker
  lots,          \* how many of its butterflies are filled
  asked,         \* whether its cancellation was requested
  account        \* butterflies traded altogether

runnerVars == <<side, quote, pc, step, limit, result, reason>>
brokerVars == <<broker, lots, account>>
vars == <<runnerVars, seen, brokerVars, asked>>

Attempts == 1..Steps

----------------------------------------------------------------------------
(***************************************************************************)
(* The limits.                                                             *)
(***************************************************************************)
\* spread_buffer, in hundredths of a cent: it is not rounded by itself
Buffer == Lo(Hi(100, 25 * quote.spread), Hi(200, 100 * quote.spreadCap))

\* _combo_limit_price
FirstLimit ==
  IF side = "BUY" THEN Hi(1, Cents(100 * quote.debit + Buffer))
  ELSE Hi(1, Cents(Hi(100, 100 * quote.debit - Buffer)))

\* max_total_debit_limit, for a BUY
MaxDebit == Cents(DebitRatio * quote.debit)

\* _combo_chase_cap_fraction
CapFraction == Lo(100, Hi(50, Fraction * Steps))
ChaseStep == Hi(1, Cents(Fraction * quote.spread))
MaxBuffer == Hi(2, Cents(CapFraction * quote.spread))

\* Mutant: the chase forgets the maximum debit.
UncappedLimit ==
  IF side = "BUY" THEN Lo(quote.debit + MaxBuffer, limit + ChaseStep)
  ELSE Hi(Hi(1, quote.debit - MaxBuffer), limit - ChaseStep)

\* Mutant: the chase forgets the buffer around the quote.
UnbufferedLimit ==
  IF side = "BUY" THEN Lo(MaxDebit, limit + ChaseStep) ELSE limit - ChaseStep

\* _next_combo_limit
NextLimit ==
  IF side = "BUY" THEN Lo(Lo(quote.debit + MaxBuffer, MaxDebit), limit + ChaseStep)
  ELSE Hi(Hi(1, quote.debit - MaxBuffer), limit - ChaseStep)

\* Mutant: the chase goes on from a limit above the maximum.
PastMaxDebit == side = "BUY" /\ NextLimit > MaxDebit /\ limit > MaxDebit

AtMaxDebit == side = "BUY" /\ NextLimit >= MaxDebit /\ limit >= MaxDebit

----------------------------------------------------------------------------
Init ==
  /\ side \in Sides /\ quote \in Candidates
  /\ pc = "place" /\ step = 1 /\ limit = FirstLimit
  /\ seen = [status |-> "live", lots |-> 0]
  /\ result = "none" /\ reason = "none"
  /\ broker = [i \in Attempts |-> "none"] /\ lots = [i \in Attempts |-> 0]
  /\ asked = [i \in Attempts |-> FALSE] /\ account = 0

(***************************************************************************)
(* The broker (external).  An order can be filled until its cancellation   *)
(* takes effect, and it can be refused at any time.                        *)
(***************************************************************************)
Fill(i) ==
  /\ broker[i] = "working"
  /\ lots' = [lots EXCEPT ![i] = @ + 1] /\ account' = account + 1
  /\ broker' = [broker EXCEPT ![i] = IF lots'[i] = Quantity THEN "filled" ELSE @]
  /\ UNCHANGED <<runnerVars, seen, asked>>

Refuse(i) ==
  /\ broker[i] = "working"
  /\ broker' = [broker EXCEPT ![i] = "refused"]
  /\ UNCHANGED <<runnerVars, seen, lots, account, asked>>

Cancel(i) ==
  /\ broker[i] = "working" /\ asked[i]
  /\ broker' = [broker EXCEPT ![i] = "cancelled"]
  /\ UNCHANGED <<runnerVars, seen, lots, account, asked>>

\* The broker's report on the current attempt arrives while the runner sleeps; the
\* report on a working order does not take back a cancellation that is pending.
Report ==
  /\ pc \in {"wait", "cancel", "drift"}
  /\ seen' = [status |-> IF broker[step] = "working" THEN seen.status ELSE broker[step],
              lots |-> lots[step]]
  /\ UNCHANGED <<runnerVars, brokerVars, asked>>

----------------------------------------------------------------------------
(***************************************************************************)
(* The runner.                                                             *)
(***************************************************************************)
\* Mutant: a partly filled order counts as filled.
AnyFill == seen.lots > 0

\* _trade_is_filled
IsFilled == seen.status = "filled"

Return(why) ==
  /\ pc' = "done" /\ reason' = why
  /\ result' = IF IsFilled THEN "filled" ELSE "unfilled"
  /\ UNCHANGED <<side, quote, step, limit, seen>>

\* _place_combo_order_once
Place ==
  /\ pc = "place"
  /\ broker' = [broker EXCEPT ![step] = "working"]
  /\ seen' = [status |-> "live", lots |-> 0]
  /\ pc' = "wait"
  /\ UNCHANGED <<side, quote, step, limit, result, reason, lots, account, asked>>

\* The attempt ended by itself while the runner waited.
Conclude ==
  /\ pc = "wait" /\ seen.status # "live"
  /\ Return("none")
  /\ UNCHANGED <<brokerVars, asked>>

RequestCancel == /\ asked' = [asked EXCEPT ![step] = TRUE]
                 /\ seen' = [seen EXCEPT !.status = "pending"]

\* The price left the tolerance before anything was filled: the order is cancelled, or
\* the request fails, and the chase ends after another pause.
AbortFromDrift ==
  /\ pc = "wait" /\ seen.status = "live" /\ seen.lots = 0
  /\ RequestCancel \/ UNCHANGED <<asked, seen>>
  /\ pc' = "drift"
  /\ UNCHANGED <<side, quote, step, limit, result, reason, brokerVars>>

GiveUpFromDrift ==
  /\ pc = "drift"
  /\ Return("fill_timeout_abort_center_drift")
  /\ UNCHANGED <<brokerVars, asked>>

\* Mutant: the next attempt is placed beside the working one.
SkipsCancel ==
  /\ pc = "wait" /\ seen.status = "live"
  /\ pc' = "cancel"
  /\ UNCHANGED <<side, quote, step, limit, result, reason, seen, asked, brokerVars>>

AskCancel ==
  /\ pc = "wait" /\ seen.status = "live"
  /\ RequestCancel
  /\ pc' = "cancel"
  /\ UNCHANGED <<side, quote, step, limit, result, reason, brokerVars>>

\* The request to cancel raises an exception: the order is left working.
CancelFails ==
  /\ pc = "wait" /\ seen.status = "live"
  /\ Return("none")
  /\ UNCHANGED <<brokerVars, asked>>

Exhaust ==
  /\ pc = "cancel" /\ step = Steps
  /\ Return("chase_window_exhausted")
  /\ UNCHANGED <<brokerVars, asked>>

ReachMaxDebit ==
  /\ pc = "cancel" /\ step # Steps /\ AtMaxDebit
  /\ Return("max_total_debit_limit_reached")
  /\ UNCHANGED <<brokerVars, asked>>

\* Mutant: a cancelled attempt does not count.
NotCounted ==
  /\ pc = "cancel" /\ step # Steps /\ ~ AtMaxDebit
  /\ limit' = NextLimit
  /\ pc' = "place"
  /\ UNCHANGED <<side, quote, step, result, reason, seen, brokerVars, asked>>

\* The next attempt is for the whole quantity, whatever became of the cancelled one.
Chase ==
  /\ pc = "cancel" /\ step # Steps /\ ~ AtMaxDebit
  /\ step' = step + 1 /\ limit' = NextLimit
  /\ pc' = "place"
  /\ UNCHANGED <<side, quote, result, reason, seen, brokerVars, asked>>

Runner == \/ Place \/ Conclude \/ AbortFromDrift \/ GiveUpFromDrift
          \/ AskCancel \/ CancelFails \/ Exhaust \/ ReachMaxDebit \/ Chase

Broker == (\E i \in Attempts : Fill(i) \/ Refuse(i) \/ Cancel(i)) \/ Report

Next == Runner \/ Broker

Spec == Init /\ [][Next]_vars

\* Every sleep of the runner ends; nothing is assumed of the broker.
FairSpec == Spec /\ WF_vars(Runner)

----------------------------------------------------------------------------
(***************************************************************************)
(* Correctness.                                                            *)
(***************************************************************************)
Statuses == {"live", "pending", "filled", "refused", "cancelled"}
Reasons == {"none", "fill_timeout_abort_center_drift", "chase_window_exhausted",
            "max_total_debit_limit_reached"}

TypeOK ==
  /\ side \in {"BUY", "SELL"} /\ quote \in Candidate
  /\ pc \in {"place", "wait", "cancel", "drift", "done"}
  /\ step \in Attempts /\ limit \in Int
  /\ seen \in [status : Statuses, lots : 0..Quantity]
  /\ result \in {"none", "filled", "unfilled"} /\ reason \in Reasons
  /\ broker \in [Attempts -> {"none", "working", "filled", "refused", "cancelled"}]
  /\ lots \in [Attempts -> 0..Quantity]
  /\ asked \in [Attempts -> BOOLEAN] /\ account \in Nat

\* An order that works behind the runner's back has at least been told to stop: only the
\* last attempt can be working without a request to cancel it.
OneLiveOrder == \A i \in Attempts : broker[i] = "working" /\ i # step => asked[i]

\* Where the chase may trade at all: within the buffer that its aggressiveness allows.
WithinBuffer ==
  /\ side = "BUY" => limit <= quote.debit + MaxBuffer
  /\ side = "SELL" => limit >= quote.debit - MaxBuffer /\ limit >= 1

\* A chased BUY never bids above the maximum total debit.
ChasedWithinMaxDebit == side = "BUY" /\ step > 1 => limit <= MaxDebit

\* The quantity of every attempt is the only bound on what one order may trade.
BoundedOverfill == account <= Quantity * step

\* A chase never moves away from the market: a BUY never bids less than before, a SELL
\* never asks for more.
ChasesTowardsMarket ==
  [][ step' # step => /\ side = "BUY" => limit' >= limit
                      /\ side = "SELL" => limit' <= limit ]_vars

\* How many steps the runner can still make: three for each attempt to come, and those
\* of the attempt at hand.
StepsLeft == 3 * (Steps - step) + (CASE pc = "place" -> 3
                                     [] pc = "wait" -> 2
                                     [] pc \in {"cancel", "drift"} -> 1
                                     [] pc = "done" -> 0)

\* Whatever the broker does between two steps of the runner, each of them brings the
\* answer nearer: a chase ends after at most three steps per attempt.
ChaseWearsOut == [][ Runner => StepsLeft' \in 0..(StepsLeft - 1) ]_vars

\* The caller is always answered, whatever the broker does.
Answered == pc # "done" ~> pc = "done"

\* --quantity: a signal trades no more butterflies than that.
TradesQuantity == account <= Quantity

(***************************************************************************)
(* The order as its caller sees it.                                        *)
(***************************************************************************)
Attempt == INSTANCE OrderAttempt WITH traded <- account, answer <- result
KeepsPromise == Attempt!Spec

=============================================================================
