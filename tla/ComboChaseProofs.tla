-------------------------- MODULE ComboChaseProofs --------------------------
(***************************************************************************)
(* Theorems about ComboChase, for every set of quotes, quantity, number of *)
(* attempts and pricing parameter.                                         *)
(***************************************************************************)
EXTENDS ComboChase, FiniteSetTheorems, TLAPS

\* Attempts that were not made yet have left no trace at the broker.
Untouched ==
  /\ \A i \in Attempts : i > step \/ (i = step /\ pc = "place") => broker[i] = "none" /\ lots[i] = 0
  /\ pc \in {"wait", "cancel", "drift"} => broker[step] # "none"

\* The runner moves on only from an attempt that it told to stop.
ToldToStop == pc = "cancel" => asked[step]

\* What is reported as filled is filled, and it is part of what was traded.
FillsAreReal ==
  /\ \A i \in Attempts : /\ broker[i] = "filled" => lots[i] = Quantity
                         /\ broker[i] = "working" => lots[i] < Quantity
  /\ pc # "place" /\ seen.status = "filled" => lots[step] = Quantity
  /\ account >= lots[step]

\* The caller is answered when the chase ends, and not before.
AnsweredAtEnd == pc = "done" <=> result # "none"

IInv == /\ TypeOK /\ Untouched /\ ToldToStop /\ FillsAreReal /\ AnsweredAtEnd
        /\ OneLiveOrder /\ WithinBuffer /\ ChasedWithinMaxDebit

----------------------------------------------------------------------------
(***************************************************************************)
(* The limits.                                                             *)
(***************************************************************************)
\* Rounding moves an amount by half a cent at most.
LEMMA CentsNear ==
  ASSUME NEW a \in Nat
  PROVE  /\ Cents(a) \in Nat
         /\ 100 * Cents(a) <= a + 50 /\ a <= 100 * Cents(a) + 50
<1>. DEFINE c == a \div 100
            rest == a % 100
<1>1. c \in Nat /\ rest \in 0..99 /\ a = 100 * c + rest
  OBVIOUS
<1>2. Cents(a) = IF rest > 50 \/ (rest = 50 /\ c % 2 = 1) THEN c + 1 ELSE c
  BY DEF Cents
<1>. HIDE DEF c, rest
<1>. QED BY <1>1, <1>2

\* The buffer of the first limit lies within the buffer of the chase.
LEMMA Buffers ==
  ASSUME quote \in Candidate
  PROVE  /\ Buffer \in Nat /\ MaxBuffer \in Nat /\ Buffer < 100 * MaxBuffer + 50
         /\ ChaseStep \in Nat /\ ChaseStep >= 1 /\ MaxDebit \in Nat
         /\ quote.debit \in Nat /\ quote.debit >= 1
<1>1. /\ quote.debit \in Nat /\ quote.debit >= 1 /\ quote.spread \in Nat
      /\ quote.spreadCap \in Nat
  BY DEF Candidate
<1>2. CapFraction \in Nat /\ CapFraction >= 50 /\ Fraction \in Nat /\ DebitRatio \in Nat
  <2>1. Fraction \in Nat /\ Steps \in Nat /\ DebitRatio \in Nat
    BY ChaseAssumption
  <2>2. Fraction * Steps \in Nat
    BY <2>1
  <2>. QED BY <2>1, <2>2 DEF CapFraction, Lo, Hi
<1>3. /\ 25 * quote.spread \in Nat /\ CapFraction * quote.spread \in Nat
      /\ Fraction * quote.spread \in Nat /\ DebitRatio * quote.debit \in Nat
  BY <1>1, <1>2
<1>4. 50 * quote.spread <= CapFraction * quote.spread
  <2>. DEFINE f == CapFraction
              s == quote.spread
  <2>1. f \in Nat /\ s \in Nat /\ f >= 50
    BY <1>1, <1>2
  <2>. HIDE DEF f, s
  <2>2. (f - 50) * s >= 0
    BY <2>1
  <2>3. f * s = 50 * s + (f - 50) * s
    BY <2>1
  <2>4. 50 * s <= f * s
    BY <2>1, <2>2, <2>3
  <2>. QED BY <2>4 DEF f, s
<1>5. /\ Cents(CapFraction * quote.spread) \in Nat
      /\ CapFraction * quote.spread <= 100 * Cents(CapFraction * quote.spread) + 50
      /\ Cents(Fraction * quote.spread) \in Nat /\ Cents(DebitRatio * quote.debit) \in Nat
  BY <1>3, CentsNear
<1>6. ChaseStep \in Nat /\ ChaseStep >= 1 /\ MaxDebit \in Nat
  BY <1>5 DEF ChaseStep, MaxDebit, Hi
<1>7. MaxBuffer \in Nat /\ MaxBuffer >= 2 /\ MaxBuffer >= Cents(CapFraction * quote.spread)
  BY <1>5 DEF MaxBuffer, Hi
<1>8. Buffer \in Nat /\ Buffer <= Hi(100, 25 * quote.spread)
  BY <1>1, <1>3 DEF Buffer, Lo, Hi
<1>9. Buffer < 100 * MaxBuffer + 50
  <2>1. CASE 25 * quote.spread <= 100
    BY <1>3, <1>7, <1>8, <2>1 DEF Hi
  <2>2. CASE 25 * quote.spread > 100
    <3>1. Buffer <= 25 * quote.spread
      BY <1>3, <1>8, <2>2 DEF Hi
    <3>2. 50 * quote.spread <= 100 * MaxBuffer + 50
      BY <1>1, <1>3, <1>4, <1>5, <1>7
    <3>. QED BY <1>1, <1>7, <1>8, <2>2, <3>1, <3>2
  <2>. QED BY <1>3, <2>1, <2>2
<1>. QED BY <1>1, <1>6, <1>7, <1>8, <1>9

\* The first limit is a whole cent, so it lies within the buffer of the chase as well.
LEMMA FirstLimitFits ==
  ASSUME quote \in Candidate, side \in {"BUY", "SELL"}
  PROVE  /\ FirstLimit \in Int
         /\ side = "BUY" => FirstLimit <= quote.debit + MaxBuffer
         /\ side = "SELL" => FirstLimit >= quote.debit - MaxBuffer /\ FirstLimit >= 1
<1>1. /\ Buffer \in Nat /\ MaxBuffer \in Nat /\ Buffer < 100 * MaxBuffer + 50
      /\ quote.debit \in Nat /\ quote.debit >= 1
  BY Buffers
<1>2. CASE side = "BUY"
  <2>. DEFINE amount == 100 * quote.debit + Buffer
              limit1 == Cents(amount)
  <2>0. amount \in Nat
    BY <1>1
  <2>1. limit1 \in Nat /\ 100 * limit1 <= amount + 50
    <3>. HIDE DEF amount
    <3>. QED BY <2>0, CentsNear
  <2>2. FirstLimit = Hi(1, limit1)
    BY <1>2 DEF FirstLimit
  <2>. HIDE DEF limit1
  <2>3. limit1 <= quote.debit + MaxBuffer
    BY <1>1, <2>1
  <2>. QED BY <1>1, <1>2, <2>1, <2>2, <2>3 DEF Hi
<1>3. CASE side = "SELL"
  <2>. DEFINE amount == Hi(100, 100 * quote.debit - Buffer)
              limit1 == Cents(amount)
  <2>1. amount \in Nat /\ amount >= 100 * quote.debit - Buffer
    BY <1>1 DEF Hi
  <2>2. limit1 \in Nat /\ amount <= 100 * limit1 + 50
    BY <2>1, CentsNear
  <2>3. FirstLimit = Hi(1, limit1)
    BY <1>3 DEF FirstLimit
  <2>. HIDE DEF amount, limit1
  <2>4. limit1 >= quote.debit - MaxBuffer
    BY <1>1, <2>1, <2>2
  <2>. QED BY <1>1, <1>3, <2>2, <2>3, <2>4 DEF Hi
<1>. QED BY <1>2, <1>3

\* The next limit keeps within the buffer and the maximum debit, and unless the chase is
\* at its maximum it does not step back.
LEMMA NextLimitFits ==
  ASSUME TypeOK, WithinBuffer
  PROVE  /\ NextLimit \in Int
         /\ side = "BUY" => NextLimit <= quote.debit + MaxBuffer /\ NextLimit <= MaxDebit
         /\ side = "SELL" => NextLimit >= quote.debit - MaxBuffer /\ NextLimit >= 1
         /\ side = "BUY" /\ ~ AtMaxDebit => NextLimit >= limit
         /\ side = "SELL" => NextLimit <= limit
<1>1. /\ MaxBuffer \in Nat /\ ChaseStep \in Nat /\ ChaseStep >= 1 /\ MaxDebit \in Nat
      /\ quote.debit \in Nat /\ limit \in Int
  BY Buffers DEF TypeOK
<1>2. CASE side = "BUY"
  <2>1. NextLimit = Lo(Lo(quote.debit + MaxBuffer, MaxDebit), limit + ChaseStep)
    BY <1>2 DEF NextLimit
  <2>2. limit <= quote.debit + MaxBuffer
    BY <1>2 DEF WithinBuffer
  <2>3. ~ AtMaxDebit => ~ (NextLimit >= MaxDebit /\ limit >= MaxDebit)
    BY <1>2 DEF AtMaxDebit
  <2>. QED BY <1>1, <1>2, <2>1, <2>2, <2>3 DEF Lo
<1>3. CASE side = "SELL"
  <2>1. NextLimit = Hi(Hi(1, quote.debit - MaxBuffer), limit - ChaseStep)
    BY <1>3 DEF NextLimit
  <2>2. limit >= quote.debit - MaxBuffer /\ limit >= 1
    BY <1>3 DEF WithinBuffer
  <2>. QED BY <1>1, <1>3, <2>1, <2>2 DEF Hi
<1>. QED BY <1>2, <1>3 DEF TypeOK

----------------------------------------------------------------------------
(***************************************************************************)
(* The invariant.                                                          *)
(***************************************************************************)
LEMMA InitInv == Init => IInv
<1>. SUFFICES ASSUME Init PROVE IInv
  OBVIOUS
<1>1. side \in {"BUY", "SELL"} /\ quote \in Candidate
  BY SidesAssumption, CandidatesAssumption DEF Init
<1>2. Quantity \in Nat /\ Quantity > 0 /\ Steps \in Nat /\ Steps > 0 /\ 1 \in Attempts
  BY ChaseAssumption DEF Attempts
<1>3. TypeOK
  BY <1>1, <1>2, FirstLimitFits DEF Init, TypeOK, Statuses, Reasons
<1>4. WithinBuffer /\ ChasedWithinMaxDebit
  BY <1>1, FirstLimitFits DEF Init, WithinBuffer, ChasedWithinMaxDebit
<1>5. Untouched /\ ToldToStop /\ OneLiveOrder /\ AnsweredAtEnd
  BY DEF Init, Untouched, ToldToStop, OneLiveOrder, AnsweredAtEnd
<1>6. FillsAreReal
  BY <1>2 DEF Init, FillsAreReal
<1>. QED BY <1>3, <1>4, <1>5, <1>6 DEF IInv

LEMMA StepInv == IInv /\ [Next]_vars => IInv'
<1>. SUFFICES ASSUME IInv, [Next]_vars PROVE IInv'
  OBVIOUS
<1>0. /\ Quantity \in Nat /\ Quantity > 0 /\ Steps \in Nat /\ Attempts \subseteq Nat
      /\ step \in Attempts /\ step \in Nat
  BY ChaseAssumption DEF Attempts, IInv, TypeOK
<1>1. ASSUME NEW i \in Attempts, Fill(i) PROVE IInv'
  <2>1. /\ broker[i] = "working" /\ lots' = [lots EXCEPT ![i] = @ + 1]
        /\ account' = account + 1
        /\ broker' = [broker EXCEPT ![i] = IF lots'[i] = Quantity THEN "filled" ELSE @]
        /\ UNCHANGED <<side, quote, pc, step, limit, result, reason, seen, asked>>
    BY <1>1 DEF Fill, runnerVars
  <2>2. lots[i] \in Nat /\ lots[i] < Quantity /\ lots'[i] = lots[i] + 1 /\ lots'[i] \in 0..Quantity
    BY <1>0, <2>1 DEF IInv, TypeOK, FillsAreReal
  <2>3. TypeOK'
    BY <2>1, <2>2 DEF IInv, TypeOK
  <2>4. Untouched' /\ ToldToStop' /\ OneLiveOrder' /\ AnsweredAtEnd'
    BY <1>0, <2>1 DEF IInv, TypeOK, Untouched, ToldToStop, OneLiveOrder, AnsweredAtEnd
  <2>5. FillsAreReal'
    <3>1. \A j \in Attempts : /\ broker'[j] = "filled" => lots'[j] = Quantity
                              /\ broker'[j] = "working" => lots'[j] < Quantity
      BY <1>0, <2>1, <2>2 DEF IInv, TypeOK, FillsAreReal
    <3>2. step = i => pc = "place" \/ seen.status # "filled"
      BY <2>2 DEF IInv, FillsAreReal
    <3>3. account' >= lots'[step]
      BY <1>0, <2>1, <2>2 DEF IInv, TypeOK, FillsAreReal
    <3>4. \A j \in Attempts : j # i => lots'[j] = lots[j]
      BY <2>1 DEF IInv, TypeOK
    <3>5. pc # "place" /\ seen.status = "filled" => lots'[step] = Quantity
      BY <1>0, <3>2, <3>4 DEF IInv, FillsAreReal
    <3>. QED BY <2>1, <3>1, <3>3, <3>5 DEF FillsAreReal
  <2>6. WithinBuffer' /\ ChasedWithinMaxDebit'
    BY <2>1 DEF IInv, WithinBuffer, ChasedWithinMaxDebit, MaxBuffer, MaxDebit
  <2>. QED BY <2>3, <2>4, <2>5, <2>6 DEF IInv
<1>2. ASSUME NEW i \in Attempts, Refuse(i) \/ Cancel(i) PROVE IInv'
  <2>1. /\ broker[i] = "working"
        /\ \E s \in {"refused", "cancelled"} : broker' = [broker EXCEPT ![i] = s]
        /\ UNCHANGED <<side, quote, pc, step, limit, result, reason, seen, asked, lots, account>>
    BY <1>2 DEF Refuse, Cancel, runnerVars
  <2>2. TypeOK'
    BY <2>1 DEF IInv, TypeOK
  <2>3. Untouched' /\ ToldToStop' /\ OneLiveOrder' /\ FillsAreReal'
    BY <1>0, <2>1 DEF IInv, TypeOK, Untouched, ToldToStop, OneLiveOrder, FillsAreReal
  <2>4. AnsweredAtEnd'
    BY <2>1 DEF IInv, AnsweredAtEnd
  <2>5. WithinBuffer' /\ ChasedWithinMaxDebit'
    BY <2>1 DEF IInv, WithinBuffer, ChasedWithinMaxDebit, MaxBuffer, MaxDebit
  <2>. QED BY <2>2, <2>3, <2>4, <2>5 DEF IInv
<1>3. CASE Report
  <2>1. /\ seen' = [status |-> IF broker[step] = "working" THEN seen.status ELSE broker[step],
                    lots |-> lots[step]]
        /\ pc \in {"wait", "cancel", "drift"}
        /\ UNCHANGED <<side, quote, pc, step, limit, result, reason, asked, broker, lots, account>>
    BY <1>3 DEF Report, runnerVars, brokerVars
  <2>2. TypeOK'
    BY <1>0, <2>1 DEF IInv, TypeOK, Untouched, Statuses
  <2>3. Untouched' /\ ToldToStop' /\ OneLiveOrder' /\ FillsAreReal'
    BY <1>0, <2>1 DEF IInv, TypeOK, Untouched, ToldToStop, OneLiveOrder, FillsAreReal
  <2>4. AnsweredAtEnd'
    BY <2>1 DEF IInv, AnsweredAtEnd
  <2>5. WithinBuffer' /\ ChasedWithinMaxDebit'
    BY <2>1 DEF IInv, WithinBuffer, ChasedWithinMaxDebit, MaxBuffer, MaxDebit
  <2>. QED BY <2>2, <2>3, <2>4, <2>5 DEF IInv
<1>4. CASE Place
  <2>1. /\ pc = "place" /\ pc' = "wait" /\ broker' = [broker EXCEPT ![step] = "working"]
        /\ seen' = [status |-> "live", lots |-> 0]
        /\ UNCHANGED <<side, quote, step, limit, result, reason, lots, account, asked>>
    BY <1>4 DEF Place
  <2>2. TypeOK'
    BY <1>0, <2>1 DEF IInv, TypeOK, Statuses
  <2>3. Untouched' /\ ToldToStop' /\ OneLiveOrder' /\ FillsAreReal'
    BY <1>0, <2>1 DEF IInv, TypeOK, Untouched, ToldToStop, OneLiveOrder, FillsAreReal
  <2>4. AnsweredAtEnd'
    BY <2>1 DEF IInv, AnsweredAtEnd
  <2>5. WithinBuffer' /\ ChasedWithinMaxDebit'
    BY <2>1 DEF IInv, WithinBuffer, ChasedWithinMaxDebit, MaxBuffer, MaxDebit
  <2>. QED BY <2>2, <2>3, <2>4, <2>5 DEF IInv
<1>5. CASE AbortFromDrift \/ AskCancel
  <2>1. /\ pc = "wait" /\ pc' \in {"drift", "cancel"} /\ seen.status = "live"
        /\ (pc' = "cancel" => asked'[step])
        /\ \/ asked' = [asked EXCEPT ![step] = TRUE] /\ seen' = [seen EXCEPT !.status = "pending"]
           \/ UNCHANGED <<asked, seen>>
        /\ UNCHANGED <<side, quote, step, limit, result, reason, broker, lots, account>>
    <3>1. CASE AbortFromDrift
      BY <3>1 DEF AbortFromDrift, RequestCancel, brokerVars
    <3>2. CASE AskCancel
      BY <1>0, <3>2 DEF AskCancel, RequestCancel, brokerVars, IInv, TypeOK
    <3>. QED BY <1>5, <3>1, <3>2
  <2>2. TypeOK'
    BY <1>0, <2>1 DEF IInv, TypeOK, Statuses
  <2>3. Untouched' /\ ToldToStop' /\ OneLiveOrder' /\ FillsAreReal'
    BY <1>0, <2>1 DEF IInv, TypeOK, Untouched, ToldToStop, OneLiveOrder, FillsAreReal
  <2>4. AnsweredAtEnd'
    BY <2>1 DEF IInv, AnsweredAtEnd
  <2>5. WithinBuffer' /\ ChasedWithinMaxDebit'
    BY <2>1 DEF IInv, WithinBuffer, ChasedWithinMaxDebit, MaxBuffer, MaxDebit
  <2>. QED BY <2>2, <2>3, <2>4, <2>5 DEF IInv
<1>6. CASE Conclude \/ GiveUpFromDrift \/ CancelFails \/ Exhaust \/ ReachMaxDebit
  <2>1. /\ pc \in {"wait", "drift", "cancel"} /\ pc' = "done"
        /\ result' \in {"filled", "unfilled"} /\ reason' \in Reasons
        /\ UNCHANGED <<side, quote, step, limit, seen, broker, lots, account, asked>>
    BY <1>6 DEF Conclude, GiveUpFromDrift, CancelFails, Exhaust, ReachMaxDebit, Return,
                brokerVars, Reasons
  <2>2. TypeOK'
    BY <2>1 DEF IInv, TypeOK
  <2>3. Untouched' /\ ToldToStop' /\ OneLiveOrder' /\ FillsAreReal'
    BY <1>0, <2>1 DEF IInv, TypeOK, Untouched, ToldToStop, OneLiveOrder, FillsAreReal
  <2>4. AnsweredAtEnd'
    BY <2>1 DEF IInv, AnsweredAtEnd
  <2>5. WithinBuffer' /\ ChasedWithinMaxDebit'
    BY <2>1 DEF IInv, WithinBuffer, ChasedWithinMaxDebit, MaxBuffer, MaxDebit
  <2>. QED BY <2>2, <2>3, <2>4, <2>5 DEF IInv
<1>7. CASE Chase
  <2>1. /\ pc = "cancel" /\ pc' = "place" /\ step # Steps /\ step' = step + 1
        /\ limit' = NextLimit
        /\ UNCHANGED <<side, quote, result, reason, seen, broker, lots, account, asked>>
    BY <1>7 DEF Chase, brokerVars
  <2>2. step' \in Attempts
    BY <1>0, <2>1 DEF Attempts
  <2>3. NextLimit \in Int
    BY NextLimitFits DEF IInv
  <2>4. TypeOK'
    BY <2>1, <2>2, <2>3 DEF IInv, TypeOK
  <2>5. Untouched' /\ ToldToStop' /\ OneLiveOrder' /\ AnsweredAtEnd'
    BY <1>0, <2>1, <2>2 DEF IInv, TypeOK, Untouched, ToldToStop, OneLiveOrder, AnsweredAtEnd
  <2>6. FillsAreReal'
    BY <1>0, <2>1, <2>2 DEF IInv, TypeOK, Untouched, FillsAreReal
  <2>7. WithinBuffer' /\ ChasedWithinMaxDebit'
    <3>1. /\ side = "BUY" => limit' <= quote.debit + MaxBuffer /\ limit' <= MaxDebit
          /\ side = "SELL" => limit' >= quote.debit - MaxBuffer /\ limit' >= 1
      BY <2>1, NextLimitFits DEF IInv
    <3>2. MaxBuffer' = MaxBuffer /\ MaxDebit' = MaxDebit
      BY <2>1 DEF MaxBuffer, MaxDebit
    <3>. QED BY <2>1, <3>1, <3>2 DEF WithinBuffer, ChasedWithinMaxDebit
  <2>. QED BY <2>4, <2>5, <2>6, <2>7 DEF IInv
<1>8. CASE UNCHANGED vars
  BY <1>8 DEF vars, runnerVars, brokerVars, IInv, TypeOK, Untouched, ToldToStop, FillsAreReal, AnsweredAtEnd,
              OneLiveOrder, WithinBuffer, ChasedWithinMaxDebit, MaxBuffer, MaxDebit
<1>. QED BY <1>1, <1>2, <1>3, <1>4, <1>5, <1>6, <1>7, <1>8 DEF Next, Runner, Broker

LEMMA Invariance == Spec => []IInv
<1>. QED BY InitInv, StepInv, PTL DEF Spec

----------------------------------------------------------------------------
(***************************************************************************)
(* How much is traded.  The butterflies filled so far are counted one by   *)
(* one, as pairs of an attempt and a number, which replaces a sum over the *)
(* attempts.                                                               *)
(***************************************************************************)
Filled == {unit \in Attempts \X (1..Quantity) : unit[2] <= lots[unit[1]]}

CountsFills == account = Cardinality(Filled)

\* Only attempts that were made have fills.
LEMMA FilledBound ==
  ASSUME TypeOK, Untouched
  PROVE  /\ IsFiniteSet(Filled)
         /\ Cardinality(Filled) <= Quantity * step
<1>1. /\ Quantity \in Nat /\ step \in Nat
      /\ \A i \in Attempts : i \in Int /\ i >= 1 /\ lots[i] \in Int
  BY ChaseAssumption DEF TypeOK, Attempts
<1>2. /\ IsFiniteSet(1..step) /\ Cardinality(1..step) = step
      /\ IsFiniteSet(1..Quantity) /\ Cardinality(1..Quantity) = Quantity
  BY <1>1, FS_Interval
<1>3. /\ IsFiniteSet((1..step) \X (1..Quantity))
      /\ Cardinality((1..step) \X (1..Quantity)) = step * Quantity
  <2>. DEFINE made == 1..step  units == 1..Quantity
  <2>1. /\ IsFiniteSet(made) /\ Cardinality(made) = step
        /\ IsFiniteSet(units) /\ Cardinality(units) = Quantity
    BY <1>2
  <2>. HIDE DEF made, units
  <2>2. IsFiniteSet(made \X units)
    BY <2>1, FS_Product
  <2>3. Cardinality(made \X units) = Cardinality(made) * Cardinality(units)
    BY <2>1, FS_Product
  <2>4. Cardinality(made \X units) = step * Quantity
    BY <2>1, <2>3
  <2>. QED BY <2>2, <2>4 DEF made, units
<1>4. Filled \subseteq (1..step) \X (1..Quantity)
  <2>. SUFFICES ASSUME NEW i \in Attempts, NEW k \in 1..Quantity, k <= lots[i]
                PROVE  i \in 1..step
    BY DEF Filled
  <2>1. ~ (i > step)
    BY <1>1 DEF Untouched
  <2>. QED BY <1>1, <2>1
<1>5. /\ IsFiniteSet(Filled)
      /\ Cardinality(Filled) <= Cardinality((1..step) \X (1..Quantity))
  BY <1>3, <1>4, FS_Subset
<1>. QED BY <1>1, <1>3, <1>5

LEMMA CountInit == Init => CountsFills
<1>. SUFFICES ASSUME Init PROVE CountsFills
  OBVIOUS
<1>1. Filled = {}
  BY ChaseAssumption DEF Init, Filled
<1>. QED BY <1>1, FS_EmptySet DEF Init, CountsFills

\* A fill is the one unit that comes next in its attempt.
LEMMA CountStep == IInv /\ CountsFills /\ [Next]_vars => CountsFills'
<1>. SUFFICES ASSUME IInv, CountsFills, [Next]_vars PROVE CountsFills'
  OBVIOUS
<1>1. ASSUME NEW i \in Attempts, Fill(i) PROVE CountsFills'
  <2>. DEFINE unit == <<i, lots[i] + 1>>
  <2>1. /\ lots \in [Attempts -> 0..Quantity] /\ lots' = [lots EXCEPT ![i] = @ + 1]
        /\ account' = account + 1 /\ lots[i] < Quantity
    BY <1>1 DEF Fill, IInv, TypeOK, FillsAreReal
  <2>2. Quantity \in Nat /\ lots[i] \in Nat /\ lots[i] + 1 \in 1..Quantity
    BY <2>1, ChaseAssumption
  <2>3. unit \in Attempts \X (1..Quantity) /\ unit \notin Filled
    BY <2>2 DEF Filled
  <2>4. ASSUME NEW j \in Attempts, NEW k \in 1..Quantity
        PROVE  k <= lots'[j] <=> k <= lots[j] \/ <<j, k>> = unit
    <3>1. CASE j = i
      BY <2>1, <2>2, <3>1
    <3>2. CASE j # i
      BY <2>1, <3>2
    <3>. QED BY <3>1, <3>2
  <2>5. Filled' = Filled \cup {unit}
    <3>. HIDE DEF unit
    <3>. QED BY <2>3, <2>4 DEF Filled
  <2>6. IsFiniteSet(Filled)
    BY FilledBound DEF IInv
  <2>7. Cardinality(Filled \cup {unit}) = Cardinality(Filled) + 1
    BY <2>3, <2>6, FS_AddElement
  <2>. QED BY <2>1, <2>5, <2>7 DEF CountsFills
<1>2. CASE UNCHANGED <<lots, account>>
  BY <1>2 DEF CountsFills, Filled
<1>3. (\E i \in Attempts : Fill(i)) \/ UNCHANGED <<lots, account>>
  BY DEF Next, Runner, Broker, Refuse, Cancel, Report, Place, Conclude, AbortFromDrift,
         GiveUpFromDrift, AskCancel, CancelFails, Exhaust, ReachMaxDebit, Chase,
         vars, brokerVars
<1>. QED BY <1>1, <1>2, <1>3

----------------------------------------------------------------------------
(***************************************************************************)
(* The theorems.                                                           *)
(***************************************************************************)
\* Type correctness of the chase.
THEOREM ChaseTypeCorrect == Spec => []TypeOK
<1>1. IInv => TypeOK
  BY DEF IInv
<1>. QED BY <1>1, Invariance, PTL

\* At most one order works that was not told to stop.
THEOREM OneOrderLive == Spec => []OneLiveOrder
<1>1. IInv => OneLiveOrder
  BY DEF IInv
<1>. QED BY <1>1, Invariance, PTL

\* Every limit lies within the buffer of the chase.
THEOREM LimitsBounded == Spec => []WithinBuffer
<1>1. IInv => WithinBuffer
  BY DEF IInv
<1>. QED BY <1>1, Invariance, PTL

\* A chased BUY never exceeds the maximum total debit.
THEOREM DebitBounded == Spec => []ChasedWithinMaxDebit
<1>1. IInv => ChasedWithinMaxDebit
  BY DEF IInv
<1>. QED BY <1>1, Invariance, PTL

\* The limits of a chase go towards the market.
THEOREM TowardsMarket == Spec => ChasesTowardsMarket
<1>1. IInv /\ [Next]_vars =>
        [step' # step => /\ side = "BUY" => limit' >= limit
                         /\ side = "SELL" => limit' <= limit]_vars
  <2>. SUFFICES ASSUME IInv, [Next]_vars, step' # step
                PROVE  /\ side = "BUY" => limit' >= limit
                       /\ side = "SELL" => limit' <= limit
    OBVIOUS
  <2>1. Chase
    BY DEF vars, runnerVars, brokerVars, Next, Runner, Broker, Fill, Refuse, Cancel, Report,
           Place, Conclude, AbortFromDrift, GiveUpFromDrift, AskCancel, CancelFails, Exhaust,
           ReachMaxDebit, Return
  <2>2. limit' = NextLimit /\ ~ AtMaxDebit
    BY <2>1 DEF Chase
  <2>. QED BY <2>2, NextLimitFits DEF IInv
<1>. QED BY <1>1, Invariance, PTL DEF Spec, ChasesTowardsMarket

\* An order implements OrderAttempt: whatever is filled late or in part, an answer of
\* "filled" has the whole quantity behind it.
THEOREM PromiseKept == Spec => KeepsPromise
<1>1. Init => Attempt!Init
  BY DEF Init, Attempt!Init
<1>2. IInv /\ [Next]_vars => [Attempt!Next]_(Attempt!attemptVars)
  <2>. SUFFICES ASSUME IInv, [Next]_vars PROVE [Attempt!Next]_(Attempt!attemptVars)
    OBVIOUS
  <2>1. ASSUME NEW i \in Attempts, Fill(i) PROVE Attempt!Trade
    BY <2>1 DEF Fill, runnerVars, Attempt!Trade
  <2>2. ASSUME pc \in {"wait", "drift", "cancel"}, NEW why, Return(why), UNCHANGED account
        PROVE  Attempt!Next
    <3>1. result = "none"
      BY <2>2 DEF IInv, AnsweredAtEnd
    <3>2. IsFilled => account >= Quantity
      BY <2>2 DEF IInv, FillsAreReal, IsFilled
    <3>. QED BY <2>2, <3>1, <3>2 DEF Return, Attempt!Next, Attempt!Answer
  <2>3. CASE Conclude \/ GiveUpFromDrift \/ CancelFails \/ Exhaust \/ ReachMaxDebit
    BY <2>2, <2>3 DEF Conclude, GiveUpFromDrift, CancelFails, Exhaust, ReachMaxDebit, brokerVars
  <2>4. CASE (\E i \in Attempts : Refuse(i) \/ Cancel(i)) \/ Report \/ Place
    BY <2>4 DEF Refuse, Cancel, Report, Place, runnerVars, brokerVars, Attempt!attemptVars
  <2>5. CASE AbortFromDrift \/ AskCancel \/ Chase
    BY <2>5 DEF AbortFromDrift, AskCancel, Chase, brokerVars, Attempt!attemptVars
  <2>6. CASE UNCHANGED vars
    BY <2>6 DEF vars, runnerVars, brokerVars, Attempt!attemptVars
  <2>. QED BY <2>1, <2>3, <2>4, <2>5, <2>6 DEF Next, Runner, Broker, Attempt!Next
<1>. QED BY <1>1, <1>2, Invariance, PTL DEF Spec, KeepsPromise, Attempt!Spec

\* However late, partial or repeated the fills are, an order trades at most its quantity for
\* each attempt that was made: nothing else bounds it.
THEOREM OverfillBounded == Spec => []BoundedOverfill
<1>1. IInv /\ CountsFills => BoundedOverfill
  BY FilledBound DEF IInv, CountsFills, BoundedOverfill
<1>. QED BY <1>1, Invariance, InitInv, CountInit, StepInv, CountStep, PTL DEF Spec

\* A chase of a single attempt keeps to --quantity: what exceeds it is due to the attempts
\* that follow one whose fills are not subtracted.
THEOREM SingleAttemptKeepsQuantity ==
  ASSUME Steps = 1
  PROVE  Spec => []TradesQuantity
<1>1. IInv /\ BoundedOverfill => TradesQuantity
  <2>. SUFFICES ASSUME IInv, BoundedOverfill PROVE TradesQuantity
    OBVIOUS
  <2>1. step = 1 /\ account \in Nat /\ Quantity \in Nat
    BY ChaseAssumption DEF IInv, TypeOK, Attempts
  <2>. QED BY <2>1 DEF BoundedOverfill, TradesQuantity
<1>. QED BY <1>1, Invariance, OverfillBounded, PTL

\* Every step of the runner wears the chase out, so that it makes at most three per attempt.
THEOREM ChaseEnds == Spec => ChaseWearsOut
<1>1. IInv /\ [Next]_vars => [Runner => StepsLeft' \in 0..(StepsLeft - 1)]_vars
  <2>. SUFFICES ASSUME IInv, Runner PROVE StepsLeft' \in 0..(StepsLeft - 1)
    OBVIOUS
  <2>1. Steps \in Int /\ step \in Int /\ step <= Steps
    BY ChaseAssumption DEF IInv, TypeOK, Attempts
  <2>2. CASE Place
    BY <2>1, <2>2 DEF Place, StepsLeft
  <2>3. CASE AbortFromDrift \/ AskCancel
    BY <2>1, <2>3 DEF AbortFromDrift, AskCancel, StepsLeft
  <2>4. CASE Conclude \/ GiveUpFromDrift \/ CancelFails \/ Exhaust \/ ReachMaxDebit
    BY <2>1, <2>4 DEF Conclude, GiveUpFromDrift, CancelFails, Exhaust, ReachMaxDebit, Return,
                      StepsLeft
  <2>5. CASE Chase
    BY <2>1, <2>5 DEF Chase, StepsLeft
  <2>. QED BY <2>2, <2>3, <2>4, <2>5 DEF Runner
<1>. QED BY <1>1, Invariance, PTL DEF Spec, ChaseWearsOut

=============================================================================
