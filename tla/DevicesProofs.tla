---------------------------- MODULE DevicesProofs ----------------------------
(***************************************************************************)
(* The drivers against their devices: delays last as long as asked for,    *)
(* the PHYs of an RB3011 are powered down and nothing else, each transfer  *)
(* of the serial line is finished before the next is begun, and the resets *)
(* of the switches are pulses of 20 ms.                                    *)
(***************************************************************************)
EXTENDS Devices, FiniteSetTheorems, SequenceTheorems, WellFoundedInduction, TLAPS

-----------------------------------------------------------------------------
(* The timer: how long delays last, for every width of the counter, wherever it
   stands when the first of them begins. *)

\* Delays of t periods: n of them are over.
Lasting(n, t) == n * t

\* An edge has been seen for each tick of runcount, where counting is as expected,
\* and never more than have been asked for.
WaitInv ==
  LET t == Ticks(usec) IN
    /\ waiting # "poll" =>
         /\ periods <= Lasting(due - left, t)
         /\ CountsAsExpected => periods = Lasting(due - left, t)
    /\ waiting = "poll" =>
         /\ left < due /\ last = count
         /\ \/ /\ runcount < val /\ val - runcount <= t
               /\ periods + (val - runcount) <= Lasting(due - left, t)
               /\ CountsAsExpected => periods + (val - runcount) = Lasting(due - left, t)
               /\ modulus = Word => runcount = count
            \/ /\ ~CountsAsExpected /\ modulus = Word
               /\ runcount = count /\ val <= count /\ val < GPT_FREQ
               /\ periods + t <= Lasting(due - left, t)
    /\ waiting = "done" => left = 0
    /\ modulus = Word /\ CountsAsExpected => count = began + periods

TimerInv == TimerTypeOK /\ WaitInv

-----------------------------------------------------------------------------
(* Arithmetic of the timer. *)

Remainder(x, m) == x % m

\* A remainder within one period of its divisor.
LEMMA ModStep ==
  ASSUME NEW m \in Nat \ {0}, NEW x \in Nat, x < m + m
  PROVE  Remainder(x, m) = IF x < m THEN x ELSE x - m
  BY SMT DEF Remainder

LEMMA DivPositive ==
  ASSUME NEW k \in Nat \ {0}, NEW x \in Nat, x >= k
  PROVE  x \div k >= 1 /\ x \div k \in Nat
  BY SMT

\* Every delay is at least one tick and at most GPT_FREQ (the rounding in __udelay).
LEMMA TicksRange ==
  ASSUME NEW u \in Usecs
  PROVE  Ticks(u) \in 1 .. GPT_FREQ
<1>1. u \in Nat \ {0} /\ GPT_FREQ_KHZ \in Nat \ {0} /\ GPT_FREQ \in Nat
  BY TimerAssumption
<1>2. u + GPT_FREQ_KHZ - 1 \in Nat /\ u + GPT_FREQ_KHZ - 1 >= GPT_FREQ_KHZ
  BY <1>1
<1>3. (u + GPT_FREQ_KHZ - 1) \div GPT_FREQ_KHZ >= 1 /\ (u + GPT_FREQ_KHZ - 1) \div GPT_FREQ_KHZ \in Nat
  BY <1>1, <1>2, DivPositive
<1>4. (u + GPT_FREQ_KHZ - 1) \div GPT_FREQ_KHZ <= GPT_FREQ
  BY TimerAssumption
<1> QED BY <1>1, <1>3, <1>4 DEF Ticks

LEMMA LastingFacts ==
  ASSUME NEW n \in Nat, NEW t \in Nat
  PROVE  Lasting(n, t) \in Nat /\ Lasting(0, t) = 0 /\ Lasting(n + 1, t) = Lasting(n, t) + t
  BY SMT DEF Lasting

LEMMA LastingMonotone ==
  ASSUME NEW n \in Nat, NEW m \in Nat, m <= n, NEW t \in Nat
  PROVE  Lasting(m, t) <= Lasting(n, t)
  BY SMT DEF Lasting

\* Time goes on by less than a period: the counter stays, or goes on by one.
LEMMA EdgeOrNot ==
  ASSUME TimerTypeOK, NEW d \in 1 .. Lag, TimePasses(d)
  PROVE  /\ part' \in 0 .. Parts - 1 /\ count' \in 0 .. modulus - 1 /\ periods' \in Nat
         /\ \/ periods' = periods /\ count' = count
            \/ periods' = periods + 1 /\ count' = IF count + 1 < modulus THEN count + 1 ELSE 0
<1> USE TimerAssumption DEF TimerTypeOK
<1>1. modulus \in Nat \ {0} /\ count \in Nat /\ count + 1 <= modulus
  OBVIOUS
<1>2. (count + 1) % modulus = IF count + 1 < modulus THEN count + 1 ELSE 0
  <2>1. count + 1 \in Nat /\ count + 1 < modulus + modulus
    BY <1>1
  <2>2. Remainder(count + 1, modulus) = IF count + 1 < modulus THEN count + 1 ELSE 0
    BY <2>1, <1>1, ModStep
  <2> QED BY <2>2 DEF Remainder
<1> QED BY <1>1, <1>2 DEF TimePasses

-----------------------------------------------------------------------------
LEMMA TimerInitially == TimerInit => TimerInv
<1> SUFFICES ASSUME TimerInit PROVE TimerInv
  OBVIOUS
<1>1. TimerTypeOK
  BY TimerAssumption DEF TimerInit, TimerTypeOK
<1>2. WaitInv
  <2>1. Ticks(usec) \in Nat /\ due - left = 0
    BY TicksRange, TimerAssumption DEF TimerInit
  <2>2. Lasting(due - left, Ticks(usec)) = 0
    BY <2>1, LastingFacts
  <2> QED BY <2>1, <2>2, <1>1 DEF TimerInit, WaitInv, TimerTypeOK
<1> QED BY <1>1, <1>2 DEF TimerInv

\* A delay begins: val either lies ahead, or it wraps to below the counter.
LEMMA DelayBeginKeeps == TimerInv /\ Begin => TimerInv'
<1> SUFFICES ASSUME TimerInv, Begin PROVE TimerInv'
  OBVIOUS
<1> DEFINE t == Ticks(usec)
<1>1. t \in 1 .. GPT_FREQ /\ GPT_FREQ \in Nat /\ Word \in Nat /\ GPT_FREQ + GPT_FREQ < Word
  BY TicksRange, TimerAssumption DEF TimerInv, TimerTypeOK
<1>2. count \in 0 .. modulus - 1 /\ modulus \in {GPT_FREQ, Word} /\ left \in Nat /\ left > 0
      /\ due \in Nat /\ left <= due /\ periods \in Nat /\ began \in Nat
  BY TimerAssumption DEF TimerInv, TimerTypeOK, Begin
<1> HIDE DEF t
<1>3. val' = IF t + count < Word THEN t + count ELSE t + count - Word
  <2>1. t \in Nat /\ count \in Nat /\ t + count < Word + Word /\ Word \in Nat \ {0}
    BY <1>1, <1>2
  <2>2. Remainder(t + count, Word) = IF t + count < Word THEN t + count ELSE t + count - Word
    BY <2>1, ModStep
  <2>3. val' = Remainder(t + count, Word)
    BY DEF Begin, Remainder, t
  <2> QED BY <2>2, <2>3
<1>4. TimerTypeOK'
  BY <1>1, <1>2, <1>3, TimerAssumption DEF TimerInv, TimerTypeOK, Begin, history
<1>5. t' = t /\ CountsAsExpected' = CountsAsExpected
  BY DEF Begin, history, CountsAsExpected, t
<1>6. Lasting(due' - left', t) = Lasting(due - left, t) + t /\ Lasting(due - left, t) \in Nat
  <2>1. due - left \in Nat /\ due' - left' = (due - left) + 1
    BY <1>2 DEF Begin, history
  <2>2. Lasting((due - left) + 1, t) = Lasting(due - left, t) + t /\ Lasting(due - left, t) \in Nat
    <3>1. t \in Nat
      BY <1>1
    <3> QED BY <2>1, <3>1, LastingFacts, Zenon
  <2> QED BY <2>1, <2>2
<1>7. periods <= Lasting(due - left, t) /\ (CountsAsExpected => periods = Lasting(due - left, t))
      /\ (modulus = Word /\ CountsAsExpected => count = began + periods)
  BY DEF TimerInv, WaitInv, Begin, t
<1>8. CountsAsExpected => t + count < Word
  <2>1. SUFFICES ASSUME CountsAsExpected, modulus = Word PROVE t + count < Word
    BY <1>1, <1>2
  <2>2. Lasting(due' - left', t) <= Lasting(due, t)
    BY <1>1, <1>2, LastingMonotone DEF Begin, history
  <2>3. Lasting(due, t) = due * Ticks(usec)
    BY DEF Lasting, t
  <2>4. began + Lasting(due, t) < Word /\ Lasting(due, t) \in Nat
    BY <2>1, <2>3, <1>1, <1>2, LastingFacts DEF CountsAsExpected
  <2> QED BY <2>1, <2>2, <2>4, <1>1, <1>2, <1>6, <1>7
<1>9. WaitInv'
  <2>1. waiting' = "poll" /\ left' < due' /\ last' = count' /\ runcount' = count' /\ count' = count
        /\ periods' = periods /\ began' = began /\ modulus' = modulus
    BY <1>2 DEF Begin, history
  <2>2. CASE t + count < Word
    BY <2>1, <2>2, <1>1, <1>2, <1>3, <1>5, <1>6, <1>7 DEF WaitInv, t
  <2>3. CASE t + count >= Word
    BY <2>1, <2>3, <1>1, <1>2, <1>3, <1>5, <1>6, <1>7, <1>8 DEF WaitInv, t
  <2> QED BY <2>2, <2>3, <1>1, <1>2
<1> QED BY <1>4, <1>9 DEF TimerInv

\* One pass of the loop: runcount goes on by what the counter does.
LEMMA DelayPollKeeps == TimerInv /\ Poll => TimerInv'
<1> SUFFICES ASSUME TimerInv, Poll PROVE TimerInv'
  OBVIOUS
<1> DEFINE t == Ticks(usec)
           now == count'
<1>1. t \in 1 .. GPT_FREQ /\ GPT_FREQ \in Nat \ {0, 1} /\ Word \in Nat /\ GPT_FREQ + GPT_FREQ < Word
  BY TicksRange, TimerAssumption DEF TimerInv, TimerTypeOK
<1>2. PICK d \in 1 .. Lag : TimePasses(d)
  BY DEF Poll, Pass
<1>3. /\ part' \in 0 .. Parts - 1 /\ now \in 0 .. modulus - 1 /\ periods' \in Nat
      /\ \/ periods' = periods /\ now = count
         \/ periods' = periods + 1 /\ now = IF count + 1 < modulus THEN count + 1 ELSE 0
  BY <1>2, EdgeOrNot DEF TimerInv
<1>4. /\ count \in 0 .. modulus - 1 /\ modulus \in {GPT_FREQ, Word} /\ left \in Nat /\ due \in Nat
      /\ left <= due /\ periods \in Nat /\ began \in Nat /\ runcount \in 0 .. Word - 1 /\ val \in 0 .. Word - 1
  BY TimerAssumption DEF TimerInv, TimerTypeOK
<1>5. /\ last = count /\ left < due
      /\ runcount' = Remainder(runcount + Progress(now), Word) /\ last' = now
      /\ waiting' = IF runcount' < val THEN "poll" ELSE "next"
      /\ left' = left /\ val' = val /\ UNCHANGED history
  BY DEF TimerInv, WaitInv, Poll, Pass, Remainder
<1>6. t' = t /\ CountsAsExpected' = CountsAsExpected
  BY <1>5 DEF history, CountsAsExpected
<1>7. /\ modulus' = modulus /\ usec' = usec /\ due' = due /\ began' = began /\ first' = first
  BY <1>5 DEF history
<1> DEFINE o == Lasting(due - left, t)
<1>8. o \in Nat
  <2>1. due - left \in Nat /\ t \in Nat
    BY <1>1, <1>4
  <2> QED BY <2>1, LastingFacts
<1>9. /\ \/ /\ runcount < val /\ val - runcount <= t
            /\ periods + (val - runcount) <= o
            /\ CountsAsExpected => periods + (val - runcount) = o
            /\ modulus = Word => runcount = count
         \/ /\ ~CountsAsExpected /\ modulus = Word
            /\ runcount = count /\ val <= count /\ val < GPT_FREQ
            /\ periods + t <= o
      /\ modulus = Word /\ CountsAsExpected => count = began + periods
  BY DEF TimerInv, WaitInv, Poll, Pass
<1>10. o' = o
  BY <1>5, <1>6, <1>7
<1>11. Poll /\ TimerInv => usec \in Usecs /\ due \in Times /\ began \in 0 .. modulus - 1 /\ first \in 0 .. Parts - 1
                       /\ left \in 0 .. due
  BY DEF TimerInv, TimerTypeOK
<1> DEFINE progress == Progress(now)
<1>12. progress = IF count > now THEN (GPT_FREQ - count) + now ELSE now - count
  BY <1>5 DEF Progress
<1> HIDE DEF t, o, now, progress
<1>13. CASE runcount < val
  <2>1. /\ progress \in {0, 1} /\ periods' = periods + progress
        /\ modulus = Word => now = count + progress
    <3>1. CASE now = count /\ periods' = periods
      BY <3>1, <1>4, <1>12
    <3>2. CASE count + 1 < modulus /\ now = count + 1 /\ periods' = periods + 1
      BY <3>2, <1>1, <1>4, <1>12
    <3>3. CASE count + 1 = modulus /\ now = 0 /\ periods' = periods + 1
      <4>1. modulus = GPT_FREQ
        BY <3>3, <1>13, <1>4, <1>9
      <4> QED BY <4>1, <3>3, <1>1, <1>4, <1>12
    <3> QED BY <3>1, <3>2, <3>3, <1>1, <1>3, <1>4
  <2>2. runcount' = runcount + progress
    <3>1. runcount + progress \in Nat /\ runcount + progress < Word /\ Word \in Nat \ {0}
          /\ runcount \in Nat /\ progress \in Nat
      BY <2>1, <1>13, <1>1, <1>4
    <3>2. Remainder(runcount + progress, Word) = runcount + progress
      BY <3>1, ModStep
    <3> QED BY <3>2, <1>5 DEF progress
  <2>3. runcount' \in 0 .. Word - 1
    BY <2>1, <2>2, <1>1, <1>4, <1>13
  <2>4. TimerTypeOK'
    BY <2>3, <1>3, <1>4, <1>5, <1>7, <1>11 DEF TimerTypeOK, now
  <2>5. periods' + (val - runcount') = periods + (val - runcount)
    BY <2>1, <2>2, <1>3, <1>4
  <2>6. modulus = Word => runcount' = now
    BY <2>1, <2>2, <1>9, <1>13, <1>4
  <2>7. modulus = Word /\ CountsAsExpected => now = began + periods'
    BY <2>1, <1>9, <1>4
  <2>8. runcount' >= val => runcount' = val
    BY <2>1, <2>2, <1>4, <1>13
  <2>9. /\ periods + (val - runcount) <= o
        /\ CountsAsExpected => periods + (val - runcount) = o
        /\ val - runcount <= t
    BY <1>9, <1>13, <1>4
  <2>10. CASE runcount' < val
    <3>1. val - runcount' <= t
      BY <2>1, <2>2, <2>9, <1>1, <1>4
    <3> QED BY <3>1, <2>4, <2>5, <2>6, <2>7, <2>9, <2>10, <1>4, <1>5, <1>6, <1>7, <1>10 DEF TimerInv, WaitInv, t, o, now
  <2>11. CASE ~(runcount' < val)
    <3>1. runcount' = val /\ waiting' = "next"
      BY <2>3, <2>8, <2>11, <1>4, <1>5
    <3>2. periods' <= o /\ (CountsAsExpected => periods' = o)
      <4>1. val - runcount' = 0
        BY <3>1, <1>1, <1>4
      <4>2. periods' = periods + (val - runcount)
        BY <4>1, <2>5, <1>3
      <4> QED BY <4>2, <2>9
    <3> QED BY <3>1, <3>2, <2>4, <2>7, <1>4, <1>5, <1>6, <1>7, <1>10 DEF TimerInv, WaitInv, t, o, now
  <2> QED BY <2>10, <2>11
<1>14. CASE ~(runcount < val)
  <2>1. ~CountsAsExpected /\ modulus = Word /\ runcount = count /\ val < GPT_FREQ /\ periods + t <= o
    BY <1>9, <1>14
  <2>2. runcount + progress = (IF count > now THEN GPT_FREQ ELSE now)
    <3>1. count > now => now = 0
      BY <2>1, <1>1, <1>3, <1>4
    <3>2. count \in Nat /\ now \in Nat /\ GPT_FREQ \in Nat
      BY <1>1, <1>3, <1>4
    <3> QED BY <3>1, <3>2, <2>1, <1>12
  <2>3. runcount' = runcount + progress
    <3> DEFINE x == runcount + progress
    <3>1. x \in Nat /\ x < Word /\ Word \in Nat \ {0}
      BY <2>1, <2>2, <1>1, <1>3, <1>4
    <3>2. runcount' = Remainder(x, Word)
      BY <1>5 DEF progress
    <3> HIDE DEF x
    <3>3. Remainder(x, Word) = x
      BY <3>1, ModStep
    <3> QED BY <3>2, <3>3 DEF x
  <2>4. runcount' \in 0 .. Word - 1 /\ ~(runcount' < val)
    BY <2>1, <2>2, <2>3, <1>1, <1>3, <1>4, <1>14
  <2>5. TimerTypeOK'
    BY <2>4, <1>3, <1>4, <1>5, <1>7, <1>11 DEF TimerTypeOK, now
  <2>6. periods' <= o /\ waiting' = "next"
    BY <2>1, <2>4, <1>1, <1>3, <1>4, <1>5, <1>8
  <2> QED BY <2>1, <2>5, <2>6, <1>5, <1>6, <1>7, <1>10 DEF TimerInv, WaitInv, t, o
<1> QED BY <1>13, <1>14

LEMMA DelayFinishKeeps == TimerInv /\ Finish => TimerInv'
<1> SUFFICES ASSUME TimerInv, Finish PROVE TimerInv'
  OBVIOUS
<1>1. TimerTypeOK'
  BY DEF TimerInv, TimerTypeOK, Finish, history
<1>2. WaitInv'
  BY DEF TimerInv, WaitInv, Finish, history, CountsAsExpected
<1> QED BY <1>1, <1>2 DEF TimerInv

\* The invariant holds at every moment.
THEOREM TimerInductive == TimerSpec => []TimerInv
<1>1. TimerInv /\ UNCHANGED timerVars => TimerInv'
  BY DEF TimerInv, TimerTypeOK, WaitInv, CountsAsExpected, timerVars, history
<1>2. TimerInv /\ [TimerNext]_timerVars => TimerInv'
  BY <1>1, DelayBeginKeeps, DelayPollKeeps, DelayFinishKeeps DEF TimerNext
<1> QED BY <1>2, TimerInitially, PTL DEF TimerSpec

-----------------------------------------------------------------------------
\* Periods and parts of them.
LEMMA InPeriods ==
  ASSUME NEW k \in Nat, NEW n \in Nat, NEW p \in Nat \ {0},
         NEW f \in 0 .. p - 1, NEW r \in 0 .. p - 1
  PROVE  /\ k <= n => k * p + r - f < (n + 1) * p
         /\ k >= n => k * p + r - f > (n - 1) * p
<1>1. (n + 1) * p = (n * p) + p /\ (n - 1) * p = (n * p) - p
      /\ k * p \in Nat /\ n * p \in Nat
  BY SMT
<1>2. (k <= n => k * p <= n * p) /\ (k >= n => k * p >= n * p)
  BY SMT
<1> QED BY <1>1, <1>2

LEMMA DelayLengths == TimerInv => Waited /\ NotTooLong
<1> SUFFICES ASSUME TimerInv PROVE Waited /\ NotTooLong
  OBVIOUS
<1> DEFINE t == Ticks(usec)
<1>1. /\ t \in Nat /\ due \in Nat /\ left \in 0 .. due /\ periods \in Nat
      /\ Parts \in Nat \ {0} /\ part \in 0 .. Parts - 1 /\ first \in 0 .. Parts - 1
  BY TicksRange, TimerAssumption DEF TimerInv, TimerTypeOK
<1>2. WaitInv
  BY DEF TimerInv
<1> HIDE DEF t
<1>3. due - left \in Nat /\ due - left <= due
  BY <1>1
<1>4. Lasting(due - left, t) <= Lasting(due, t) /\ Lasting(due, t) \in Nat /\ Lasting(due - left, t) \in Nat
  BY <1>1, <1>3, LastingFacts, LastingMonotone
<1>5. periods <= Lasting(due, t)
  <2>1. CASE waiting # "poll"
    <3>1. periods <= Lasting(due - left, t)
      BY <2>1, <1>2 DEF WaitInv, t
    <3> QED BY <3>1, <1>1, <1>4
  <2>2. CASE waiting = "poll"
    <3>1. \/ runcount < val /\ periods + (val - runcount) <= Lasting(due - left, t)
          \/ periods + t <= Lasting(due - left, t)
      BY <2>2, <1>2 DEF WaitInv, t
    <3>2. runcount \in Nat /\ val \in Nat
      BY TimerAssumption DEF TimerInv, TimerTypeOK
    <3> QED BY <3>1, <3>2, <1>1, <1>4
  <2> QED BY <2>1, <2>2
<1>6. waiting = "done" /\ CountsAsExpected => periods = Lasting(due, t)
  <2>1. waiting = "done" /\ CountsAsExpected => left = 0 /\ periods = Lasting(due - left, t)
    BY <1>2 DEF WaitInv, t
  <2>2. left = 0 => due - left = due
    BY <1>1
  <2> QED BY <2>1, <2>2
<1> DEFINE n == Lasting(due, t)
<1>7. n = due * Ticks(usec)
  BY DEF Lasting, t
<1> HIDE DEF n
<1>8. n \in Nat /\ periods <= n /\ (waiting = "done" /\ CountsAsExpected => periods >= n)
  BY <1>1, <1>4, <1>5, <1>6 DEF n
<1>9. /\ periods * Parts + part - first < (n + 1) * Parts
      /\ periods >= n => periods * Parts + part - first > (n - 1) * Parts
  BY <1>1, <1>8, InPeriods
<1>10. NotTooLong
  BY <1>7, <1>9 DEF NotTooLong, Elapsed
<1>11. Waited
  BY <1>7, <1>8, <1>9 DEF Waited, Elapsed
<1> QED BY <1>10, <1>11

\* __udelay and mdelay: less than one period is missing, whatever the delay, however
\* many of them follow each other.
THEOREM DelaysWait == TimerSpec => []Waited
  BY TimerInductive, DelayLengths, PTL

\* No wait lasts longer than asked for by a period, also where the counter wraps.
THEOREM DelaysBounded == TimerSpec => []NotTooLong
  BY TimerInductive, DelayLengths, PTL

THEOREM TimerTypeCorrect == TimerSpec => []TimerTypeOK
<1>1. TimerInv => TimerTypeOK
  BY DEF TimerInv
<1> QED BY <1>1, TimerInductive, PTL

-----------------------------------------------------------------------------
(* The PHYs. *)

Current == <<bus, a>>
PoweredDown == Initial \cup {"PDOWN"}

\* An operation in flight is the one the loop waits for, on the bus it waits at.
BusInv ==
  /\ \A b \in Buses : b # bus \/ phase # "poll" => flight[b] = {}
  /\ phase = "poll" => flight[bus] \subseteq {[op |-> op, phy |-> a]}

\* The word read, or to be written, is still what BMCR of the current PHY holds.
Answered == phase = "poll" /\ flight[bus] = {}
CurrentInv ==
  /\ phase = "try" => bmcr[Current] = Initial
  /\ phase = "data" => op = "write"
  /\ phase \in {"start", "data", "poll"} =>
       /\ op = "id" =>
            bmcr[Current] = Initial /\ (Answered /\ data[bus] = Id => ready[Current])
       /\ op = "bmcr" =>
            bmcr[Current] = Initial /\ ready[Current] /\ (Answered => data[bus] = Initial)
       /\ op = "write" =>
            /\ ready[Current] /\ value = PoweredDown
            /\ phase # "data" => data[bus] = PoweredDown
            /\ bmcr[Current] = IF Answered THEN PoweredDown ELSE Initial

PhysInv == worst < Polls /\ phase # "reset" => Settled /\ BusInv /\ CurrentInv

LEMMA CurrentTyped ==
  ASSUME PhysTypeOK PROVE Current \in Phy /\ bus \in {0, 1} /\ a \in 0 .. LastPhy
  BY DEF PhysTypeOK, Current, Phy, Buses

\* Leaving a PHY behind adds it, and nothing else, to the PHYs gone over.
LEMMA BehindGrows ==
  ASSUME PhysTypeOK, NextPhy, phase # "done"
  PROVE  Behind' = Behind \cup {Current}
<1>1. bus \in {0, 1} /\ a \in 0 .. LastPhy /\ LastPhy \in Nat
  BY PhysAssumption, CurrentTyped
<1>2. \A p \in Phy : p[1] \in {0, 1} /\ p[2] \in 0 .. LastPhy /\ p = <<p[1], p[2]>>
  BY DEF Phy, Buses
<1>3. Behind = {p \in Phy : p[1] < bus \/ (p[1] = bus /\ p[2] < a)}
  BY DEF Behind
<1>4. Current \in Phy
  BY CurrentTyped
<1>5. CASE a < LastPhy /\ a' = a + 1 /\ bus' = bus /\ phase' = "try"
  <2>1. Behind' = {p \in Phy : p[1] < bus \/ (p[1] = bus /\ p[2] < a + 1)}
    BY <1>5 DEF Behind
  <2>2. \A p \in Phy : p \in Behind' <=> p \in Behind \/ p = Current
    BY <1>1, <1>2, <1>3, <2>1 DEF Current
  <2> QED BY <1>3, <1>4, <2>1, <2>2
<1>6. CASE a = LastPhy /\ bus = 0 /\ a' = 0 /\ bus' = 1 /\ phase' = "try"
  <2>1. Behind' = {p \in Phy : p[1] < 1 \/ (p[1] = 1 /\ p[2] < 0)}
    BY <1>6 DEF Behind
  <2>2. \A p \in Phy : p \in Behind' <=> p \in Behind \/ p = Current
    BY <1>1, <1>2, <1>3, <1>6, <2>1 DEF Current
  <2> QED BY <1>3, <1>4, <2>1, <2>2
<1>7. CASE a = LastPhy /\ bus = 1 /\ UNCHANGED <<a, bus>> /\ phase' = "done"
  <2>1. Behind' = Phy
    BY <1>7 DEF Behind
  <2>2. \A p \in Phy : p \in Behind \/ p = Current
    BY <1>1, <1>2, <1>3, <1>7 DEF Current
  <2> QED BY <1>3, <1>4, <2>1, <2>2
<1> QED BY <1>5, <1>6, <1>7 DEF NextPhy

\* The PHY the loop is at is never one of those gone over.
LEMMA CurrentAhead ==
  ASSUME PhysTypeOK, phase # "done" PROVE Current \notin Behind
<1>1. bus \in {0, 1} /\ a \in 0 .. LastPhy /\ LastPhy \in Nat
  BY PhysAssumption, CurrentTyped
<1> QED BY <1>1 DEF Behind, Current

\* One operation, or none.
LEMMA AtMostOne ==
  ASSUME NEW S, NEW x, S = {} \/ S = {x} PROVE Cardinality(S) <= 1
<1>1. CASE S = {}
  BY <1>1, FS_EmptySet
<1>2. CASE S = {x}
  <2>1. Cardinality({x}) = 1
    BY FS_Singleton
  <2> QED BY <2>1, <1>2
<1> QED BY <1>1, <1>2

\* Where Leave goes, whatever it counts.
LEMMA LeaveTyped ==
  ASSUME PhysTypeOK, NEW tries, Leave(tries)
  PROVE  /\ phase' \in {"try", "done"} /\ bus' \in Buses /\ a' \in 0 .. LastPhy
         /\ limiter' = 0 /\ reported' \subseteq Phy
<1>1. Current \in Phy /\ bus \in {0, 1} /\ a \in 0 .. LastPhy /\ LastPhy \in Nat
  BY PhysAssumption, CurrentTyped
<1>2. phase' \in {"try", "done"} /\ bus' \in Buses /\ a' \in 0 .. LastPhy /\ limiter' = 0
  BY <1>1 DEF Leave, NextPhy, Buses
<1>3. reported' = reported \cup {Current} \/ reported' = reported
  BY DEF Leave, Current
<1>4. reported \subseteq Phy
  BY DEF PhysTypeOK
<1> QED BY <1>1, <1>2, <1>3, <1>4

\* What an operation returns is dealt with.
LEMMA ResultTyped ==
  ASSUME PhysTypeOK, NEW v \in SUBSET Bits, Result(v)
  PROVE  /\ phase' \in {"try", "data", "start", "done"} /\ bus' \in Buses /\ a' \in 0 .. LastPhy
         /\ limiter' \in 0 .. Tries /\ op' \in Ops /\ value' \subseteq Bits
         /\ reported' \subseteq Phy /\ spent' \in Nat
<1>1. CASE op = "write" /\ Leave(limiter) /\ UNCHANGED <<op, value, spent>>
  BY <1>1, LeaveTyped, PhysAssumption DEF PhysTypeOK
<1>2. CASE op = "bmcr" /\ value' = v \cup {"PDOWN"} /\ op' = "write" /\ phase' = "data"
           /\ UNCHANGED <<bus, a, limiter, reported, spent>>
  <2>1. v \cup {"PDOWN"} \subseteq Bits
    BY DEF Bits
  <2> QED BY <1>2, <2>1 DEF PhysTypeOK, Ops
<1>3. CASE op = "id" /\ op' = "bmcr" /\ phase' = "start"
           /\ UNCHANGED <<bus, a, limiter, value, reported, spent>>
  BY <1>3 DEF PhysTypeOK, Ops
<1>4. CASE op = "id" /\ spent' = spent + Long /\ phase' = "try"
           /\ UNCHANGED <<bus, a, limiter, op, value, reported>>
  BY <1>4, PhysAssumption DEF PhysTypeOK
<1> QED BY <1>1, <1>2, <1>3, <1>4 DEF Result

LEMMA PhysTyped == PhysTypeOK /\ [PhysNext]_phyVars => PhysTypeOK'
<1> SUFFICES ASSUME PhysTypeOK, [PhysNext]_phyVars PROVE PhysTypeOK'
  OBVIOUS
<1> USE PhysAssumption DEF PhysTypeOK
<1>1. CASE UNCHANGED phyVars
  BY <1>1 DEF phyVars, loopState, busState
<1>2. CASE Try
  <2>1. CASE limiter < Tries /\ limiter' = limiter + 1 /\ op' = "id" /\ phase' = "start"
             /\ UNCHANGED <<bus, a, reported>>
    BY <1>2, <2>1 DEF Try, busState, Ops
  <2>2. CASE Leave(limiter + 1) /\ UNCHANGED op
    BY <1>2, <2>2, LeaveTyped DEF Try, busState
  <2> QED BY <1>2, <2>1, <2>2 DEF Try
<1>3. CASE Start
  <2>1. [op |-> op, phy |-> a] \in [op : Ops, phy : 0 .. LastPhy]
    OBVIOUS
  <2>2. /\ flight' \in [Buses -> SUBSET [op : Ops, phy : 0 .. LastPhy]]
        /\ \A b \in Buses : flight'[b] = flight[b] \/ flight'[b] = {[op |-> op, phy |-> a]}
    BY <1>3, <2>1 DEF Start, Accept
  <2>3. ASSUME NEW b \in Buses PROVE Cardinality(flight'[b]) <= 1
    <3>1. CASE flight'[b] = flight[b]
      BY <3>1
    <3>2. CASE flight'[b] = {[op |-> op, phy |-> a]}
      BY <3>2, AtMostOne
    <3> QED BY <2>2, <3>1, <3>2
  <2> QED BY <1>3, <2>2, <2>3 DEF Start
<1>4. CASE Answer \/ GiveUp
  <2>1. PICK v \in SUBSET Bits : Result(v)
    BY <1>4 DEF Answer, GiveUp, MinusOne
  <2>2. worst' \in 0 .. Polls /\ UNCHANGED <<polls, flight, data, ready, bmcr>>
    BY <1>4 DEF Answer, GiveUp, busState
  <2>3. /\ phase' \in {"try", "data", "start", "done"} /\ bus' \in Buses /\ a' \in 0 .. LastPhy
        /\ limiter' \in 0 .. Tries /\ op' \in Ops /\ value' \subseteq Bits
        /\ reported' \subseteq Phy /\ spent' \in Nat
    BY <2>1, ResultTyped
  <2> QED BY <2>2, <2>3
<1>5. CASE Wait
  BY <1>5 DEF Wait, busState
<1>6. CASE WriteData
  BY <1>6 DEF WriteData, loopState
<1>7. CASE Bite
  BY <1>7 DEF Bite, loopState, busState
<1>8. ASSUME NEW b \in Buses, Complete(b) PROVE PhysTypeOK'
  <2>1. PICK f \in flight[b] : Complete(b)!(f)
    BY <1>8 DEF Complete
  <2>2. <<b, f.phy>> \in Phy
    BY DEF Phy
  <2>3. Id \subseteq Bits /\ MinusOne \subseteq Bits
    BY DEF Id, MinusOne, Bits
  <2>4. flight' \in [Buses -> SUBSET [op : Ops, phy : 0 .. LastPhy]]
    BY <2>1
  <2>5. \A d \in Buses : Cardinality(flight'[d]) <= 1
    BY <2>1, AtMostOne
  <2>6. data' \in [Buses -> SUBSET Bits] /\ bmcr' \in [Phy -> SUBSET Bits]
    BY <2>1, <2>2, <2>3
  <2> QED BY <2>1, <2>4, <2>5, <2>6 DEF loopState
<1>9. ASSUME NEW p \in Phy, GetReady(p) PROVE PhysTypeOK'
  BY <1>9 DEF GetReady, loopState
<1> QED
  BY <1>1, <1>2, <1>3, <1>4, <1>5, <1>6, <1>7, <1>8, <1>9 DEF PhysNext, PowerDown

LEMMA PhysInitTyped == PhysInit => PhysTypeOK
<1> SUFFICES ASSUME PhysInit PROVE PhysTypeOK
  OBVIOUS
<1>1. \A b \in Buses : Cardinality(flight[b]) <= 1
  BY FS_EmptySet DEF PhysInit
<1> QED
  BY <1>1, PhysAssumption DEF PhysInit, PhysTypeOK, Buses, Ops, Bits, Initial

\* Registers, limiters and the data of the buses stay in their ranges.
THEOREM PhysTypeCorrect == PhysSpec => []PhysTypeOK
BY PhysInitTyped, PhysTyped, PTL DEF PhysSpec

\* What the lemmas below have at hand while no operation has been given up.
Going == PhysTypeOK /\ Settled /\ BusInv /\ CurrentInv /\ worst < Polls /\ phase # "reset"

\* A PHY that is left powered down, or reported and untouched, is settled.
LEMMA LeaveSettles ==
  ASSUME Going, NEW tries \in Nat, Leave(tries), UNCHANGED bmcr, phase # "done",
         bmcr[Current] = IF tries > Tries THEN Initial ELSE PoweredDown
  PROVE  Settled' /\ (phase' = "try" => bmcr'[Current'] = Initial)
<1>1. Behind' = Behind \cup {Current} /\ Current \in Phy /\ Current \notin Behind
  BY BehindGrows, CurrentTyped, CurrentAhead DEF Leave, Going
<1>2. reported' = IF tries > Tries THEN reported \cup {Current} ELSE reported
  BY DEF Leave, Current
<1>3. \A p \in Phy :
        /\ p \in Behind =>
             IF p \in reported THEN bmcr[p] = Initial ELSE bmcr[p] = PoweredDown
        /\ p \notin Behind => p \notin reported /\ (p # Current => bmcr[p] = Initial)
  BY DEF Going, Settled, Current, PoweredDown
<1>4. ASSUME NEW p \in Phy, p \in Behind'
      PROVE  IF p \in reported' THEN bmcr'[p] = Initial ELSE bmcr'[p] = PoweredDown
  <2>1. CASE p = Current
    BY <1>1, <1>2, <1>3, <2>1
  <2>2. CASE p # Current
    BY <1>1, <1>2, <1>3, <1>4, <2>2
  <2> QED BY <2>1, <2>2
<1>5. ASSUME NEW p \in Phy, p \notin Behind' PROVE p \notin reported' /\ bmcr'[p] = Initial
  BY <1>1, <1>2, <1>3, <1>5
<1>6. Settled'
  BY <1>4, <1>5 DEF Settled, PoweredDown
<1>7. phase' = "try" => Current' \in Phy /\ Current' \notin Behind'
  <2> SUFFICES ASSUME phase' = "try" PROVE Current' \in Phy /\ Current' \notin Behind'
    OBVIOUS
  <2>1. bus' \in {0, 1} /\ a' \in 0 .. LastPhy /\ LastPhy \in Nat
    BY LeaveTyped, PhysAssumption DEF Going, Buses
  <2> QED BY <2>1 DEF Behind, Current, Phy, Buses
<1> QED BY <1>5, <1>6, <1>7

\* Where the loop stays with its PHY, what it has settled stays settled.
LEMMA StaySettled ==
  ASSUME Going, UNCHANGED <<bus, a, reported>>, phase # "done", phase' # "done",
         NEW word, bmcr' = bmcr \/ bmcr' = [bmcr EXCEPT ![Current] = word]
  PROVE  Settled'
<1>1. Behind' = Behind /\ Current' = Current /\ Current \notin Behind /\ Current \in Phy
  BY CurrentAhead, CurrentTyped DEF Going, Behind, Current
<1>2. bmcr \in [Phy -> SUBSET Bits]
  BY DEF Going, PhysTypeOK
<1>3. \A p \in Phy : p # Current => bmcr'[p] = bmcr[p]
  BY <1>2
<1>4. ASSUME NEW p \in Phy
      PROVE  /\ p \in Behind =>
                  IF p \in reported THEN bmcr'[p] = Initial ELSE bmcr'[p] = PoweredDown
             /\ p \notin Behind => p \notin reported /\ (p # Current => bmcr'[p] = Initial)
  BY <1>1, <1>3 DEF Going, Settled, Current, PoweredDown
<1> QED BY <1>1, <1>4 DEF Settled, Current, PoweredDown

\* Between operations, nothing is in flight.
LEMMA NoneInFlight ==
  ASSUME Going, UNCHANGED flight, \A b \in Buses : flight[b] = {}, phase' # "poll"
  PROVE  BusInv'
  BY DEF BusInv

LEMMA TryKeeps ==
  ASSUME Going, Try PROVE Settled' /\ BusInv' /\ CurrentInv'
<1>1. \A b \in Buses : flight[b] = {}
  BY DEF Try, Going, BusInv
<1>2. UNCHANGED <<flight, data, ready, bmcr, value>> /\ phase = "try" /\ bmcr[Current] = Initial
  BY DEF Try, busState, Going, CurrentInv
<1>3. CASE limiter < Tries /\ limiter' = limiter + 1 /\ op' = "id" /\ phase' = "start"
           /\ UNCHANGED <<bus, a, reported>>
  <2>1. Settled'
    BY <1>2, <1>3, StaySettled
  <2>2. BusInv'
    BY <1>1, <1>2, <1>3, NoneInFlight
  <2>3. CurrentInv'
    BY <1>2, <1>3 DEF CurrentInv, Current, Answered
  <2> QED BY <2>1, <2>2, <2>3
<1>4. CASE limiter >= Tries /\ Leave(limiter + 1) /\ UNCHANGED op
  <2>1. limiter + 1 \in Nat /\ limiter + 1 > Tries
    BY <1>4, PhysAssumption DEF Going, PhysTypeOK
  <2>2. Settled' /\ (phase' = "try" => bmcr'[Current'] = Initial)
    BY <1>2, <1>4, <2>1, LeaveSettles
  <2>3. phase' \in {"try", "done"}
    BY <1>4, LeaveTyped DEF Going
  <2>4. BusInv'
    BY <1>1, <1>2, <2>3, NoneInFlight
  <2>5. CurrentInv'
    BY <2>2, <2>3 DEF CurrentInv
  <2> QED BY <2>2, <2>4, <2>5
<1> QED BY <1>3, <1>4 DEF Try

\* What is written to the address register is the one operation in flight.
LEMMA StartKeeps ==
  ASSUME Going, Start PROVE Settled' /\ BusInv' /\ CurrentInv'
<1>1. /\ UNCHANGED <<bus, a, limiter, op, value, data, ready, bmcr, reported>>
      /\ phase = "start" /\ phase' = "poll"
  BY DEF Start
<1>2. flight' = [flight EXCEPT ![bus] = {[op |-> op, phy |-> a]}]
  BY DEF Start, Accept, Going, BusInv, PhysTypeOK
<1>3. Settled'
  BY <1>1, StaySettled
<1>4. BusInv' /\ flight'[bus] # {}
  BY <1>1, <1>2 DEF Going, BusInv, PhysTypeOK
<1>5. CurrentInv'
  BY <1>1, <1>4 DEF Going, CurrentInv, Current, Answered
<1> QED BY <1>3, <1>4, <1>5

LEMMA WriteDataKeeps ==
  ASSUME Going, WriteData PROVE Settled' /\ BusInv' /\ CurrentInv'
<1>1. /\ UNCHANGED <<bus, a, limiter, op, value, flight, ready, bmcr, reported>>
      /\ phase = "data" /\ phase' = "start" /\ data' = [data EXCEPT ![bus] = value]
  BY DEF WriteData, loopState
<1>2. Settled'
  BY <1>1, StaySettled
<1>3. BusInv'
  BY <1>1, NoneInFlight DEF Going, BusInv
<1>4. data'[bus] = value
  BY <1>1 DEF Going, PhysTypeOK
<1>5. CurrentInv'
  BY <1>1, <1>4 DEF Going, CurrentInv, Current, Answered
<1> QED BY <1>2, <1>3, <1>5

LEMMA WaitKeeps ==
  ASSUME Going, Wait PROVE Settled' /\ BusInv' /\ CurrentInv'
<1>1. UNCHANGED <<phase, bus, a, limiter, op, value, flight, data, ready, bmcr, reported>>
  BY DEF Wait, busState
<1>2. Settled' /\ BusInv' /\ CurrentInv'
  BY <1>1 DEF Going, Settled, Behind, BusInv, CurrentInv, Current, Answered
<1> QED BY <1>2

\* An answer in time carries what the PHY said.
LEMMA AnswerKeeps ==
  ASSUME Going, Answer PROVE Settled' /\ BusInv' /\ CurrentInv'
<1>1. /\ UNCHANGED <<flight, data, ready, bmcr>> /\ phase = "poll" /\ Answered
      /\ \A b \in Buses : flight[b] = {}
  BY DEF Answer, busState, Going, BusInv, Answered
<1>2. Result(data[bus])
  BY DEF Answer
<1>3. CASE op = "id" /\ data[bus] = Id /\ op' = "bmcr" /\ phase' = "start"
           /\ UNCHANGED <<bus, a, limiter, value, reported, spent>>
  <2>1. Settled' /\ BusInv'
    BY <1>1, <1>3, StaySettled, NoneInFlight
  <2>2. CurrentInv'
    BY <1>1, <1>3 DEF Going, CurrentInv, Current, Answered
  <2> QED BY <2>1, <2>2
<1>4. CASE op = "id" /\ data[bus] # Id /\ phase' = "try"
           /\ UNCHANGED <<bus, a, limiter, op, value, reported>>
  <2>1. Settled' /\ BusInv'
    BY <1>1, <1>4, StaySettled, NoneInFlight
  <2>2. CurrentInv'
    BY <1>1, <1>4 DEF Going, CurrentInv, Current, Answered
  <2> QED BY <2>1, <2>2
<1>5. CASE op = "bmcr" /\ value' = data[bus] \cup {"PDOWN"} /\ op' = "write" /\ phase' = "data"
           /\ UNCHANGED <<bus, a, limiter, reported, spent>>
  <2>1. Settled' /\ BusInv'
    BY <1>1, <1>5, StaySettled, NoneInFlight
  <2>2. value' = PoweredDown
    BY <1>1, <1>5 DEF Going, CurrentInv, PoweredDown
  <2>3. CurrentInv'
    BY <1>1, <1>5, <2>2 DEF Going, CurrentInv, Current, Answered
  <2> QED BY <2>1, <2>3
<1>6. CASE op = "write" /\ Leave(limiter) /\ UNCHANGED <<op, value, spent>>
  <2>1. limiter \in Nat /\ ~(limiter > Tries)
    BY PhysAssumption DEF Going, PhysTypeOK
  <2>2. bmcr[Current] = PoweredDown
    BY <1>1, <1>6 DEF Going, CurrentInv
  <2>3. Settled' /\ (phase' = "try" => bmcr'[Current'] = Initial)
    BY <1>1, <1>6, <2>1, <2>2, LeaveSettles
  <2>4. phase' \in {"try", "done"}
    BY <1>6, LeaveTyped DEF Going
  <2>5. BusInv'
    BY <1>1, <2>4, NoneInFlight
  <2>6. CurrentInv'
    BY <2>3, <2>4 DEF CurrentInv
  <2> QED BY <2>3, <2>5, <2>6
<1> QED BY <1>2, <1>3, <1>4, <1>5, <1>6 DEF Result

\* What completes is the operation waited for: a write changes BMCR of the current PHY
\* to the word prepared, a read fetches what that PHY holds.
LEMMA CompleteKeeps ==
  ASSUME Going, NEW b \in Buses, Complete(b) PROVE Settled' /\ BusInv' /\ CurrentInv'
<1>1. PICK f \in flight[b] : Complete(b)!(f)
  BY DEF Complete
<1>2. phase = "poll" /\ b = bus /\ f = [op |-> op, phy |-> a] /\ <<b, f.phy>> = Current
  <2>1. phase = "poll" /\ b = bus
    BY <1>1 DEF Going, BusInv
  <2>2. f = [op |-> op, phy |-> a]
    BY <1>1, <2>1 DEF Going, BusInv
  <2> QED BY <2>1, <2>2 DEF Current
<1>3. /\ UNCHANGED <<phase, bus, a, limiter, op, value, ready, reported>>
      /\ f.op = op /\ flight' = [flight EXCEPT ![b] = {}]
      /\ data' = IF op = "write" THEN data
                 ELSE [data EXCEPT ![bus] = IF ~ready[Current] THEN MinusOne
                                            ELSE IF op = "id" THEN Id ELSE bmcr[Current]]
      /\ bmcr' = IF op = "write" /\ ready[Current]
                 THEN [bmcr EXCEPT ![Current] = data[bus]] ELSE bmcr
  BY <1>1, <1>2 DEF loopState
<1>4. flight' \in [Buses -> SUBSET [op : Ops, phy : 0 .. LastPhy]] /\ flight'[bus] = {}
      /\ ~Answered /\ Answered'
  BY <1>1, <1>2, <1>3 DEF Going, PhysTypeOK, Answered
<1>5. Settled'
  BY <1>2, <1>3, StaySettled
<1>6. BusInv'
  BY <1>2, <1>3, <1>4 DEF Going, BusInv
<1>7. Current' = Current /\ Current \in Phy
  BY <1>3, CurrentTyped DEF Going, Current
<1>8. CASE op = "write"
  <2>1. bmcr[Current] = Initial /\ ready[Current] /\ value = PoweredDown /\ data[bus] = PoweredDown
    BY <1>2, <1>4, <1>8 DEF Going, CurrentInv
  <2>2. bmcr'[Current] = PoweredDown /\ data' = data
    BY <1>3, <1>7, <1>8, <2>1 DEF Going, PhysTypeOK
  <2> QED BY <1>2, <1>3, <1>4, <1>5, <1>6, <1>7, <1>8, <2>1, <2>2 DEF CurrentInv
<1>9. CASE op = "bmcr"
  <2>1. bmcr[Current] = Initial /\ ready[Current]
    BY <1>2, <1>9 DEF Going, CurrentInv
  <2>2. data'[bus] = Initial /\ bmcr' = bmcr
    BY <1>3, <1>9, <2>1 DEF Going, PhysTypeOK
  <2> QED BY <1>2, <1>3, <1>4, <1>5, <1>6, <1>7, <1>9, <2>1, <2>2 DEF CurrentInv
<1>10. CASE op = "id"
  <2>1. bmcr[Current] = Initial /\ bmcr' = bmcr
    BY <1>2, <1>3, <1>10 DEF Going, CurrentInv
  <2>2. MinusOne # Id
    BY DEF MinusOne, Id, Bits
  <2>3. data'[bus] = Id => ready[Current]
    BY <1>3, <1>10, <2>2 DEF Going, PhysTypeOK
  <2> QED BY <1>2, <1>3, <1>4, <1>5, <1>6, <1>7, <1>10, <2>1, <2>3 DEF CurrentInv
<1> QED BY <1>8, <1>9, <1>10 DEF Going, PhysTypeOK, Ops

LEMMA GetReadyKeeps ==
  ASSUME Going, NEW p \in Phy, GetReady(p) PROVE Settled' /\ BusInv' /\ CurrentInv'
<1>1. /\ UNCHANGED <<phase, bus, a, op, value, flight, data, bmcr, reported>>
      /\ ready' = [ready EXCEPT ![p] = TRUE]
  BY DEF GetReady, loopState
<1>2. Current' = Current /\ (ready[Current] => ready'[Current]) /\ (Answered' <=> Answered)
  BY <1>1, CurrentTyped DEF Going, PhysTypeOK, Current, Answered
<1>3. Settled' /\ BusInv'
  BY <1>1 DEF Going, Settled, Behind, BusInv
<1>4. CurrentInv'
  BY <1>1, <1>2 DEF Going, CurrentInv
<1> QED BY <1>3, <1>4

\* No operation that was given up is forgotten.
LEMMA WorstGrows ==
  ASSUME PhysTypeOK, [PhysNext]_phyVars, worst' < Polls, phase' # "reset"
  PROVE  worst < Polls /\ (phase # "reset" \/ UNCHANGED phase) /\ ~GiveUp
<1>1. worst \in Nat /\ Polls \in Nat /\ polls \in Nat
  BY PhysAssumption DEF PhysTypeOK
<1>2. ~GiveUp
  BY <1>1 DEF GiveUp
<1>3. UNCHANGED worst \/ Answer
  BY <1>2 DEF PhysNext, PowerDown, Try, Start, Wait, WriteData, Bite, Complete, GetReady, phyVars
<1>4. worst < Polls
  BY <1>1, <1>3 DEF Answer
<1>5. phase # "reset" \/ UNCHANGED phase
  BY <1>2 DEF PhysNext, PowerDown, Try, Start, Answer, Wait, WriteData, Bite, Complete, GetReady,
              loopState, phyVars
<1> QED BY <1>2, <1>4, <1>5

\* The invariant of the loops and the buses holds always.
THEOREM PhysInductive == PhysSpec => [](PhysTypeOK /\ PhysInv)
<1>1. PhysInit => PhysTypeOK /\ PhysInv
  <2> SUFFICES ASSUME PhysInit PROVE PhysInv
    BY PhysInitTyped
  <2>1. \A p \in Phy : p[1] \in {0, 1} /\ p[2] \in 0 .. LastPhy
    BY DEF Phy, Buses
  <2>2. Behind = {}
    BY <2>1, PhysAssumption DEF PhysInit, Behind
  <2>3. Settled
    BY <2>2 DEF PhysInit, Settled
  <2>4. BusInv /\ CurrentInv
    BY PhysInitTyped, CurrentTyped DEF PhysInit, BusInv, CurrentInv
  <2> QED BY <2>3, <2>4 DEF PhysInv
<1>2. (PhysTypeOK /\ PhysInv) /\ [PhysNext]_phyVars => (PhysTypeOK /\ PhysInv)'
  <2> SUFFICES ASSUME PhysTypeOK, PhysInv, [PhysNext]_phyVars, worst' < Polls, phase' # "reset"
               PROVE  Settled' /\ BusInv' /\ CurrentInv'
    BY PhysTyped DEF PhysInv
  <2>1. Going /\ ~GiveUp
    BY WorstGrows DEF Going, PhysInv
  <2>2. CASE UNCHANGED phyVars
    BY <2>1, <2>2 DEF phyVars, loopState, busState, Going, Settled, Behind, BusInv, CurrentInv,
                      Current, Answered
  <2>3. ~Bite
    BY DEF Bite
  <2> QED
    BY <2>1, <2>2, <2>3, TryKeeps, StartKeeps, AnswerKeeps, WaitKeeps, WriteDataKeeps,
       CompleteKeeps, GetReadyKeeps DEF PhysNext, PowerDown
<1> QED BY <1>1, <1>2, PTL DEF PhysSpec

\* However many PHYs there are, whatever the limits of the loops and the times the bus
\* takes: unless an operation is given up, each PHY gone over is powered down and
\* nothing else changed, or it is reported and as it was.
THEOREM PhysSettled == PhysSpec => []Settled
<1>1. PhysInv => Settled
  BY DEF PhysInv, Settled
<1> QED BY <1>1, PhysInductive, PTL

\* The PHYs gone over, and the operations of the current try that are done.
Gone == bus * (LastPhy + 1) + a
Done == IF op = "id" THEN 0 ELSE IF op = "bmcr" THEN 1 ELSE 2
AllPhys == 2 * (LastPhy + 1)

\* What the place in the loops explains of the time that has gone by, where no operation
\* was polled more than w times.
Explained(w) ==
  /\ phase = "try" => spent <= Gone * PhyTime(w) + limiter * TryTime(w)
  /\ phase \in {"start", "data"} =>
       spent <= Gone * PhyTime(w) + ((limiter - 1) * TryTime(w) + Done * OpTime(w))
  /\ phase = "poll" =>
       spent <= Gone * PhyTime(w)
                  + (((limiter - 1) * TryTime(w) + Done * OpTime(w)) + (Short + polls * Long))
  /\ phase \in {"done", "reset"} => spent <= AllPhys * PhyTime(w)

TimeInv ==
  /\ phase \notin {"poll", "reset"} => polls <= worst
  /\ phase \in {"start", "data", "poll"} => limiter >= 1
  /\ phase = "reset" => spent >= Period
  /\ \A w \in 0 .. Polls : worst <= w /\ polls <= w => Explained(w)

\* An operation, a try and all tries of a PHY.
LEMMA TimesTaken ==
  ASSUME NEW w \in Nat
  PROVE  /\ OpTime(w) \in Nat /\ TryTime(w) \in Nat /\ PhyTime(w) \in Nat
         /\ TryTime(w) = OpTime(w) + Long /\ OpTime(w) = Short + w * Long
         /\ (Tries - 1) * TryTime(w) + TryTime(w) <= PhyTime(w)
         /\ (Tries - 1) * TryTime(w) + 3 * OpTime(w) <= PhyTime(w)
<1>1. /\ w * Long \in Nat /\ Short \in Nat /\ Long \in Nat /\ Tries - 1 \in Nat
  BY PhysAssumption
<1>2. OpTime(w) \in Nat /\ OpTime(w) = Short + w * Long
  BY <1>1 DEF OpTime
<1>3. TryTime(w) \in Nat /\ TryTime(w) = OpTime(w) + Long
  BY <1>1, <1>2 DEF TryTime
<1>4. (Tries - 1) * TryTime(w) \in Nat
  BY <1>1, <1>3
<1> DEFINE m == (Tries - 1) * TryTime(w)
<1>5. PhyTime(w) = m + (IF Long <= 2 * OpTime(w) THEN 3 * OpTime(w) ELSE TryTime(w))
  BY DEF PhyTime
<1>6. m \in Nat
  BY <1>4
<1> HIDE DEF m
<1>7. PhyTime(w) \in Nat /\ m + TryTime(w) <= PhyTime(w) /\ m + 3 * OpTime(w) <= PhyTime(w)
  BY <1>1, <1>2, <1>3, <1>5, <1>6
<1> QED BY <1>2, <1>3, <1>7 DEF m

\* Multiplication is monotone and distributes.
LEMMA TimesGrow ==
  ASSUME NEW k \in Nat, NEW m \in Nat, k <= m, NEW t \in Nat
  PROVE  k * t <= m * t /\ k * t \in Nat /\ (k + 1) * t = k * t + t
OBVIOUS

\* The PHYs gone over.
LEMMA GoneRange ==
  ASSUME PhysTypeOK
  PROVE  /\ Gone \in Nat /\ Gone + 1 <= AllPhys /\ AllPhys \in Nat
<1>1. bus \in {0, 1} /\ a \in Nat /\ a <= LastPhy /\ LastPhy \in Nat
  BY PhysAssumption, CurrentTyped
<1> QED BY <1>1 DEF Gone, AllPhys

LEMMA GoneNext ==
  ASSUME PhysTypeOK, NextPhy
  PROVE  \/ phase' = "try" /\ Gone' = Gone + 1
         \/ phase' = "done"
<1>1. bus \in {0, 1} /\ a \in Nat /\ a <= LastPhy /\ LastPhy \in Nat
  BY PhysAssumption, CurrentTyped
<1> QED BY <1>1 DEF NextPhy, Gone

\* A PHY is left behind in the time that is due to it.
LEMMA LeaveInTime ==
  ASSUME PhysTypeOK, NEW tries, Leave(tries), UNCHANGED spent, NEW w \in Nat,
         spent <= Gone * PhyTime(w) + PhyTime(w)
  PROVE  Explained(w)'
<1> DEFINE pt == PhyTime(w)
           tt == TryTime(w)
           all == AllPhys
<1>1. pt \in Nat /\ tt \in Nat /\ Gone \in Nat /\ all \in Nat /\ Gone + 1 <= all
  BY TimesTaken, GoneRange
<1>2. NextPhy /\ limiter' = 0
  BY DEF Leave, NextPhy
<1>3. spent' \in Nat /\ spent' <= (Gone + 1) * pt /\ (Gone + 1) * pt <= all * pt
  <2>1. (Gone + 1) * pt = Gone * pt + pt
    BY <1>1, TimesGrow
  <2>2. (Gone + 1) * pt <= all * pt
    BY <1>1, TimesGrow
  <2>3. spent' \in Nat
    BY DEF PhysTypeOK
  <2> QED BY <2>1, <2>2, <2>3
<1>4. CASE phase' = "try" /\ Gone' = Gone + 1
  <2>1. Gone' * pt + limiter' * tt = (Gone + 1) * pt
    BY <1>1, <1>2, <1>4
  <2> QED BY <1>3, <1>4, <2>1 DEF Explained, PhyTime, TryTime, OpTime
<1>5. CASE phase' = "done"
  <2>1. spent' <= all * pt
    BY <1>1, <1>3
  <2> QED BY <1>5, <2>1 DEF Explained, PhyTime, TryTime, OpTime, AllPhys
<1> QED BY <1>2, <1>4, <1>5, GoneNext
\* No try takes longer than a PHY's tries may, wherever it is.
LEMMA TryInTime ==
  ASSUME PhysTypeOK, TimeInv, NEW w \in 0 .. Polls, worst <= w, polls <= w,
         phase \in {"try", "start", "data", "poll"}
  PROVE  /\ spent <= Gone * PhyTime(w) + PhyTime(w)
         /\ phase # "try" => (limiter - 1) * TryTime(w) + TryTime(w) = limiter * TryTime(w)
         /\ phase = "poll" =>
              spent <= Gone * PhyTime(w) + ((limiter - 1) * TryTime(w) + (Done + 1) * OpTime(w))
<1> DEFINE pt == PhyTime(w)
           tt == TryTime(w)
           ot == OpTime(w)
           g == Gone * PhyTime(w)
           before == (limiter - 1) * TryTime(w)
<1>1. /\ w \in Nat /\ Explained(w) /\ limiter \in Nat /\ limiter <= Tries /\ Tries \in Nat
      /\ polls \in Nat /\ Short \in Nat /\ Long \in Nat /\ spent \in Nat
      /\ phase # "try" => limiter - 1 \in Nat
      /\ Done \in {0, 1, 2}
  BY PhysAssumption DEF TimeInv, PhysTypeOK, Done
<1>2. /\ ot \in Nat /\ tt \in Nat /\ pt \in Nat /\ tt = ot + Long /\ ot = Short + w * Long
      /\ (Tries - 1) * tt + tt <= pt /\ (Tries - 1) * tt + 3 * ot <= pt
  BY <1>1, TimesTaken
<1>3. g \in Nat
  BY <1>1, <1>2, GoneRange, TimesGrow
<1>4. polls * Long <= w * Long /\ polls * Long \in Nat
  BY <1>1, TimesGrow
<1>5. Done * ot \in Nat /\ Done * ot <= 2 * ot /\ (Done + 1) * ot = Done * ot + ot
  BY <1>1, <1>2
<1>6. CASE phase = "try"
  <2>1. limiter * tt <= Tries * tt /\ limiter * tt \in Nat
    BY <1>1, <1>2, TimesGrow
  <2>2. Tries * tt = (Tries - 1) * tt + tt
    <3>1. Tries - 1 \in Nat /\ Tries = (Tries - 1) + 1
      BY PhysAssumption
    <3> QED BY <1>2, <3>1, TimesGrow
  <2>3. spent <= g + limiter * tt
    BY <1>1, <1>6 DEF Explained
  <2>4. Tries * tt \in Nat /\ Tries * tt <= pt
    BY <1>1, <1>2, <2>2
  <2> HIDE DEF pt, tt, g
  <2>5. spent <= g + pt
    BY <1>1, <1>2, <1>3, <2>1, <2>3, <2>4
  <2> QED BY <1>6, <2>5 DEF g, pt
<1>7. CASE phase # "try"
  <2>1. /\ limiter - 1 \in Nat /\ Tries - 1 \in Nat /\ limiter - 1 <= Tries - 1
        /\ limiter = (limiter - 1) + 1
    BY <1>1, <1>7, PhysAssumption
  <2>2. before \in Nat /\ before <= (Tries - 1) * tt /\ limiter * tt = before + tt
        /\ (Tries - 1) * tt \in Nat
    <3> DEFINE m == limiter - 1
               n == Tries - 1
    <3>1. m \in Nat /\ n \in Nat /\ m <= n /\ limiter = m + 1 /\ tt \in Nat
      BY <1>2, <2>1
    <3> HIDE DEF m, n, tt
    <3>2. m * tt \in Nat /\ n * tt \in Nat /\ m * tt <= n * tt
      BY <3>1, TimesGrow
    <3>3. (m + 1) * tt = m * tt + tt
      BY <3>1, TimesGrow
    <3> QED BY <3>1, <3>2, <3>3 DEF m, n, tt
  <2>3. /\ phase \in {"start", "data"} => spent <= g + (before + Done * ot)
        /\ phase = "poll" => spent <= g + ((before + Done * ot) + (Short + polls * Long))
    BY <1>1 DEF Explained
  <2> DEFINE d == Done * ot
             q == polls * Long
             all == (Tries - 1) * tt
  <2>4. /\ d \in Nat /\ d <= 2 * ot /\ q \in Nat /\ Short + q <= ot /\ all \in Nat
        /\ before \in Nat /\ before <= all /\ all + 3 * ot <= pt
        /\ phase \in {"start", "data"} => spent <= g + (before + d)
        /\ phase = "poll" => spent <= g + ((before + d) + (Short + q))
        /\ (Done + 1) * ot = d + ot
    BY <1>1, <1>2, <1>4, <1>5, <2>2, <2>3
  <2> HIDE DEF pt, tt, ot, g, before, d, q, all
  <2>5. spent <= g + pt /\ (phase = "poll" => spent <= g + (before + (d + ot)))
    BY <1>1, <1>2, <1>3, <1>7, <2>4
  <2>6. phase = "poll" => spent <= g + (before + (Done + 1) * ot)
    BY <2>4, <2>5
  <2> QED BY <1>7, <2>2, <2>5, <2>6 DEF g, pt, before, tt, ot
<1> QED BY <1>6, <1>7

\* What an operation returns is dealt with in time.
LEMMA ResultInTime ==
  ASSUME PhysTypeOK, TimeInv, phase = "poll", NEW v, Result(v), UNCHANGED polls,
         NEW w \in 0 .. Polls, worst <= w, polls <= w
  PROVE  Explained(w)'
<1> DEFINE pt == PhyTime(w)
           tt == TryTime(w)
           ot == OpTime(w)
           g == Gone * PhyTime(w)
           before == (limiter - 1) * TryTime(w)
<1>1. /\ w \in Nat /\ limiter \in Nat /\ limiter >= 1 /\ spent \in Nat /\ Long \in Nat
      /\ Done \in {0, 1, 2}
  BY PhysAssumption DEF TimeInv, PhysTypeOK, Done
<1>2. /\ ot \in Nat /\ tt \in Nat /\ pt \in Nat /\ tt = ot + Long
  BY <1>1, TimesTaken
<1>3. /\ spent <= g + pt /\ before + tt = limiter * tt
      /\ spent <= g + (before + (Done + 1) * ot)
  BY TryInTime
<1>4. g \in Nat /\ before \in Nat
  <2>1. limiter - 1 \in Nat
    BY <1>1
  <2> QED BY <1>1, <1>2, <2>1, GoneRange, TimesGrow
<1>5. CASE op = "id" /\ op' = "bmcr" /\ phase' = "start"
           /\ UNCHANGED <<bus, a, limiter, value, reported, spent>>
  <2>1. Done = 0 /\ Done' = 1 /\ Gone' = Gone
    BY <1>5 DEF Done, Gone
  <2>2. spent' <= g + (before + Done' * ot)
    BY <1>3, <1>5, <2>1
  <2> QED BY <1>5, <2>1, <2>2 DEF Explained, PhyTime, TryTime, OpTime
<1>6. CASE op = "id" /\ spent' = spent + Long /\ phase' = "try"
           /\ UNCHANGED <<bus, a, limiter, op, value, reported>>
  <2>1. Done = 0 /\ Gone' = Gone
    BY <1>6 DEF Done, Gone
  <2>2. (Done + 1) * ot = ot
    BY <1>2, <2>1
  <2>3. spent <= g + (before + ot)
    BY <1>3, <2>2
  <2>4. before + tt = limiter * tt
    BY <1>3
  <2>5. spent + Long <= g + (before + tt)
    <3> HIDE DEF pt, tt, ot, g, before
    <3> QED BY <1>1, <1>2, <1>4, <2>3
  <2>6. spent' <= g + limiter' * tt
    BY <1>6, <2>4, <2>5
  <2> QED BY <1>6, <2>1, <2>6 DEF Explained, PhyTime, TryTime, OpTime
<1>7. CASE op = "bmcr" /\ op' = "write" /\ phase' = "data"
           /\ UNCHANGED <<bus, a, limiter, reported, spent>>
  <2>1. Done = 1 /\ Done' = 2 /\ Gone' = Gone
    BY <1>7 DEF Done, Gone
  <2>2. spent' <= g + (before + Done' * ot)
    BY <1>3, <1>7, <2>1
  <2> QED BY <1>7, <2>1, <2>2 DEF Explained, PhyTime, TryTime, OpTime
<1>8. CASE op = "write" /\ Leave(limiter) /\ UNCHANGED <<op, value, spent>>
  BY <1>1, <1>3, <1>8, LeaveInTime
<1> QED BY <1>5, <1>6, <1>7, <1>8 DEF Result

\* The bus and the PHYs take no part in the loops.
LEMMA BusSteps ==
  ASSUME [PhysNext]_phyVars
  PROVE  PowerDown \/ Bite \/ UNCHANGED <<phase, loopState, spent, worst>>
<1>1. CASE \E b \in Buses : Complete(b)
  BY <1>1 DEF Complete
<1>2. CASE \E p \in Phy : GetReady(p)
  BY <1>2 DEF GetReady
<1> QED BY <1>1, <1>2 DEF PhysNext, phyVars

\* Every step keeps the time that has gone by explained.
LEMMA TimeKeeps ==
  ASSUME PhysTypeOK, TimeInv, [PhysNext]_phyVars, NEW w \in 0 .. Polls, worst' <= w, polls' <= w
  PROVE  Explained(w)'
<1>1. /\ worst \in Nat /\ polls \in Nat /\ w \in Nat /\ limiter \in Nat /\ spent \in Nat
      /\ Short \in Nat /\ Long \in Nat /\ limiter <= Tries /\ Tries \in Nat
  BY PhysAssumption DEF PhysTypeOK
<1>a. OpTime(w) \in Nat /\ TryTime(w) \in Nat /\ PhyTime(w) \in Nat
  BY <1>1, TimesTaken
<1>b. Gone \in Nat /\ AllPhys \in Nat /\ Gone + 1 <= AllPhys
  BY GoneRange
<1>2. worst <= w /\ Explained(w) /\ polls <= w
  <2>1. worst <= w
    <3>1. worst' >= worst
      <4>1. UNCHANGED worst \/ Answer \/ GiveUp
        BY BusSteps DEF PowerDown, Try, Start, Wait, WriteData, Bite
      <4> QED BY <1>1, <4>1 DEF Answer, GiveUp, PhysTypeOK
    <3>2. worst' \in Nat
      BY PhysTyped DEF PhysTypeOK
    <3> QED BY <1>1, <3>1, <3>2
  <2>2. polls <= w
    <3>1. CASE phase # "poll" /\ phase # "reset"
      BY <1>1, <2>1, <3>1 DEF TimeInv
    <3>2. CASE phase = "reset"
      <4>1. UNCHANGED polls
        BY <3>2, BusSteps DEF PowerDown, Try, Start, Answer, Wait, GiveUp, WriteData, Bite, loopState
      <4> QED BY <4>1
    <3>3. CASE phase = "poll"
      <4>1. UNCHANGED polls \/ Wait
        BY <3>3, BusSteps DEF PowerDown, Try, Start, Answer, GiveUp, WriteData, Bite, loopState
      <4> QED BY <1>1, <4>1 DEF Wait
    <3> QED BY <3>1, <3>2, <3>3
  <2> QED BY <2>1, <2>2 DEF TimeInv
<1>3. CASE UNCHANGED <<phase, loopState, spent>>
  BY <1>2, <1>3 DEF loopState, Explained, Gone, Done, PhyTime, TryTime, OpTime, AllPhys
<1>4. CASE Try
  <2>1. CASE limiter < Tries /\ limiter' = limiter + 1 /\ op' = "id" /\ phase' = "start"
             /\ UNCHANGED <<bus, a, reported>>
    <3>1. Gone' = Gone /\ Done' = 0 /\ limiter' - 1 = limiter /\ spent' = spent /\ phase = "try"
      BY <1>1, <1>4, <2>1 DEF Try, Gone, Done
    <3>2. spent <= Gone * PhyTime(w) + limiter * TryTime(w)
      BY <1>2, <3>1 DEF Explained
    <3>3. limiter * TryTime(w) \in Nat
      BY <1>1, <1>a, TimesGrow
    <3>4. Done' * OpTime(w) = 0
      BY <1>1, <3>1, <1>a
    <3>5. spent' <= Gone * PhyTime(w) + ((limiter' - 1) * TryTime(w) + Done' * OpTime(w))
      BY <3>1, <3>2, <3>3, <3>4
    <3> QED BY <2>1, <3>1, <3>5 DEF Explained, PhyTime, TryTime, OpTime
  <2>2. CASE Leave(limiter + 1)
    <3>1. phase = "try" /\ UNCHANGED spent
      BY <1>4 DEF Try
    <3>2. spent <= Gone * PhyTime(w) + PhyTime(w)
      BY <1>2, <3>1, TryInTime
    <3> QED BY <1>1, <2>2, <3>1, <3>2, LeaveInTime
  <2> QED BY <1>4, <2>1, <2>2 DEF Try
<1>5. CASE Start
  <2>1. /\ phase = "start" /\ phase' = "poll" /\ polls' = 0 /\ spent' = spent + Short
        /\ Gone' = Gone /\ Done' = Done /\ limiter' = limiter
    BY <1>5 DEF Start, Gone, Done
  <2> DEFINE e == Gone * PhyTime(w)
             f == (limiter - 1) * TryTime(w) + Done * OpTime(w)
  <2>2. spent <= e + f
    BY <1>2, <2>1 DEF Explained
  <2>3. e \in Nat /\ f \in Nat
    <3>1. limiter - 1 \in Nat /\ Done \in Nat
      BY <1>1, <2>1 DEF TimeInv, Done
    <3>2. (limiter - 1) * TryTime(w) \in Nat /\ Done * OpTime(w) \in Nat
      BY <1>1, <3>1, <1>a, TimesGrow
    <3> QED BY <1>1, <3>2, <1>a, <1>b, TimesGrow
  <2>4. polls' * Long = 0
    BY <1>1, <2>1
  <2>5. spent' <= e + (f + (Short + polls' * Long))
    <3> HIDE DEF e, f
    <3> QED BY <1>1, <2>1, <2>2, <2>3, <2>4
  <2> QED BY <2>1, <2>5 DEF Explained, PhyTime, TryTime, OpTime
<1>6. CASE Answer \/ GiveUp
  <2>1. PICK v : Result(v)
    BY <1>6 DEF Answer, GiveUp
  <2> QED BY <1>2, <1>6, <2>1, ResultInTime DEF Answer, GiveUp
<1>7. CASE Wait
  <2>1. /\ phase = "poll" /\ phase' = "poll" /\ polls' = polls + 1 /\ spent' = spent + Long
        /\ Gone' = Gone /\ Done' = Done /\ limiter' = limiter
    BY <1>7 DEF Wait, Gone, Done
  <2> DEFINE e == Gone * PhyTime(w)
             f == (limiter - 1) * TryTime(w) + Done * OpTime(w)
             r == polls * Long
  <2>2. spent <= e + (f + (Short + r))
    BY <1>2, <2>1 DEF Explained
  <2>3. e \in Nat /\ f \in Nat
    <3>1. limiter - 1 \in Nat /\ Done \in Nat
      BY <1>1, <2>1 DEF TimeInv, Done
    <3>2. (limiter - 1) * TryTime(w) \in Nat /\ Done * OpTime(w) \in Nat
      BY <1>1, <3>1, <1>a, TimesGrow
    <3> QED BY <1>1, <3>2, <1>a, <1>b, TimesGrow
  <2>4. polls' * Long = r + Long /\ r \in Nat
    BY <1>1, <2>1, TimesGrow
  <2>5. spent' <= e + (f + (Short + (r + Long)))
    <3> HIDE DEF e, f, r
    <3> QED BY <1>1, <2>1, <2>2, <2>3, <2>4
  <2>6. spent' <= e + (f + (Short + polls' * Long))
    BY <2>4, <2>5
  <2> QED BY <2>1, <2>6 DEF Explained, PhyTime, TryTime, OpTime
<1>8. CASE WriteData
  <2>1. phase = "data" /\ phase' = "start" /\ UNCHANGED <<loopState, spent>>
    BY <1>8 DEF WriteData
  <2> QED BY <1>2, <2>1 DEF loopState, Explained, Gone, Done, PhyTime, TryTime, OpTime
<1>9. CASE Bite
  <2>1. phase' = "reset" /\ UNCHANGED <<loopState, spent>> /\ phase \notin {"done", "reset"}
    BY <1>9 DEF Bite
  <2>2. spent <= Gone * PhyTime(w) + PhyTime(w)
    BY <1>2, <2>1, TryInTime DEF PhysTypeOK
  <2>3. (Gone + 1) * PhyTime(w) = Gone * PhyTime(w) + PhyTime(w)
        /\ (Gone + 1) * PhyTime(w) <= AllPhys * PhyTime(w)
        /\ (Gone + 1) * PhyTime(w) \in Nat /\ AllPhys * PhyTime(w) \in Nat
    BY <1>1, <1>a, <1>b, TimesGrow
  <2>4. spent' <= AllPhys * PhyTime(w)
    BY <1>1, <2>1, <2>2, <2>3
  <2> QED BY <2>1, <2>4 DEF Explained, PhyTime, TryTime, OpTime, AllPhys
<1> QED
  BY <1>3, <1>4, <1>5, <1>6, <1>7, <1>8, <1>9, BusSteps
     DEF PowerDown

\* The other parts of the invariant.
LEMMA CountsKeep ==
  ASSUME PhysTypeOK, TimeInv, [PhysNext]_phyVars
  PROVE  /\ phase' \notin {"poll", "reset"} => polls' <= worst'
         /\ phase' \in {"start", "data", "poll"} => limiter' >= 1
         /\ phase' = "reset" => spent' >= Period
<1>1. /\ worst \in Nat /\ polls \in Nat /\ limiter \in Nat /\ spent \in Nat /\ Period \in Nat
      /\ Polls \in Nat /\ worst <= Polls /\ polls <= Polls
  BY PhysAssumption DEF PhysTypeOK
<1>2. CASE UNCHANGED <<phase, loopState, spent, worst>>
  BY <1>2 DEF loopState, TimeInv
<1>3. CASE Try
  BY <1>1, <1>3 DEF Try, Leave, NextPhy, TimeInv
<1>4. CASE Start \/ Wait \/ WriteData \/ Bite
  BY <1>1, <1>4 DEF Start, Wait, WriteData, Bite, loopState, TimeInv
<1>5. CASE Answer \/ GiveUp
  <2>1. PICK v : Result(v)
    BY <1>5 DEF Answer, GiveUp
  <2>2. phase = "poll" /\ limiter >= 1 /\ polls' = polls /\ polls' <= worst'
    BY <1>1, <1>5 DEF Answer, GiveUp, TimeInv
  <2>3. /\ phase' \in {"start", "data"} => limiter' = limiter
        /\ phase' \in {"start", "data", "try", "done"}
    BY <2>1 DEF Result, Leave, NextPhy
  <2> QED BY <2>2, <2>3
<1> QED
  BY <1>2, <1>3, <1>4, <1>5, BusSteps DEF PowerDown

\* The invariant of the time that goes by is inductive.
THEOREM TimeInductive == PhysSpec => [](PhysTypeOK /\ TimeInv)
<1>1. PhysInit => PhysTypeOK /\ TimeInv
  <2> SUFFICES ASSUME PhysInit PROVE TimeInv
    BY PhysInitTyped
  <2>1. ASSUME NEW w \in 0 .. Polls PROVE Explained(w)
    <3>1. w \in Nat /\ Gone = 0 /\ phase = "try" /\ spent = 0 /\ limiter = 0
      BY PhysAssumption DEF PhysInit, Gone
    <3>2. Gone * PhyTime(w) = 0 /\ limiter * TryTime(w) = 0
      BY <3>1, TimesTaken
    <3> QED BY <3>1, <3>2 DEF Explained
  <2> QED BY <2>1 DEF PhysInit, TimeInv
<1>2. (PhysTypeOK /\ TimeInv) /\ [PhysNext]_phyVars => (PhysTypeOK /\ TimeInv)'
  BY PhysTyped, TimeKeeps, CountsKeep DEF TimeInv
<1> QED BY <1>1, <1>2, PTL DEF PhysSpec

\* However many PHYs there are and whatever the limits: with an operation polled at most
\* w times, the loops end within the time of all tries at w, and the watchdog can
\* interrupt them only if its period is no longer than that.
THEOREM PhysInTime == PhysSpec => []InTime
<1>1. PhysTypeOK /\ TimeInv => InTime
  <2> SUFFICES ASSUME PhysTypeOK, TimeInv PROVE InTime
    OBVIOUS
  <2>1. PICK w \in {worst, polls} : worst <= w /\ polls <= w /\ w \in 0 .. Polls
    BY PhysAssumption DEF PhysTypeOK
  <2>2. Explained(w)
    BY <2>1 DEF TimeInv
  <2>3. /\ Gone \in Nat /\ PhyTime(w) \in Nat /\ AllPhys \in Nat /\ Gone + 1 <= AllPhys
        /\ spent \in Nat /\ Period \in Nat
    <3>1. w \in Nat
      BY <2>1, PhysAssumption
    <3>2. PhyTime(w) \in Nat
      BY <3>1, TimesTaken
    <3>3. spent \in Nat /\ Period \in Nat
      BY PhysAssumption DEF PhysTypeOK
    <3> QED BY <3>2, <3>3, GoneRange
  <2>4. (Gone + 1) * PhyTime(w) = Gone * PhyTime(w) + PhyTime(w)
        /\ (Gone + 1) * PhyTime(w) <= AllPhys * PhyTime(w)
        /\ (Gone + 1) * PhyTime(w) \in Nat /\ AllPhys * PhyTime(w) \in Nat
    BY <2>3, TimesGrow
  <2>5. spent <= AllPhys * PhyTime(w)
    <3>1. CASE phase \in {"try", "start", "data", "poll"}
      <4>1. spent <= Gone * PhyTime(w) + PhyTime(w)
        BY <2>1, <3>1, TryInTime
      <4> QED BY <2>3, <2>4, <4>1
    <3>2. CASE phase \in {"done", "reset"}
      BY <2>2, <3>2 DEF Explained
    <3> QED BY <3>1, <3>2 DEF PhysTypeOK
  <2>6. phase = "reset" => Period <= AllPhys * PhyTime(w)
    BY <2>3, <2>4, <2>5 DEF TimeInv
  <2> QED BY <2>1, <2>5, <2>6 DEF InTime, AllPhys
<1> QED BY <1>1, TimeInductive, PTL

-----------------------------------------------------------------------------
(* The serial line. *)

\* A transfer is under way from NO_CHARS_FOR_TX until its word has left the FIFO, and
\* TX_READY is not set in between, save before it is cleared for the new transfer.
Quiescent == remaining = 0 /\ fifo = <<>>
Underway == remaining = 1 /\ ~txReady /\ \E w : fifo = <<w>>

TransferInv ==
  /\ ~garbled
  /\ sending = "chars" => Quiescent
  /\ sending = "clear" => remaining = 1 /\ fifo = <<>>
  /\ sending = "room" => remaining = 1 /\ fifo = <<>> /\ ~txReady
  /\ sending \in {"text", "empty?", "wait", "done"} => Quiescent \/ Underway

\* The program is at a character of the string.
AtChar == sending \notin {"text", "done"} => i \in 1 .. Len(text)

UartInv == UartTypeOK /\ TransferInv /\ AtChar

LEMMA TextTyped == ASSUME UartTypeOK PROVE text \in Seq(STRING) /\ Len(text) \in Nat
  BY UartAssumption DEF UartTypeOK

\* The one word of a transfer leaves the FIFO with its last character.
LEMMA LoadKeeps == ASSUME UartInv, Load PROVE UartInv'
<1>1. /\ remaining \in {0, 1} /\ Words \in Nat \ {0}
      /\ UNCHANGED <<sending, text, i, c, garbled>>
  BY UartAssumption DEF Load, UartInv, UartTypeOK
<1>2. PICK w : fifo = <<w>> /\ sending \in {"text", "empty?", "wait", "done"}
  BY DEF Load, UartInv, TransferInv, Quiescent, Underway, UartTypeOK
<1>3. remaining = 1 /\ remaining' = 0 /\ txReady' \in BOOLEAN /\ Len(shift') = 1
  <2>1. remaining = 1 /\ remaining' = 0
    BY <1>1 DEF Load
  <2>2. txReady' \in BOOLEAN
    BY Zenon DEF Load
  <2>3. Len(shift') = 1
    BY DEF Load
  <2> QED BY <2>1, <2>2, <2>3
<1>4. fifo' = <<>>
  BY <1>2, <1>3 DEF Load
<1> QED BY <1>1, <1>2, <1>3, <1>4 DEF UartInv, UartTypeOK, TransferInv, Quiescent, AtChar

LEMMA EmitKeeps == ASSUME UartInv, Emit PROVE UartInv'
  BY DEF Emit, UartInv, UartTypeOK, TransferInv, Quiescent, Underway, AtChar

LEMMA NextCharKeeps == ASSUME UartInv, NextChar PROVE UartInv'
<1>1. UNCHANGED <<text, i, fifo, shift, remaining, txReady, garbled>> /\ sending = "text"
  BY DEF NextChar, Goto, transmitter
<1>2. CASE sending' = "done" /\ UNCHANGED c
  BY <1>1, <1>2 DEF UartInv, UartTypeOK, TransferInv, Quiescent, Underway, AtChar
<1>3. CASE i <= Len(text) /\ sending' = "empty?" /\ c' = text[i]
  <2>1. i \in 1 .. Len(text) /\ text[i] \in ToSet(text)
    BY <1>3, TextTyped DEF UartInv, UartTypeOK, ToSet
  <2> QED BY <1>1, <1>3, <2>1 DEF UartInv, UartTypeOK, TransferInv, Quiescent, Underway, AtChar
<1>4. i > Len(text) \/ i <= Len(text)
  BY TextTyped DEF UartInv, UartTypeOK
<1> QED BY <1>2, <1>3, <1>4 DEF NextChar, Goto

\* The wait ends when the transfer before has.
LEMMA EmptyKeeps == ASSUME UartInv, Empty \/ WaitReady PROVE UartInv'
<1>1. UNCHANGED <<text, i, c, fifo, shift, remaining, txReady, garbled>>
  BY DEF Empty, WaitReady, Goto, transmitter
<1>2. CASE sending' = "wait" /\ sending = "empty?"
  BY <1>1, <1>2 DEF UartInv, UartTypeOK, TransferInv, Quiescent, Underway, AtChar
<1>3. CASE sending' = "chars" /\ sending \in {"empty?", "wait"} /\ (fifo = <<>> \/ txReady)
  <2>1. Quiescent
    BY <1>3 DEF UartInv, TransferInv, Quiescent, Underway
  <2> QED BY <1>1, <1>3, <2>1 DEF UartInv, UartTypeOK, TransferInv, Quiescent, Underway, AtChar
<1> QED BY <1>2, <1>3 DEF Empty, WaitReady, Goto, TXEMT

LEMMA BeginKeeps == ASSUME UartInv, NoCharsForTx \/ ClearReady PROVE UartInv'
<1>1. CASE NoCharsForTx
  <2>1. ~garbled /\ remaining = 0 /\ fifo = <<>>
    BY <1>1 DEF NoCharsForTx, UartInv, TransferInv, Quiescent
  <2>2. ~(remaining > 0)
    BY <2>1
  <2>3. ~garbled' /\ garbled' \in BOOLEAN
    BY <1>1, <2>1, <2>2, Zenon DEF NoCharsForTx
  <2>4. /\ sending = "chars" /\ sending' = "clear" /\ remaining' = 1
        /\ UNCHANGED <<text, i, c, fifo, shift, txReady>>
    BY <1>1 DEF NoCharsForTx, Goto
  <2> QED BY <2>1, <2>3, <2>4 DEF UartInv, UartTypeOK, TransferInv, AtChar
<1>2. CASE ClearReady
  BY <1>2 DEF ClearReady, Goto, UartInv, UartTypeOK, TransferInv, AtChar
<1> QED BY <1>1, <1>2

LEMMA WriteWordKeeps == ASSUME UartInv, WriteWord PROVE UartInv'
<1>1. /\ UNCHANGED <<text, shift, remaining, txReady, garbled>>
      /\ remaining = 1 /\ ~txReady /\ fifo = <<>> /\ i \in 1 .. Len(text) /\ Len(text) \in Nat
  BY TextTyped DEF WriteWord, Return, UartInv, TransferInv, AtChar
<1>2. fifo' = <<TxWord>>
  BY <1>1 DEF WriteWord
<1>3. Len(fifo') <= Words /\ \E w : fifo' = <<w>>
  BY <1>2, UartAssumption
<1>4. /\ sending' \in {"text", "empty?"} /\ i' \in 1 .. Len(text) + 1
      /\ c' \in {NUL, CR} \cup ToSet(text)
      /\ sending' = "empty?" => i' = i
  BY <1>1 DEF WriteWord, Return, UartInv, UartTypeOK
<1> QED BY <1>1, <1>3, <1>4 DEF UartInv, UartTypeOK, TransferInv, Underway, AtChar

\* The invariant of the transfers holds always.
THEOREM UartInductive == UartSpec => []UartInv
<1>1. UartInit => UartInv
  <2> SUFFICES ASSUME UartInit PROVE UartInv
    OBVIOUS
  <2>1. text \in Seq(STRING) /\ Words \in Nat \ {0}
    BY UartAssumption DEF UartInit
  <2>2. UartTypeOK
    <3>1. i \in 1 .. Len(text) + 1 /\ text \in Texts /\ c = NUL /\ sending = "text"
      BY <2>1 DEF UartInit
    <3>2. Len(fifo) <= Words /\ Len(shift) <= 1
      <4>1. Len(<<>>) = 0 /\ Len(<<"b">>) = 1 /\ Len(<<<<"b">>>>) = 1
        OBVIOUS
      <4>2. 0 <= Words /\ 1 <= Words /\ 0 <= 1 /\ 1 <= 1
        BY <2>1
      <4>3. fifo \in {<<>>, <<<<"b">>>>} /\ shift \in {<<>>, <<"b">>}
        BY Zenon DEF UartInit
      <4> QED BY <4>1, <4>2, <4>3, Zenon
    <3>4. remaining \in {0, 1}
      BY DEF UartInit
    <3>5. txReady \in BOOLEAN
      BY DEF UartInit
    <3>3. garbled \in BOOLEAN
      BY DEF UartInit
    <3> QED BY <3>1, <3>2, <3>3, <3>4, <3>5 DEF UartTypeOK
  <2>3. TransferInv /\ AtChar
    BY DEF UartInit, TransferInv, Quiescent, Underway, AtChar
  <2> QED BY <2>2, <2>3 DEF UartInv
<1>2. UartInv /\ [UartNext]_uartVars => UartInv'
  <2> SUFFICES ASSUME UartInv, [UartNext]_uartVars PROVE UartInv'
    OBVIOUS
  <2>1. CASE UNCHANGED uartVars
    BY <2>1 DEF uartVars, transmitter, UartInv, UartTypeOK, TransferInv, Quiescent, Underway, AtChar
  <2> QED
    BY <2>1, LoadKeeps, EmitKeeps, NextCharKeeps, EmptyKeeps, BeginKeeps, WriteWordKeeps
    DEF UartNext, PutString
<1> QED BY <1>1, <1>2, PTL DEF UartSpec

\* Whatever is printed, however many words the FIFO takes and however the transmitter and
\* the program interleave: serial_putc never tells the UART of a new transfer while one
\* is under way.
THEOREM TransfersKept == UartSpec => []TransferKept
<1>1. UartInv => TransferKept
  BY DEF UartInv, TransferInv, TransferKept
<1> QED BY <1>1, UartInductive, PTL

\* The FIFO is never written more words than it takes, and printf_output stays inside
\* its string.
THEOREM UartTypeCorrect == UartSpec => []UartTypeOK
<1>1. UartInv => UartTypeOK
  BY DEF UartInv
<1> QED BY <1>1, UartInductive, PTL

-----------------------------------------------------------------------------
(* What goes out on the serial line. *)

LEMMA NaturalOrder ==
  \E R : IsWellFoundedOn(R, Nat) /\ \A x, y \in Nat : x < y => <<x, y>> \in R
<1> DEFINE R == OpToRel(<, Nat)
<1>1. IsWellFoundedOn(R, Nat)
  BY NatLessThanWellFounded
<1>2. \A x, y \in Nat : x < y => <<x, y>> \in R
  BY DEF OpToRel
<1> HIDE DEF R
<1> QED BY <1>1, <1>2, Zenon

\* Every set of numbers that is not empty has a least one: what holds of no least
\* counterexample holds of all numbers.
LEMMA LeastNumber ==
  ASSUME NEW T \in SUBSET Nat, T # {}
  PROVE  \E x \in T : \A y \in T : x <= y
<1>1. PICK R : IsWellFoundedOn(R, Nat) /\ \A x, y \in Nat : x < y => <<x, y>> \in R
  BY NaturalOrder
<1>2. T \subseteq Nat
  OBVIOUS
<1>3. PICK x \in T : \A y \in T : ~ (<<y, x>> \in R)
  <2>1. IsWellFoundedOn(R, Nat)
    BY <1>1
  <2>2. \A S : S \subseteq Nat /\ S # {} => \E x \in S : \A y \in S : ~ (<<y, x>> \in R)
    BY <2>1, WFMin, ZenonT(30)
  <2> QED BY <1>2, <2>2
<1>4. ASSUME NEW y \in T PROVE x <= y
  <2>1. x \in Nat /\ y \in Nat
    BY <1>2
  <2>2. ~ (y < x)
    BY <1>1, <1>3, <2>1, Zenon
  <2> QED BY <2>1, <2>2
<1> QED BY <1>4

\* The beginnings of a sequence put together from others.
ArePrefixes(f, t, n) ==
  f = [k \in 1 .. n |-> IF k = 1 THEN t[1] ELSE f[k - 1] \o t[k]]

LEMMA PrefixesUpto == ASSUME NEW t, NEW n \in Nat PROVE \E f : ArePrefixes(f, t, n)
<1> DEFINE T == {m \in Nat : ~ \E f : ArePrefixes(f, t, m)}
<1>1. SUFFICES ASSUME T # {} PROVE FALSE
  OBVIOUS
<1>2. PICK m \in T : \A k \in T : m <= k
  BY <1>1, LeastNumber
<1>3. ArePrefixes([k \in 1 .. 0 |-> t[1]], t, 0)
  BY DEF ArePrefixes
<1>4. m # 0
  BY <1>3
<1>5. m - 1 \in Nat /\ m - 1 \notin T
  BY <1>2, <1>4
<1>6. PICK f : ArePrefixes(f, t, m - 1)
  BY <1>5
<1> DEFINE g == [k \in 1 .. m |-> IF k = 1 THEN t[1] ELSE f[k - 1] \o t[k]]
<1>7. ASSUME NEW k \in 1 .. m - 1 PROVE g[k] = f[k]
  <2>1. k \in 1 .. m
    BY <1>5
  <2> QED BY <1>6, <2>1 DEF ArePrefixes
<1>8. \A k \in 1 .. m : k # 1 => k - 1 \in 1 .. m - 1
  BY <1>5
<1> HIDE DEF g
<1>9. \A k \in 1 .. m : k # 1 => g[k - 1] = f[k - 1]
  BY <1>7, <1>8
<1>10. g = [k \in 1 .. m |-> IF k = 1 THEN t[1] ELSE g[k - 1] \o t[k]]
  BY <1>9 DEF g
<1>11. ArePrefixes(g, t, m)
  BY <1>10 DEF ArePrefixes
<1> QED BY <1>11

LEMMA FlattenIs ==
  ASSUME NEW t, Len(t) \in Nat, Len(t) # 0
  PROVE  \E f : ArePrefixes(f, t, Len(t)) /\ FlattenSeq(t) = f[Len(t)]
<1>1. FlattenSeq(t) = (CHOOSE f : f = [k \in 1 .. Len(t) |-> IF k = 1 THEN t[k] ELSE f[k - 1] \o t[k]])[Len(t)]
  BY Zenon DEF FlattenSeq
<1> DEFINE P(f) == f = [k \in 1 .. Len(t) |-> IF k = 1 THEN t[k] ELSE f[k - 1] \o t[k]]
           F == CHOOSE f : P(f)
<1>2. \E f : P(f)
  <2>1. PICK f : ArePrefixes(f, t, Len(t))
    BY PrefixesUpto
  <2>2. P(f)
    BY <2>1 DEF ArePrefixes
  <2> QED BY <2>2
<1>3. FlattenSeq(t) = F[Len(t)]
  BY <1>1, Zenon
<1>4. P(F)
  <2> HIDE DEF P
  <2> QED BY <1>2
<1> HIDE DEF F
<1>5. ArePrefixes(F, t, Len(t))
  BY <1>4 DEF ArePrefixes
<1> QED BY <1>3, <1>5

\* What can be on the line.
Characters == STRING \cup {LF, CR, "b"}

LEMMA Breaks == LF \in Characters /\ CR \in Characters /\ "b" \in Characters
BY DEF Characters

LEMMA TextOfCharacters == ASSUME NEW t \in Seq(STRING) PROVE t \in Seq(Characters)
<1>1. STRING \subseteq Characters
  BY DEF Characters
<1>2. Len(t) \in Nat /\ t \in [1 .. Len(t) -> STRING]
  BY LenProperties
<1>3. t \in [1 .. Len(t) -> Characters]
  BY <1>1, <1>2
<1> QED BY <1>2, <1>3

LEMMA Associative ==
  ASSUME NEW s \in Seq(Characters), NEW t \in Seq(Characters), NEW u \in Seq(Characters)
  PROVE  (s \o t) \o u = s \o (t \o u)
BY ConcatAssociative

LEMMA Character ==
  ASSUME NEW S, NEW x \in S PROVE <<x>> \in Seq(S) /\ Head(<<x>>) = x /\ <<x>> # <<>>
OBVIOUS

LEMMA TwoCharacters ==
  ASSUME NEW S, NEW x \in S, NEW y \in S
  PROVE  /\ <<x, y>> \in Seq(S) /\ Head(<<x, y>>) = x /\ <<x, y>> # <<>>
         /\ <<x, y>> = <<x>> \o <<y>>
<1> DEFINE both == <<x>> \o <<y>>
<1>1. <<x>> \in Seq(S) /\ <<y>> \in Seq(S) /\ <<x, y>> \in Seq(S)
  OBVIOUS
<1>2. /\ Len(<<x>>) = 1 /\ Len(<<y>>) = 1 /\ Len(<<x, y>>) = 2
      /\ <<x>>[1] = x /\ <<y>>[1] = y /\ <<x, y>>[1] = x /\ <<x, y>>[2] = y
  OBVIOUS
<1>3. /\ both \in Seq(S) /\ Len(both) = 2
      /\ \A k \in 1 .. 2 : both[k] = IF k <= 1 THEN <<x>>[k] ELSE <<y>>[k - 1]
  BY <1>1, <1>2, ConcatProperties
<1>4. \A k \in 1 .. 2 : both[k] = <<x, y>>[k]
  <2>1. both[1] = x /\ both[2] = y
    BY <1>2, <1>3
  <2> QED BY <1>2, <2>1
<1>5. both = <<x, y>>
  BY <1>1, <1>2, <1>3, <1>4, SeqEqual
<1>6. Head(<<x, y>>) = x /\ <<x, y>> # <<>>
  OBVIOUS
<1> QED BY <1>1, <1>5, <1>6

\* What this code sends: the carriage return behind the line feed.
Printed(s) ==
  IF s = <<NUL>> THEN <<>>
  ELSE FlattenSeq([k \in 1 .. Len(s) |-> IF s[k] = LF THEN <<LF, CR>> ELSE <<s[k]>>])

LEMMA PrintedIsPrinting == Printed(text) \in Printings(text)
<1>1. CASE text = <<NUL>>
  BY <1>1 DEF Printed, Printings
<1>2. CASE text # <<NUL>>
  <2> DEFINE fed == [k \in 1 .. Len(text) |-> TRUE]
             Written(f) == [k \in 1 .. Len(text) |-> IF text[k] # LF THEN <<text[k]>>
                                      ELSE IF f[k] THEN <<LF, CR>> ELSE <<CR, LF>>]
  <2>1. fed \in [1 .. Len(text) -> BOOLEAN]
    OBVIOUS
  <2>2. Written(fed) = [k \in 1 .. Len(text) |-> IF text[k] = LF THEN <<LF, CR>> ELSE <<text[k]>>]
    <3>1. \A k \in 1 .. Len(text) :
            (IF text[k] # LF THEN <<text[k]>> ELSE IF fed[k] THEN <<LF, CR>> ELSE <<CR, LF>>)
            = IF text[k] = LF THEN <<LF, CR>> ELSE <<text[k]>>
      BY Zenon
    <3> QED BY <3>1, Zenon
  <2>3. Printed(text) = FlattenSeq(Written(fed))
    BY <1>2, <2>2, Zenon DEF Printed
  <2>4. FlattenSeq(Written(fed)) \in {FlattenSeq(Written(f)) : f \in [1 .. Len(text) -> BOOLEAN]}
    <3> HIDE DEF fed, Written
    <3> QED BY <2>1, Zenon
  <2> QED BY <1>2, <2>3, <2>4, Zenon DEF Printings
<1> QED BY <1>1, <1>2

\* The characters of the string as they go out, and all up to one of them.
Spelt == [k \in 1 .. Len(text) |-> IF text[k] = LF THEN <<LF, CR>> ELSE <<text[k]>>]
Upto(f, k) == IF k = 0 THEN <<>> ELSE f[k]
Spells(f) ==
  /\ ArePrefixes(f, Spelt, Len(text))
  /\ text # <<NUL>> => Printed(text) = Upto(f, Len(text))

LEMMA SpellsExists == ASSUME text \in Seq(Characters) PROVE \E f : Spells(f)
<1>1. Len(text) \in Nat /\ Len(Spelt) = Len(text)
  BY DEF Spelt
<1>2. text # <<NUL>> => Printed(text) = FlattenSeq(Spelt)
  BY DEF Printed, Spelt
<1>3. CASE Len(text) = 0
  <2>1. FlattenSeq(Spelt) = Spelt /\ Spelt = <<>>
    BY <1>1, <1>3 DEF FlattenSeq, Spelt
  <2>2. PICK f : ArePrefixes(f, Spelt, Len(text))
    BY <1>1, PrefixesUpto
  <2> QED BY <1>2, <1>3, <2>1, <2>2 DEF Spells, Upto
<1>4. CASE Len(text) # 0
  <2>1. PICK f : ArePrefixes(f, Spelt, Len(text)) /\ FlattenSeq(Spelt) = f[Len(text)]
    BY <1>1, <1>4, FlattenIs
  <2> QED BY <1>2, <1>4, <2>1 DEF Spells, Upto
<1> QED BY <1>3, <1>4

\* Each character adds its spelling.
LEMMA UptoStep ==
  ASSUME text \in Seq(Characters), NEW f, Spells(f), NEW k \in 1 .. Len(text)
  PROVE  /\ Spelt[k] = (IF text[k] = LF THEN <<LF, CR>> ELSE <<text[k]>>) /\ Spelt[k] \in Seq(Characters)
         /\ Upto(f, k - 1) \in Seq(Characters) => Upto(f, k) = Upto(f, k - 1) \o Spelt[k]
<1>1. Len(text) \in Nat /\ text[k] \in Characters
  BY ElementOfSeq
<1>2. Spelt[k] = IF text[k] = LF THEN <<LF, CR>> ELSE <<text[k]>>
  BY DEF Spelt
<1>3. <<LF, CR>> \in Seq(Characters) /\ <<text[k]>> \in Seq(Characters)
  BY <1>1, Breaks, Character, TwoCharacters
<1>4. Spelt[k] \in Seq(Characters)
  BY <1>2, <1>3
<1>5. f[k] = IF k = 1 THEN Spelt[1] ELSE f[k - 1] \o Spelt[k]
  BY DEF Spells, ArePrefixes
<1>6. CASE k = 1
  <2>1. Upto(f, k) = Spelt[k] /\ Upto(f, k - 1) = <<>>
    BY <1>5, <1>6 DEF Upto
  <2> QED BY <1>2, <1>4, <2>1, ConcatEmptySeq
<1>7. CASE k # 1
  <2>1. Upto(f, k) = f[k] /\ Upto(f, k - 1) = f[k - 1]
    BY <1>7 DEF Upto
  <2> QED BY <1>2, <1>4, <1>5, <1>7, <2>1
<1> QED BY <1>6, <1>7

LEMMA UptoTyped ==
  ASSUME text \in Seq(Characters), NEW f, Spells(f), NEW k \in 0 .. Len(text)
  PROVE  Upto(f, k) \in Seq(Characters)
<1> DEFINE T == {m \in Nat : m <= Len(text) /\ Upto(f, m) \notin Seq(Characters)}
<1>1. SUFFICES ASSUME T # {} PROVE FALSE
  OBVIOUS
<1>2. PICK m \in T : \A j \in T : m <= j
  BY <1>1, LeastNumber
<1>3. Len(text) \in Nat /\ m \in Nat /\ m <= Len(text)
  OBVIOUS
<1>4. m # 0
  <2>1. Upto(f, 0) \in Seq(Characters)
    <3>1. Upto(f, 0) = <<>>
      BY DEF Upto
    <3> QED BY <3>1, EmptySeq
  <2>2. Upto(f, m) \notin Seq(Characters)
    OBVIOUS
  <2> QED BY <2>1, <2>2, Zenon
<1>5. m \in 1 .. Len(text) /\ m - 1 \in Nat /\ m - 1 <= Len(text) /\ m - 1 \notin T
  BY <1>2, <1>3, <1>4
<1>6. Upto(f, m - 1) \in Seq(Characters)
  BY <1>5
<1>7. Upto(f, m) = Upto(f, m - 1) \o Spelt[m] /\ Spelt[m] \in Seq(Characters)
  BY <1>5, <1>6, UptoStep
<1>8. Upto(f, m) \in Seq(Characters)
  BY <1>6, <1>7, ConcatProperties
<1> QED BY <1>2, <1>8

\* What has been printed is the beginning of what will have been.
LEMMA UptoBegins ==
  ASSUME text \in Seq(Characters), NEW f, Spells(f), NEW k \in 0 .. Len(text)
  PROVE  \E r \in Seq(Characters) : Upto(f, k) \o r = Upto(f, Len(text))
<1> DEFINE n == Len(text)
           Begins(m) == \E r \in Seq(Characters) : Upto(f, n - m) \o r = Upto(f, n)
           T == {m \in Nat : m <= n /\ ~Begins(m)}
<1>1. n \in Nat
  OBVIOUS
<1>2. T = {}
  <2>1. SUFFICES ASSUME T # {} PROVE FALSE
    OBVIOUS
  <2>2. PICK m \in T : \A j \in T : m <= j
    BY <2>1, LeastNumber
  <2>3. m # 0
    <3>1. n - 0 = n /\ n \in 0 .. Len(text)
      BY <1>1
    <3>2. Upto(f, n) \o <<>> = Upto(f, n) /\ <<>> \in Seq(Characters)
      BY <3>1, UptoTyped, ConcatEmptySeq
    <3>3. Begins(0)
      BY <3>1, <3>2
    <3> QED BY <3>3
  <2>4. m - 1 \in Nat /\ m - 1 <= n /\ m - 1 \notin T
    <3>1. m \in Nat /\ m <= n
      OBVIOUS
    <3>2. m - 1 \in Nat /\ m - 1 <= n /\ ~(m <= m - 1)
      BY <1>1, <2>3, <3>1
    <3> HIDE DEF T
    <3> QED BY <2>2, <3>2
  <2> DEFINE i1 == n - m
  <2>5. i1 \in 0 .. Len(text) /\ i1 + 1 \in 1 .. Len(text) /\ n - (m - 1) = i1 + 1 /\ (i1 + 1) - 1 = i1
    BY <1>1, <2>3
  <2>6. PICK r \in Seq(Characters) : Upto(f, n - (m - 1)) \o r = Upto(f, n)
    BY <2>4
  <2>9. ~Begins(m)
    BY <2>2
  <2> HIDE DEF i1
  <2>7. Upto(f, i1) \in Seq(Characters)
    BY <2>5, UptoTyped
  <2>8. Upto(f, i1 + 1) = Upto(f, i1) \o Spelt[i1 + 1] /\ Spelt[i1 + 1] \in Seq(Characters)
    BY <2>5, <2>7, UptoStep
  <2>10. Upto(f, i1) \o (Spelt[i1 + 1] \o r) = Upto(f, n)
    <3>1. (Upto(f, i1) \o Spelt[i1 + 1]) \o r = Upto(f, n)
      BY <2>5, <2>6, <2>8
    <3>2. (Upto(f, i1) \o Spelt[i1 + 1]) \o r = Upto(f, i1) \o (Spelt[i1 + 1] \o r)
      <4> HIDE DEF n
      <4> QED BY <2>7, <2>8, Associative
    <3> QED BY <3>1, <3>2
  <2>11. Spelt[i1 + 1] \o r \in Seq(Characters)
    BY <2>8, ConcatProperties
  <2> QED BY <2>9, <2>10, <2>11 DEF i1
<1>3. n - k \in Nat /\ n - k <= n /\ n - (n - k) = k
  BY <1>1
<1>4. Begins(n - k)
  BY <1>2, <1>3
<1> QED BY <1>3, <1>4

\* What has gone out and what is on its way is what RouterBOOT had left and then the
\* characters written so far; of a line feed, serial_putc may have written one half.
Leftovers == {<<>>, <<"b">>, <<"b", "b">>}
Queued == IF fifo = <<>> THEN <<>> ELSE <<Head(Head(fifo))>>
Coming == shift \o Queued
Half == sending \notin {"text", "done"} /\ c # text[i]
Due(f) == IF Half THEN Upto(f, i - 1) \o <<LF>> ELSE Upto(f, i - 1)

\* A word in the FIFO has a character to send.
SentTyped ==
  /\ line \in Seq(Characters) /\ shift \in Seq(Characters)
  /\ fifo # <<>> => \E w \in Seq(Characters) : w # <<>> /\ fifo = <<w>>

\* The string of the termination call is never begun.
AtSpelling ==
  /\ sending \notin {"text", "done"} =>
       text # <<NUL>> /\ (c = text[i] \/ (text[i] = LF /\ c = CR))
  /\ sending = "done" => i = Len(text) + 1 \/ text = <<NUL>>
  /\ text = <<NUL>> => i = 1

SentInv ==
  /\ SentTyped /\ AtSpelling
  /\ \E f : Spells(f) /\ \E had \in Leftovers : line \o Coming = had \o Due(f)

\* The safety of AllSent: what has gone out is always the beginning of what RouterBOOT had
\* left and the string behind it, and it is all of that once the string is done and the
\* transmitter empty.
InOrder ==
  \E leftover \in Leftovers : \E printing \in Printings(text) :
    /\ IsPrefix(line, leftover \o printing)
    /\ sending = "done" /\ TXEMT => line = leftover \o printing

LEMMA ComingTyped ==
  ASSUME SentTyped PROVE Queued \in Seq(Characters) /\ Coming \in Seq(Characters)
<1>1. Queued \in Seq(Characters)
  <2>1. CASE fifo = <<>>
    BY <2>1, EmptySeq DEF Queued
  <2>2. CASE fifo # <<>>
    <3>1. PICK w \in Seq(Characters) : w # <<>> /\ fifo = <<w>>
      BY <2>2 DEF SentTyped
    <3>2. Head(fifo) = w
      BY <3>1
    <3>3. Head(w) \in Characters
      BY <3>1, HeadTailProperties
    <3> QED BY <2>2, <3>2, <3>3, Character DEF Queued
  <2> QED BY <2>1, <2>2
<1>2. shift \in Seq(Characters)
  BY DEF SentTyped
<1>3. shift \o Queued \in Seq(Characters)
  BY <1>1, <1>2, ConcatProperties
<1> QED BY <1>1, <1>3 DEF Coming

LEMMA PlaceTyped ==
  ASSUME UartInv
  PROVE  /\ text \in Seq(Characters) /\ Len(text) \in Nat
         /\ i \in Nat /\ i - 1 \in 0 .. Len(text)
         /\ sending \notin {"text", "done"} => i \in 1 .. Len(text) /\ text[i] \in Characters
<1>1. text \in Seq(Characters) /\ Len(text) \in Nat
  BY TextTyped, TextOfCharacters DEF UartInv
<1>2. i \in 1 .. Len(text) + 1 /\ (sending \notin {"text", "done"} => i \in 1 .. Len(text))
  BY DEF UartInv, UartTypeOK, AtChar
<1>3. i \in 1 .. Len(text) => text[i] \in Characters
  BY <1>1, ElementOfSeq
<1> QED BY <1>1, <1>2, <1>3

\* What is to go out up to now, and what then follows.
LEMMA DueBegins ==
  ASSUME UartInv, AtSpelling, NEW f, Spells(f)
  PROVE  /\ Due(f) \in Seq(Characters)
         /\ \E r \in Seq(Characters) : Due(f) \o r = Printed(text)
         /\ sending = "done" => Due(f) = Printed(text)
<1>1. /\ text \in Seq(Characters) /\ Len(text) \in Nat /\ i \in Nat /\ i - 1 \in 0 .. Len(text)
      /\ sending \notin {"text", "done"} => i \in 1 .. Len(text) /\ text[i] \in Characters
  BY PlaceTyped
<1>2. Upto(f, i - 1) \in Seq(Characters)
  BY <1>1, UptoTyped
<1>3. text # <<NUL>> => Printed(text) = Upto(f, Len(text))
  BY DEF Spells
<1>4. CASE text = <<NUL>>
  <2>1. ~Half /\ i = 1
    BY <1>4 DEF AtSpelling, Half
  <2>2. Due(f) = <<>> /\ Printed(text) = <<>>
    BY <1>4, <2>1 DEF Due, Upto, Printed
  <2>3. <<>> \in Seq(Characters) /\ <<>> \o <<>> = <<>>
    BY EmptySeq, ConcatEmptySeq
  <2> QED BY <2>2, <2>3
<1>5. CASE text # <<NUL>> /\ ~Half
  <2>1. Due(f) = Upto(f, i - 1)
    BY <1>5 DEF Due
  <2>2. \E r \in Seq(Characters) : Upto(f, i - 1) \o r = Upto(f, Len(text))
    BY <1>1, UptoBegins
  <2>3. sending = "done" => i - 1 = Len(text)
    BY <1>1, <1>5 DEF AtSpelling
  <2> QED BY <1>2, <1>3, <1>5, <2>1, <2>2, <2>3
<1>6. CASE text # <<NUL>> /\ Half
  <2>1. /\ sending \notin {"text", "done"} /\ text[i] = LF
        /\ i \in 1 .. Len(text) /\ Due(f) = Upto(f, i - 1) \o <<LF>>
    BY <1>1, <1>6 DEF Half, AtSpelling, Due
  <2>2. <<LF>> \in Seq(Characters) /\ <<CR>> \in Seq(Characters) /\ <<LF, CR>> = <<LF>> \o <<CR>>
    BY Breaks, Character, TwoCharacters
  <2>3. Upto(f, i) = Upto(f, i - 1) \o (<<LF>> \o <<CR>>)
    BY <1>1, <1>2, <2>1, <2>2, UptoStep
  <2>4. Due(f) \in Seq(Characters)
    BY <1>2, <2>1, <2>2, ConcatProperties
  <2>5. Upto(f, i) = Due(f) \o <<CR>>
    BY <1>2, <2>1, <2>2, <2>3, Associative
  <2>6. PICK r \in Seq(Characters) : Upto(f, i) \o r = Upto(f, Len(text))
    <3>1. i \in 0 .. Len(text)
      BY <1>1, <2>1
    <3> QED BY <1>1, <3>1, UptoBegins
  <2>7. <<CR>> \o r \in Seq(Characters)
    BY <2>2, ConcatProperties
  <2>8. Due(f) \o (<<CR>> \o r) = (Due(f) \o <<CR>>) \o r
    BY <2>2, <2>4, Associative
  <2>9. Due(f) \o (<<CR>> \o r) = Printed(text)
    BY <1>3, <1>6, <2>5, <2>6, <2>8
  <2> QED BY <2>1, <2>4, <2>7, <2>9
<1> QED BY <1>4, <1>5, <1>6

LEMMA BeginsIsPrefix ==
  ASSUME NEW s \in Seq(Characters), NEW t \in Seq(Characters) PROVE IsPrefix(s, s \o t)
<1>1. Len(s) \in Nat /\ Len(t) \in Nat /\ Len(s \o t) = Len(s) + Len(t)
  BY LenProperties, ConcatProperties
<1>2. SubSeq(s \o t, 1, Len(s)) = SubSeq(s, 1, Len(s))
  <2>1. CASE Len(s) = 0
    <3>1. SubSeq(s \o t, 1, 0) = <<>> /\ SubSeq(s, 1, 0) = <<>>
      BY SubSeqEmpty
    <3> QED BY <2>1, <3>1
  <2>2. CASE Len(s) # 0
    <3>1. 1 \in 1 .. Len(s) /\ Len(s) \in 1 .. Len(s)
      BY <1>1, <2>2
    <3> QED BY <3>1, SubSeqOfConcat1
  <2> QED BY <2>1, <2>2
<1>3. SubSeq(s, 1, Len(s)) = s
  BY SubSeqFull
<1> QED BY <1>1, <1>2, <1>3 DEF IsPrefix

LEMMA LeftoversTyped == Leftovers \subseteq Seq(Characters)
<1>1. <<>> \in Seq(Characters) /\ <<"b">> \in Seq(Characters) /\ <<"b", "b">> \in Seq(Characters)
  BY Breaks, EmptySeq, Character, TwoCharacters
<1> QED BY <1>1 DEF Leftovers

LEMMA SentInOrder == ASSUME UartInv, SentInv PROVE InOrder
<1>1. PICK f : Spells(f) /\ \E had \in Leftovers : line \o Coming = had \o Due(f)
  BY DEF SentInv
<1>2. PICK had \in Leftovers : line \o Coming = had \o Due(f)
  BY <1>1
<1>3. line \in Seq(Characters) /\ Coming \in Seq(Characters) /\ had \in Seq(Characters)
  BY ComingTyped, LeftoversTyped DEF SentInv, SentTyped
<1>4. /\ Due(f) \in Seq(Characters)
      /\ \E r \in Seq(Characters) : Due(f) \o r = Printed(text)
      /\ sending = "done" => Due(f) = Printed(text)
  BY <1>1, DueBegins DEF SentInv
<1>5. PICK r \in Seq(Characters) : Due(f) \o r = Printed(text)
  BY <1>4
<1>6. line \o (Coming \o r) = had \o Printed(text)
  <2>1. line \o (Coming \o r) = (line \o Coming) \o r
    BY <1>3, <1>5, Associative
  <2>2. (had \o Due(f)) \o r = had \o (Due(f) \o r)
    BY <1>3, <1>4, <1>5, Associative
  <2> QED BY <1>2, <1>5, <2>1, <2>2
<1>7. IsPrefix(line, had \o Printed(text))
  <2>1. Coming \o r \in Seq(Characters)
    BY <1>3, <1>5, ConcatProperties
  <2>2. IsPrefix(line, line \o (Coming \o r))
    BY <1>3, <2>1, BeginsIsPrefix
  <2> QED BY <1>6, <2>2
<1>8. ASSUME sending = "done", TXEMT PROVE line = had \o Printed(text)
  <2>1. <<>> \in Seq(Characters) /\ <<>> \o <<>> = <<>>
    BY EmptySeq, ConcatEmptySeq
  <2>2. Coming = <<>>
    BY <1>8, <2>1 DEF TXEMT, Coming, Queued
  <2>3. line \o <<>> = line
    BY <1>3, ConcatEmptySeq
  <2> QED BY <1>2, <1>4, <1>8, <2>2, <2>3
<1> QED BY <1>7, <1>8, PrintedIsPrinting, Zenon DEF InOrder

\* The spelling is that of the text, which stays.
LEMMA SpellingStays == ASSUME UNCHANGED text, NEW f, Spells(f) PROVE Spells(f)'
  BY DEF Spells, ArePrefixes, Spelt, Printed

\* A step that sends nothing new, and does not move on in the string.
LEMMA SentStays ==
  ASSUME SentInv, SentTyped', AtSpelling', UNCHANGED <<text, i>>,
         Half' = Half, line' \o Coming' = line \o Coming
  PROVE  SentInv'
<1>1. PICK f : Spells(f) /\ \E had \in Leftovers : line \o Coming = had \o Due(f)
  BY DEF SentInv
<1>2. Spells(f)'
  BY <1>1, SpellingStays
<1>3. Due(f)' = Due(f)
  BY DEF Due
<1>4. \E had \in Leftovers' : line' \o Coming' = had \o Due(f)'
  BY <1>1, <1>3 DEF Leftovers
<1> QED BY <1>2, <1>4 DEF SentInv

LEMMA SentInitially == ASSUME UartInit PROVE SentInv
<1>1. /\ text \in Seq(Characters) /\ i = 1 /\ sending = "text" /\ line = <<>>
      /\ "b" \in Characters /\ <<>> \in Seq(Characters)
  <2>1. text \in Seq(STRING) /\ i = 1 /\ sending = "text" /\ line = <<>>
    BY UartAssumption DEF UartInit
  <2> QED BY <2>1, TextOfCharacters, Breaks, EmptySeq
<1>2. PICK f : Spells(f)
  BY <1>1, SpellsExists
<1>3. <<"b">> \in Seq(Characters) /\ <<"b">> # <<>> /\ <<"b", "b">> = <<"b">> \o <<"b">>
  BY <1>1, Character, TwoCharacters
<1>4. <<>> \o <<>> = <<>> /\ <<"b">> \o <<>> = <<"b">>
  BY <1>1, <1>3, ConcatEmptySeq
<1>5. /\ shift \in Seq(Characters) /\ Coming \in Leftovers
      /\ fifo # <<>> => \E w \in Seq(Characters) : w # <<>> /\ fifo = <<w>>
  <2>1. CASE fifo = <<>> /\ shift = <<>>
    BY <1>1, <1>4, <2>1 DEF Coming, Queued, Leftovers
  <2>2. CASE fifo = <<>> /\ shift = <<"b">>
    BY <1>3, <1>4, <2>2 DEF Coming, Queued, Leftovers
  <2>3. CASE fifo = <<<<"b">>>> /\ shift = <<"b">>
    <3>1. Queued = <<"b">>
      BY <2>3 DEF Queued
    <3> QED BY <1>3, <2>3, <3>1 DEF Coming, Leftovers
  <2> QED BY <2>1, <2>2, <2>3 DEF UartInit
<1>6. Due(f) = <<>>
  BY <1>1 DEF Due, Half, Upto
<1>7. Coming \in Seq(Characters)
  BY <1>5, LeftoversTyped
<1>8. line \o Coming = Coming \o Due(f)
  BY <1>1, <1>6, <1>7, ConcatEmptySeq
<1>9. SentTyped /\ AtSpelling
  BY <1>1, <1>5 DEF SentTyped, AtSpelling
<1> QED BY <1>2, <1>5, <1>8, <1>9 DEF SentInv

LEMMA LoadSends == ASSUME UartInv, SentInv, Load PROVE SentInv'
<1>1. UNCHANGED <<sending, text, i, c, line>> /\ fifo # <<>> /\ shift = <<>> /\ remaining = 1
  BY DEF Load, UartInv, UartTypeOK
<1>2. PICK w \in Seq(Characters) : w # <<>> /\ fifo = <<w>>
  BY <1>1 DEF SentInv, SentTyped
<1>3. Head(w) \in Characters /\ Head(fifo) = w /\ Tail(fifo) = <<>>
  BY <1>2, HeadTailProperties
<1>4. fifo' = <<>> /\ shift' = <<Head(w)>>
  BY <1>1, <1>3 DEF Load
<1>5. <<Head(w)>> \in Seq(Characters)
  BY <1>3, Character
<1>6. Coming' = Coming
  <2>1. Coming = <<>> \o <<Head(w)>> /\ Coming' = <<Head(w)>> \o <<>>
    BY <1>1, <1>3, <1>4 DEF Coming, Queued
  <2> QED BY <1>5, <2>1, ConcatEmptySeq
<1>7. SentTyped' /\ AtSpelling' /\ Half' = Half
  BY <1>1, <1>4, <1>5 DEF SentInv, SentTyped, AtSpelling, Half
<1> QED BY <1>1, <1>6, <1>7, SentStays

LEMMA EmitSends == ASSUME UartInv, SentInv, Emit PROVE SentInv'
<1>1. UNCHANGED <<sending, text, i, c, fifo>> /\ line' = line \o shift /\ shift' = <<>>
  BY DEF Emit
<1>2. line \in Seq(Characters) /\ shift \in Seq(Characters) /\ Queued \in Seq(Characters) /\ <<>> \in Seq(Characters)
  BY ComingTyped, EmptySeq DEF SentInv, SentTyped
<1>3. line' \in Seq(Characters)
  BY <1>1, <1>2, ConcatProperties
<1>4. line' \o Coming' = line \o Coming
  <2>1. Coming' = Queued /\ Coming = shift \o Queued
    BY <1>1, <1>2, ConcatEmptySeq DEF Coming, Queued
  <2> QED BY <1>1, <1>2, <2>1, Associative
<1>5. SentTyped' /\ AtSpelling' /\ Half' = Half
  BY <1>1, <1>2, <1>3 DEF SentInv, SentTyped, AtSpelling, Half
<1> QED BY <1>1, <1>4, <1>5, SentStays

LEMMA NextCharSends == ASSUME UartInv, SentInv, NextChar PROVE SentInv'
<1>1. UNCHANGED <<text, i, fifo, shift, line>> /\ sending = "text"
  BY DEF NextChar, Goto, transmitter
<1>2. Len(text) \in Nat /\ i \in Nat /\ i - 1 \in 0 .. Len(text)
  BY PlaceTyped
<1>3. SentTyped' /\ Coming' = Coming /\ ~Half
  BY <1>1 DEF SentInv, SentTyped, Coming, Queued, Half
<1>4. CASE i > Len(text) \/ text = <<NUL>>
  <2>1. sending' = "done" /\ c' = c
    BY <1>4 DEF NextChar, Goto
  <2>2. AtSpelling' /\ ~Half'
    BY <1>1, <1>2, <1>4, <2>1 DEF SentInv, AtSpelling, Half
  <2>3. Half' = Half
    BY <1>3, <2>2 DEF Half
  <2> QED BY <1>1, <1>3, <2>2, <2>3, SentStays
<1>5. CASE ~(i > Len(text) \/ text = <<NUL>>)
  <2>1. sending' = "empty?" /\ c' = text[i]
    BY <1>5 DEF NextChar
  <2>2. AtSpelling' /\ ~Half'
    BY <1>1, <1>5, <2>1 DEF SentInv, AtSpelling, Half
  <2>3. Half' = Half
    BY <1>3, <2>2 DEF Half
  <2> QED BY <1>1, <1>3, <2>2, <2>3, SentStays
<1> QED BY <1>4, <1>5

LEMMA WaitingSends ==
  ASSUME SentInv, Empty \/ WaitReady \/ NoCharsForTx \/ ClearReady
  PROVE  SentInv'
<1>1. /\ UNCHANGED <<text, i, c, fifo, shift, line>>
      /\ sending \in {"empty?", "wait", "chars", "clear"}
      /\ sending' \in {"wait", "chars", "clear", "room"}
  BY DEF Empty, WaitReady, NoCharsForTx, ClearReady, Goto, transmitter
<1>2. SentTyped' /\ AtSpelling' /\ Half' = Half /\ Coming' = Coming
  BY <1>1 DEF SentInv, SentTyped, AtSpelling, Half, Coming, Queued
<1> QED BY <1>1, <1>2, SentStays

\* A character that is written is the next one due.
LEMMA WriteIsDue ==
  ASSUME UartInv, SentInv, WriteWord, NEW f, Spells(f)
  PROVE  Due(f)' = Due(f) \o <<c>> /\ AtSpelling' /\ c \in Characters
<1>1. /\ text \in Seq(Characters) /\ Len(text) \in Nat /\ i \in 1 .. Len(text) /\ text[i] \in Characters
      /\ sending = "room" /\ text' = text /\ text # <<NUL>>
      /\ c = text[i] \/ (text[i] = LF /\ c = CR)
  BY PlaceTyped DEF WriteWord, Return, SentInv, AtSpelling
<1>2. i - 1 \in 0 .. Len(text) /\ i \in Nat /\ (i + 1) - 1 = i
  BY <1>1
<1>3. Upto(f, i - 1) \in Seq(Characters) /\ Upto(f, i) = Upto(f, i - 1) \o Spelt[i]
  BY <1>1, <1>2, UptoTyped, UptoStep
<1>4. Spelt[i] = IF text[i] = LF THEN <<LF, CR>> ELSE <<text[i]>>
  BY <1>1, UptoStep
<1>5. LF # CR
  BY DEF LF, CR
<1>6. Half <=> c # text[i]
  BY <1>1 DEF Half
<1>7. c \in Characters
  BY <1>1, Breaks
<1>8. CASE c = LF
  <2>1. text[i] = LF /\ ~Half
    BY <1>1, <1>5, <1>6, <1>8
  <2>2. c' = CR /\ sending' = "empty?" /\ i' = i
    BY <1>8 DEF WriteWord, Return
  <2>3. Half' /\ AtSpelling'
    BY <1>1, <1>5, <2>1, <2>2 DEF Half, AtSpelling
  <2>4. Due(f) = Upto(f, i - 1) /\ Due(f)' = Upto(f, i - 1) \o <<LF>>
    BY <2>1, <2>2, <2>3 DEF Due
  <2> QED BY <1>7, <1>8, <2>3, <2>4
<1>9. CASE c # LF
  <2>1. sending' = "text" /\ i' = i + 1
    BY <1>9 DEF WriteWord, Return
  <2>2. ~Half' /\ AtSpelling'
    BY <1>1, <2>1 DEF Half, AtSpelling
  <2>3. Due(f)' = Upto(f, i)
    BY <1>2, <2>1, <2>2 DEF Due
  <2>4. CASE c = text[i]
    <3>1. Due(f) = Upto(f, i - 1) /\ Spelt[i] = <<c>>
      BY <1>4, <1>6, <1>9, <2>4 DEF Due
    <3> QED BY <1>3, <1>7, <2>2, <2>3, <3>1
  <2>5. CASE c # text[i]
    <3>1. Due(f) = Upto(f, i - 1) \o <<LF>> /\ c = CR /\ Spelt[i] = <<LF, CR>>
      BY <1>1, <1>4, <1>6, <2>5 DEF Due
    <3>2. <<LF>> \in Seq(Characters) /\ <<CR>> \in Seq(Characters) /\ <<LF, CR>> = <<LF>> \o <<CR>>
      BY Breaks, Character, TwoCharacters
    <3>3. Upto(f, i) = Upto(f, i - 1) \o (<<LF>> \o <<CR>>)
      BY <1>3, <3>1, <3>2
    <3>4. Upto(f, i - 1) \o (<<LF>> \o <<CR>>) = (Upto(f, i - 1) \o <<LF>>) \o <<CR>>
      BY <1>3, <3>2, Associative
    <3> QED BY <1>7, <2>2, <2>3, <3>1, <3>3, <3>4
  <2> QED BY <2>4, <2>5
<1> QED BY <1>8, <1>9

LEMMA WriteWordSends == ASSUME UartInv, SentInv, WriteWord PROVE SentInv'
<1>1. UNCHANGED <<text, shift, line>> /\ fifo = <<>> /\ fifo' = <<TxWord>>
  BY DEF WriteWord, Return, UartInv, TransferInv
<1>2. PICK f : Spells(f) /\ \E had \in Leftovers : line \o Coming = had \o Due(f)
  BY DEF SentInv
<1>3. PICK had \in Leftovers : line \o Coming = had \o Due(f)
  BY <1>2
<1>4. Due(f)' = Due(f) \o <<c>> /\ AtSpelling' /\ c \in Characters
  BY <1>2, WriteIsDue
<1>5. TxWord \in Seq(Characters) /\ TxWord # <<>> /\ Head(TxWord) = c
  BY <1>4, Breaks, Character, TwoCharacters DEF TxWord
<1>6. /\ line \in Seq(Characters) /\ shift \in Seq(Characters) /\ had \in Seq(Characters)
      /\ Due(f) \in Seq(Characters) /\ <<c>> \in Seq(Characters)
  BY <1>2, <1>4, DueBegins, LeftoversTyped, Character DEF SentInv, SentTyped
<1>7. Coming = shift /\ Coming' = shift \o <<c>>
  <2>1. Coming = shift \o <<>>
    BY <1>1 DEF Coming, Queued
  <2>2. Head(<<TxWord>>) = TxWord /\ <<TxWord>> # <<>>
    OBVIOUS
  <2>3. Coming' = shift \o <<c>>
    BY <1>1, <1>5, <2>2 DEF Coming, Queued
  <2> QED BY <1>6, <2>1, <2>3, ConcatEmptySeq
<1>8. line' \o Coming' = had \o Due(f)'
  <2> DEFINE one == <<c>>
             owed == Due(f)
  <2>1. /\ one \in Seq(Characters) /\ owed \in Seq(Characters) /\ Due(f)' = owed \o one
        /\ line \in Seq(Characters) /\ shift \in Seq(Characters) /\ had \in Seq(Characters)
    BY <1>4, <1>6
  <2>2. line' = line /\ Coming' = shift \o one /\ line \o shift = had \o owed
    BY <1>1, <1>3, <1>7
  <2> HIDE DEF one, owed
  <2>3. line \o (shift \o one) = (line \o shift) \o one
    BY <2>1, Associative, Zenon
  <2>4. (had \o owed) \o one = had \o (owed \o one)
    BY <2>1, Associative, Zenon
  <2> QED BY <2>1, <2>2, <2>3, <2>4
<1>9. SentTyped'
  BY <1>1, <1>5, <1>6 DEF SentTyped
<1>10. Spells(f)' /\ had \in Leftovers'
  BY <1>1, <1>2, SpellingStays DEF Leftovers
<1> QED BY <1>4, <1>8, <1>9, <1>10 DEF SentInv

\* Whatever is printed, whatever the transmitter was sending and however the two
\* interleave: serial_putc and printf_output put the characters of the string on the
\* line in their order, a carriage return beside each line feed, behind what RouterBOOT
\* had left; none is lost, doubled or overtaken.
THEOREM StringInOrder == UartSpec => []InOrder
<1>1. UartInit => SentInv
  BY SentInitially
<1>2. UartInv /\ SentInv /\ [UartNext]_uartVars => SentInv'
  <2> SUFFICES ASSUME UartInv, SentInv, [UartNext]_uartVars PROVE SentInv'
    OBVIOUS
  <2>1. CASE UNCHANGED uartVars
    <3>1. UNCHANGED <<sending, text, i, c, fifo, shift, line>>
      BY <2>1 DEF uartVars, transmitter
    <3>2. SentTyped' /\ AtSpelling' /\ Half' = Half /\ Coming' = Coming
      BY <3>1 DEF SentInv, SentTyped, AtSpelling, Half, Coming, Queued
    <3> QED BY <3>1, <3>2, SentStays
  <2> QED
    BY <2>1, LoadSends, EmitSends, NextCharSends, WaitingSends, WriteWordSends
    DEF UartNext, PutString
<1>3. UartInv /\ SentInv => InOrder
  BY SentInOrder
<1> QED BY <1>1, <1>2, <1>3, UartInductive, PTL DEF UartSpec


-----------------------------------------------------------------------------
(* The pins. *)

Entry == [level : {"none", "low", "high"}, ms : Nat]
Lines == Seq(Entry)

\* A line that is low for the first delay and has risen after it.
Released(s) == Len(s) >= 2 /\ s[Len(s) - 1].level = "low" /\ s[Len(s) - 1].ms >= 20

\* What a configuration register can hold: 10 bits.
RegisterWords == 0 .. 1023

\* The calls made have had their effect, and later ones have not undone it.
ConfigInv ==
  /\ half => at \in {1, 2, 5, 6}
  /\ \A n \in 1 .. 6 :
       n < at \/ (n = at /\ half) => config[Preinits[n].pin] = ConfigWord(Preinits[n])

OutInv ==
  /\ at >= 8 => out["LCD_POWER"] = 0
  /\ at >= 9 => out["SW0_RESET"] = IF at < 12 THEN 0 ELSE 1
  /\ at >= 10 => out["SW1_RESET"] = IF at < 13 THEN 0 ELSE 1

LevelsInv ==
  \A p \in Pins :
    levels[p] \in Lines /\ levels[p] # <<>> /\ LastOf(levels[p]).level = Level(config[p], out[p])

PulseInv ==
  /\ at \in {11, 14} => LastOf(levels["SW0_RESET"]).ms >= 20
  /\ at \in {11, 12, 14} => LastOf(levels["SW1_RESET"]).ms >= 20
  /\ at >= 12 => Released(levels["SW0_RESET"])
  /\ at >= 13 => Released(levels["SW1_RESET"])

PinsInv ==
  /\ at \in 1 .. 14 /\ half \in BOOLEAN
  /\ config \in [Pins -> RegisterWords] /\ out \in [Pins -> {0, 1}]
  /\ DOMAIN levels = Pins
  /\ ConfigInv /\ OutInv /\ LevelsInv /\ PulseInv

\* The calls, one by one.
LEMMA Calls ==
  /\ Len(Preinits) = 13
  /\ Preinits[1] = Config("LCD_POWER", 0, 0, 1, 7, 1)
  /\ Preinits[2] = Config("USER_LED", 0, 0, 1, 7, 1)
  /\ Preinits[3] = Config("MDIO1", 5, 0, 0, 3, 0)
  /\ Preinits[4] = Config("MDC1", 6, 1, 0, 3, 1)
  /\ Preinits[5] = Config("SW0_RESET", 0, 1, 1, 7, 1)
  /\ Preinits[6] = Config("SW1_RESET", 0, 1, 1, 7, 1)
  /\ Preinits[7] = Set("LCD_POWER", 0)
  /\ Preinits[8] = Set("SW0_RESET", 0)
  /\ Preinits[9] = Set("SW1_RESET", 0)
  /\ Preinits[10] = Delay(20)
  /\ Preinits[11] = Set("SW0_RESET", 1)
  /\ Preinits[12] = Set("SW1_RESET", 1)
  /\ Preinits[13] = Delay(20)
  BY DEF Preinits, GPIO_OUT_LOW, GPIO_INPUT, GPIO_OUTPUT

\* What the registers written stand for.
LEMMA Configured ==
  /\ \A pin, third : ConfigWord(Config(pin, 0, third, 1, 7, 1)) = 961
  /\ ConfigWord(Config("MDIO1", 5, 0, 0, 3, 0)) = 212
  /\ ConfigWord(Config("MDC1", 6, 1, 0, 3, 1)) = 728
  /\ Func(212) = 5 /\ Func(728) = 6
  /\ \A o : Level(961, o) = IF o = 1 THEN "high" ELSE "low"
  BY DEF ConfigWord, Config, Level, Driven, Func

\* The calls of each kind.
LEMMA ConfigPins ==
  /\ Preinits[1].pin = "LCD_POWER" /\ Preinits[2].pin = "USER_LED"
  /\ Preinits[3].pin = "MDIO1" /\ Preinits[4].pin = "MDC1"
  /\ Preinits[5].pin = "SW0_RESET" /\ Preinits[6].pin = "SW1_RESET"
BY Calls DEF Config

LEMMA ConfigWords ==
  /\ ConfigWord(Preinits[1]) = 961 /\ ConfigWord(Preinits[2]) = 961
  /\ ConfigWord(Preinits[3]) = 212 /\ ConfigWord(Preinits[4]) = 728
  /\ ConfigWord(Preinits[5]) = 961 /\ ConfigWord(Preinits[6]) = 961
BY Calls, Configured

LEMMA ConfigCalls ==
  ASSUME NEW n \in 1 .. 6
  PROVE  /\ Preinits[n].call = "config" /\ Preinits[n].pin \in Pins
         /\ ConfigWord(Preinits[n]) \in RegisterWords
         /\ Preinits[n].func = 0 => n \in {1, 2, 5, 6}
<1>1. n = 1 \/ n = 2 \/ n = 3 \/ n = 4 \/ n = 5 \/ n = 6
  OBVIOUS
<1>2. Preinits[n].call = "config"
  BY <1>1, Calls DEF Config
<1>3. Preinits[n].pin \in Pins
  BY <1>1, ConfigPins DEF Pins
<1>4. ConfigWord(Preinits[n]) \in RegisterWords
  BY <1>1, ConfigWords DEF RegisterWords
<1>5. Preinits[3].func = 5 /\ Preinits[4].func = 6
  BY Calls DEF Config
<1> QED BY <1>1, <1>2, <1>3, <1>4, <1>5

\* No pin is configured twice.
LEMMA OnePin ==
  ASSUME NEW n \in 1 .. 6, NEW m \in 1 .. 6, Preinits[m].pin = Preinits[n].pin
  PROVE  m = n
<1>1. n = 1 \/ n = 2 \/ n = 3 \/ n = 4 \/ n = 5 \/ n = 6
  OBVIOUS
<1>2. m = 1 \/ m = 2 \/ m = 3 \/ m = 4 \/ m = 5 \/ m = 6
  OBVIOUS
<1> QED BY <1>1, <1>2, ConfigPins

LEMMA OtherCalls ==
  /\ \A n \in {7, 8, 9, 11, 12} :
       Preinits[n].call = "set" /\ Preinits[n].pin \in Pins /\ Preinits[n].out \in {0, 1}
  /\ \A n \in {10, 13} : Preinits[n].call = "delay" /\ Preinits[n].ms = 20
  BY Calls DEF Set, Delay, Pins

\* The calls are reached in their order.
LEMMA Called ==
  ASSUME at \in 1 .. 14
  PROVE  /\ Calling("config") => at \in 1 .. 6
         /\ Calling("set") => at \in {7, 8, 9, 11, 12}
         /\ Calling("delay") => at \in {10, 13}
<1>1. ASSUME NEW x, Calling(x) PROVE at \in 1 .. 6 \/ at \in {7, 8, 9, 11, 12} \/ at \in {10, 13}
  BY <1>1, Calls DEF Calling
<1>2. \A x : Calling(x) => Preinits[at].call = x
  BY DEF Calling, Call
<1>3. ASSUME at \in 1 .. 6 PROVE Preinits[at].call = "config"
  BY <1>3, ConfigCalls, Zenon
<1>4. at \in {7, 8, 9, 11, 12} => Preinits[at].call = "set"
  BY OtherCalls
<1>5. at \in {10, 13} => Preinits[at].call = "delay"
  BY OtherCalls
<1> QED BY <1>1, <1>2, <1>3, <1>4, <1>5

\* A level never is anything but these.
LEMMA Levels == \A word, o : Level(word, o) \in {"none", "low", "high"}
  BY DEF Level

\* A line's history goes on: a new level is appended, the time of the last one grows.
LEMMA Tracked ==
  ASSUME NEW ms \in Nat, Track(ms), NEW p \in Pins, levels[p] \in Lines, levels[p] # <<>>
  PROVE  LET next == Level(config'[p], out'[p]) IN
           /\ levels'[p] \in Lines /\ levels'[p] # <<>> /\ LastOf(levels'[p]).level = next
           /\ next = LastOf(levels[p]).level =>
                /\ LastOf(levels'[p]).ms = LastOf(levels[p]).ms + ms
                /\ Released(levels[p]) => Released(levels'[p])
           /\ next # LastOf(levels[p]).level /\ LastOf(levels[p]).level = "low"
                /\ LastOf(levels[p]).ms >= 20 => Released(levels'[p])
<1> DEFINE next == Level(config'[p], out'[p])
           s == levels[p]
           n == Len(s)
<1>1. n \in Nat \ {0} /\ s \in Seq(Entry) /\ next \in {"none", "low", "high"} /\ n \in 1 .. n
  BY Levels DEF Lines
<1>2. \A k \in 1 .. n : s[k] \in Entry
  BY <1>1
<1>3. LastOf(s) = s[n] /\ s[n].ms \in Nat /\ s[n].level \in {"none", "low", "high"}
  BY <1>1, <1>2 DEF LastOf, Entry
<1>4. /\ next # s[n].level => levels'[p] = Append(s, [level |-> next, ms |-> 0])
      /\ next = s[n].level => levels'[p] = [s EXCEPT ![n].ms = @ + ms]
  BY <1>3 DEF Track
<1> HIDE DEF s, next
<1>5. CASE next # s[n].level
  <2>1. levels'[p] = Append(s, [level |-> next, ms |-> 0]) /\ [level |-> next, ms |-> 0] \in Entry
    BY <1>1, <1>4, <1>5 DEF Entry
  <2>2. levels'[p] \in Seq(Entry) /\ Len(levels'[p]) = n + 1
        /\ levels'[p][n + 1] = [level |-> next, ms |-> 0] /\ levels'[p][n] = s[n]
    BY <1>1, <2>1
  <2>3. n + 1 >= 2 /\ (n + 1) - 1 = n
    BY <1>1
  <2>4. LastOf(levels'[p]).level = next
    BY <2>2 DEF LastOf
  <2>5. s[n].level = "low" /\ s[n].ms >= 20 => Released(levels'[p])
    BY <2>2, <2>3 DEF Released
  <2>6. levels'[p] # <<>>
    BY <1>1, <2>2
  <2> QED BY <1>3, <1>5, <2>2, <2>4, <2>5, <2>6 DEF s, next, Lines
<1>6. CASE next = s[n].level
  <2>1. levels'[p] = [s EXCEPT ![n] = [s[n] EXCEPT !.ms = @ + ms]]
    BY <1>4, <1>6
  <2>2. [s[n] EXCEPT !.ms = @ + ms] = [level |-> s[n].level, ms |-> s[n].ms + ms]
        /\ [level |-> s[n].level, ms |-> s[n].ms + ms] \in Entry
    <3> DEFINE e == s[n]
    <3>1. e \in Entry
      BY <1>1, <1>2
    <3> HIDE DEF e
    <3>2. [e EXCEPT !.ms = @ + ms] = [level |-> e.level, ms |-> e.ms + ms]
      BY <3>1 DEF Entry
    <3>3. [level |-> e.level, ms |-> e.ms + ms] \in Entry
      BY <3>1 DEF Entry
    <3> QED BY <3>2, <3>3 DEF e
  <2>3. /\ Len(levels'[p]) = n /\ levels'[p] \in Seq(Entry)
        /\ levels'[p][n] = [level |-> s[n].level, ms |-> s[n].ms + ms]
        /\ \A k \in 1 .. n - 1 : levels'[p][k] = s[k]
    BY <1>1, <2>1, <2>2
  <2>4. LastOf(levels'[p]).level = next /\ LastOf(levels'[p]).ms = s[n].ms + ms
    BY <1>6, <2>3 DEF LastOf
  <2>5. Released(s) => Released(levels'[p])
    BY <1>1, <2>3 DEF Released
  <2>6. levels'[p] # <<>>
    BY <1>1, <2>3
  <2> QED BY <1>3, <1>6, <2>3, <2>4, <2>5, <2>6 DEF s, next, Lines
<1> QED BY <1>5, <1>6

\* So the histories always end with the levels that the registers make.
LEMMA LevelsKept ==
  ASSUME PinsInv, NEW ms \in Nat, Track(ms) PROVE LevelsInv' /\ DOMAIN levels' = Pins
<1>1. \A p \in Pins : levels'[p] \in Lines /\ levels'[p] # <<>>
                      /\ LastOf(levels'[p]).level = Level(config'[p], out'[p])
  BY Tracked DEF PinsInv, LevelsInv
<1> QED BY <1>1 DEF Track, LevelsInv

\* Behind the configurations, the pins are what they were configured to be.
LEMMA AllConfigured ==
  ASSUME PinsInv, at > 6
  PROVE  /\ config["LCD_POWER"] = 961 /\ config["SW0_RESET"] = 961 /\ config["SW1_RESET"] = 961
         /\ config["MDIO1"] = 212 /\ config["MDC1"] = 728
<1>1. \A n \in 1 .. 6 : n < at
  BY DEF PinsInv
<1>2. \A n \in 1 .. 6 : config[Preinits[n].pin] = ConfigWord(Preinits[n])
  BY <1>1 DEF PinsInv, ConfigInv
<1> QED BY <1>2, Calls, Configured DEF Config

\* The configurations come first; nothing is promised of levels before they are over.
LEMMA ConfigFirstKeeps == ASSUME PinsInv, ConfigFirst PROVE PinsInv'
<1>1. at \in 1 .. 6 /\ ~half
  BY Called DEF ConfigFirst, PinsInv
<1>2. /\ Preinits[at].pin \in Pins /\ ConfigWord(Preinits[at]) \in RegisterWords
      /\ Preinits[at].func = 0 => at \in {1, 2, 5, 6}
  BY <1>1, ConfigCalls, Zenon
<1>3. config' = [config EXCEPT ![Preinits[at].pin] = ConfigWord(Preinits[at])] /\ UNCHANGED out
      /\ Track(0)
  BY DEF ConfigFirst, Call
<1>4. LevelsInv' /\ DOMAIN levels' = Pins
  BY <1>3, LevelsKept
<1>5. (half' = TRUE /\ at' = at /\ at \in {1, 2, 5, 6}) \/ (half' = FALSE /\ at' = at + 1)
  BY <1>2 DEF ConfigFirst, Call
<1>6. ConfigInv'
  <2>1. half' => at' \in {1, 2, 5, 6}
    BY <1>5
  <2>2. ASSUME NEW n \in 1 .. 6, n < at' \/ (n = at' /\ half')
        PROVE  config'[Preinits[n].pin] = ConfigWord(Preinits[n])
    <3>1. n < at \/ n = at
      BY <1>1, <1>5, <2>2
    <3>2. CASE n = at
      BY <1>2, <1>3, <3>2 DEF PinsInv
    <3>3. CASE n < at
      <4>1. Preinits[n].pin # Preinits[at].pin
        BY <1>1, <3>3, OnePin
      <4>2. config[Preinits[n].pin] = ConfigWord(Preinits[n])
        BY <3>3 DEF PinsInv, ConfigInv
      <4> QED BY <1>3, <4>1, <4>2 DEF PinsInv
    <3> QED BY <3>1, <3>2, <3>3
  <2> QED BY <2>1, <2>2 DEF ConfigInv
<1>7. config' \in [Pins -> RegisterWords] /\ out' \in [Pins -> {0, 1}]
  <2>1. config \in [Pins -> RegisterWords] /\ out \in [Pins -> {0, 1}]
    BY DEF PinsInv
  <2>2. ASSUME NEW p \in Pins, NEW w \in RegisterWords
        PROVE  [config EXCEPT ![p] = w] \in [Pins -> RegisterWords]
    BY <2>1
  <2>3. config' \in [Pins -> RegisterWords]
    BY <1>2, <1>3, <2>2, Zenon
  <2> QED BY <1>3, <2>1, <2>3
<1>8. at' \in 1 .. 7 /\ half' \in BOOLEAN
  <2>1. at + 1 \in 1 .. 7 /\ at \in 1 .. 7
    BY <1>1
  <2> QED BY <1>5, <2>1
<1>9. OutInv' /\ PulseInv'
  BY <1>8 DEF OutInv, PulseInv
<1>10. at' \in 1 .. 14
  BY <1>8
<1> QED BY <1>4, <1>6, <1>7, <1>8, <1>9, <1>10 DEF PinsInv

LEMMA ConfigOutputKeeps == ASSUME PinsInv, ConfigOutput PROVE PinsInv'
<1>1. at \in 1 .. 6 /\ half
  BY Called DEF ConfigOutput, PinsInv
<1>2. UNCHANGED config /\ half' = FALSE /\ at' = at + 1 /\ Track(0)
  BY DEF ConfigOutput
<1>3. LevelsInv' /\ DOMAIN levels' = Pins
  BY <1>2, LevelsKept
<1>4. ConfigInv'
  BY <1>1, <1>2 DEF PinsInv, ConfigInv
<1>5. out' \in [Pins -> {0, 1}]
  BY DEF ConfigOutput, PinsInv
<1>6. at' \in 1 .. 7
  BY <1>1, <1>2
<1>7. OutInv' /\ PulseInv'
  BY <1>6 DEF OutInv, PulseInv
<1>8. at' \in 1 .. 14 /\ half' \in BOOLEAN
  <2>1. at' \in 1 .. 14
    BY <1>6
  <2> QED BY <1>2, <2>1
<1>9. config' \in [Pins -> RegisterWords]
  BY <1>2 DEF PinsInv
<1> QED BY <1>3, <1>4, <1>5, <1>7, <1>8, <1>9 DEF PinsInv

\* A line that keeps its level keeps its time, or more.
LEMMA SameLevel ==
  ASSUME PinsInv, NEW ms \in Nat, Track(ms), NEW p \in Pins,
         config'[p] = config[p], out'[p] = out[p]
  PROVE  /\ LastOf(levels'[p]).ms = LastOf(levels[p]).ms + ms /\ LastOf(levels[p]).ms \in Nat
         /\ Released(levels[p]) => Released(levels'[p])
<1>1. levels[p] \in Lines /\ levels[p] # <<>> /\ LastOf(levels[p]).level = Level(config[p], out[p])
  BY DEF PinsInv, LevelsInv
<1>2. LastOf(levels[p]) \in Entry
  BY <1>1 DEF Lines, LastOf
<1>3. LastOf(levels[p]).ms \in Nat
  BY <1>2 DEF Entry
<1> QED BY <1>1, <1>3, Tracked

\* A reset line that is raised after 20 ms has been released.
LEMMA Raised ==
  ASSUME PinsInv, Track(0), NEW p \in Pins, config[p] = 961, config'[p] = 961,
         out[p] = 0, out'[p] = 1, LastOf(levels[p]).ms >= 20
  PROVE  Released(levels'[p])
<1>1. /\ levels[p] \in Lines /\ levels[p] # <<>> /\ LastOf(levels[p]).level = "low"
      /\ Level(config'[p], out'[p]) = "high"
  BY Configured DEF PinsInv, LevelsInv
<1> QED BY <1>1, Tracked

\* gpio_set_value and mdelay, one call after the other.
LEMMA SetValueKeeps == ASSUME PinsInv, SetValue PROVE PinsInv'
<1>1. at \in {7, 8, 9, 11, 12} /\ at > 6
  BY Called DEF SetValue, PinsInv
<1>2. /\ Preinits[at].pin \in Pins /\ Preinits[at].out \in {0, 1}
      /\ out' = [out EXCEPT ![Preinits[at].pin] = Preinits[at].out]
      /\ at' = at + 1 /\ UNCHANGED <<half, config>> /\ Track(0)
  BY <1>1, OtherCalls DEF SetValue, Call
<1>3. /\ config["SW0_RESET"] = 961 /\ config["SW1_RESET"] = 961
      /\ config'["SW0_RESET"] = 961 /\ config'["SW1_RESET"] = 961
  BY <1>1, <1>2, AllConfigured
<1>4. LevelsInv' /\ DOMAIN levels' = Pins
  BY <1>2, LevelsKept
<1>5. out' \in [Pins -> {0, 1}]
  BY <1>2 DEF PinsInv
<1>6. ~half
  BY <1>1 DEF PinsInv, ConfigInv
<1>7. at' \in 8 .. 13 /\ at' \in 1 .. 14
  BY <1>1, <1>2
<1>8. ConfigInv'
  <2>1. \A n \in 1 .. 6 : config[Preinits[n].pin] = ConfigWord(Preinits[n])
    <3>1. \A n \in 1 .. 6 : n < at
      BY <1>1
    <3> QED BY <3>1 DEF PinsInv, ConfigInv
  <2> QED BY <1>2, <1>6, <2>1 DEF ConfigInv
<1>9. OutInv' /\ PulseInv'
  <2> DEFINE s0 == "SW0_RESET"
             s1 == "SW1_RESET"
  <2>1. s0 \in Pins /\ s1 \in Pins /\ "LCD_POWER" \in Pins
    BY DEF Pins
  <2>2. CASE at \in {7, 8, 9}
    <3>1. PulseInv'
      BY <1>2, <2>2 DEF PulseInv
    <3>2. OutInv'
      BY <1>2, <2>1, <2>2, Calls DEF PinsInv, OutInv, Set
    <3> QED BY <3>1, <3>2
  <2>3. CASE at = 11
    <3>1. out' = [out EXCEPT ![s0] = 1] /\ at' = 12 /\ out[s0] = 0 /\ out["LCD_POWER"] = 0 /\ out[s1] = 0
      BY <1>2, <2>3, Calls DEF Set, PinsInv, OutInv
    <3>2. out'[s0] = 1 /\ out'[s1] = 0 /\ out'["LCD_POWER"] = 0
      BY <3>1, <2>1 DEF PinsInv
    <3>3. LastOf(levels[s0]).ms >= 20 /\ LastOf(levels[s1]).ms >= 20
      BY <2>3 DEF PinsInv, PulseInv
    <3>4. Released(levels'[s0])
      BY <1>2, <1>3, <2>1, <3>1, <3>2, <3>3, Raised
    <3>5. LastOf(levels'[s1]).ms >= 20
      <4>1. LastOf(levels'[s1]).ms = LastOf(levels[s1]).ms + 0 /\ LastOf(levels[s1]).ms \in Nat
        BY <1>2, <1>3, <2>1, <3>1, <3>2, SameLevel
      <4> QED BY <3>3, <4>1
    <3> QED BY <3>1, <3>2, <3>4, <3>5 DEF OutInv, PulseInv
  <2>4. CASE at = 12
    <3>1. out' = [out EXCEPT ![s1] = 1] /\ at' = 13 /\ out[s0] = 1 /\ out["LCD_POWER"] = 0 /\ out[s1] = 0
      BY <1>2, <2>4, Calls DEF Set, PinsInv, OutInv
    <3>2. out'[s0] = 1 /\ out'[s1] = 1 /\ out'["LCD_POWER"] = 0
      BY <3>1, <2>1 DEF PinsInv
    <3>3. LastOf(levels[s1]).ms >= 20 /\ Released(levels[s0])
      BY <2>4 DEF PinsInv, PulseInv
    <3>4. Released(levels'[s1])
      BY <1>2, <1>3, <2>1, <3>1, <3>2, <3>3, Raised
    <3>5. Released(levels'[s0])
      BY <1>2, <1>3, <2>1, <3>1, <3>2, <3>3, SameLevel
    <3> QED BY <3>1, <3>2, <3>4, <3>5 DEF OutInv, PulseInv
  <2> QED BY <1>1, <2>2, <2>3, <2>4
<1> QED BY <1>2, <1>4, <1>5, <1>7, <1>8, <1>9 DEF PinsInv

LEMMA MDelayKeeps == ASSUME PinsInv, MDelay PROVE PinsInv'
<1>1. at \in {10, 13} /\ at > 6
  BY Called DEF MDelay, PinsInv
<1>2. at' = at + 1 /\ UNCHANGED <<half, config, out>> /\ Track(20)
  BY <1>1, OtherCalls DEF MDelay, Call
<1>3. LevelsInv' /\ DOMAIN levels' = Pins
  BY <1>2, LevelsKept
<1>4. ~half
  BY <1>1 DEF PinsInv, ConfigInv
<1>5. ConfigInv'
  <2>1. \A n \in 1 .. 6 : config[Preinits[n].pin] = ConfigWord(Preinits[n])
    <3>1. \A n \in 1 .. 6 : n < at
      BY <1>1
    <3> QED BY <3>1 DEF PinsInv, ConfigInv
  <2> QED BY <1>2, <1>4, <2>1 DEF ConfigInv
<1>6. OutInv'
  BY <1>1, <1>2 DEF PinsInv, OutInv
<1>7. \A p \in Pins : /\ LastOf(levels'[p]).ms = LastOf(levels[p]).ms + 20
                      /\ LastOf(levels[p]).ms \in Nat
                      /\ Released(levels[p]) => Released(levels'[p])
  BY <1>2, SameLevel
<1>8. PulseInv'
  <2>1. \A p \in Pins : LastOf(levels'[p]).ms >= 20
    BY <1>7
  <2>2. at = 13 => Released(levels["SW0_RESET"]) /\ Released(levels["SW1_RESET"])
    BY DEF PinsInv, PulseInv
  <2> QED BY <1>1, <1>2, <1>7, <2>1, <2>2 DEF PulseInv, Pins
<1>9. at' \in 1 .. 14
  BY <1>1, <1>2
<1> QED BY <1>2, <1>3, <1>5, <1>6, <1>8, <1>9 DEF PinsInv

LEMMA PinsInitially == PinsInit => PinsInv
<1> SUFFICES ASSUME PinsInit PROVE PinsInv
  OBVIOUS
<1>1. /\ at = 1 /\ half = FALSE
      /\ levels = [p \in Pins |-> <<[level |-> Level(config[p], out[p]), ms |-> 0]>>]
  BY DEF PinsInit
<1>2. config \in [Pins -> RegisterWords] /\ out \in [Pins -> {0, 1}]
  <2>1. \A word \in LeftConfig : word \in RegisterWords
    BY GpioAssumption DEF RegisterWords
  <2>2. \A o \in LeftOut : o \in {0, 1}
    BY GpioAssumption
  <2>3. config \in [Pins -> LeftConfig] /\ out \in [Pins -> LeftOut]
    BY DEF PinsInit
  <2>4. config \in [Pins -> RegisterWords]
    BY <2>1, <2>3
  <2>5. out \in [Pins -> {0, 1}]
    BY <2>2, <2>3
  <2> QED BY <2>4, <2>5
<1>3. ASSUME NEW p \in Pins
      PROVE  levels[p] \in Lines /\ levels[p] # <<>> /\ LastOf(levels[p]).level = Level(config[p], out[p])
  <2> DEFINE entry == [level |-> Level(config[p], out[p]), ms |-> 0]
  <2>1. entry \in Entry /\ entry.level = Level(config[p], out[p])
    BY Levels DEF Entry
  <2>2. levels[p] = <<entry>>
    BY <1>1
  <2> HIDE DEF entry
  <2>3. levels[p] \in Seq(Entry) /\ levels[p] # <<>> /\ LastOf(levels[p]) = entry
    BY <2>1, <2>2 DEF LastOf
  <2> QED BY <2>1, <2>3 DEF Lines
<1>4. ConfigInv /\ OutInv /\ PulseInv
  BY <1>1 DEF ConfigInv, OutInv, PulseInv
<1>5. at \in 1 .. 14 /\ DOMAIN levels = Pins
  BY <1>1
<1>6. half \in BOOLEAN
  BY <1>1
<1>7. LevelsInv
  BY <1>3 DEF LevelsInv
<1> QED BY <1>2, <1>4, <1>5, <1>6, <1>7 DEF PinsInv

\* The invariant of the pins holds always.
THEOREM PinsInductive == PinsSpec => []PinsInv
<1>1. PinsInv /\ UNCHANGED pinVars => PinsInv'
  <2> SUFFICES ASSUME PinsInv, UNCHANGED <<at, half, config, out, levels>> PROVE PinsInv'
    BY DEF pinVars
  <2>1. ConfigInv' /\ OutInv'
    BY DEF PinsInv, ConfigInv, OutInv
  <2>2. LevelsInv' /\ PulseInv'
    BY DEF PinsInv, LevelsInv, PulseInv
  <2> QED BY <2>1, <2>2 DEF PinsInv
<1>2. PinsInv /\ [PinsNext]_pinVars => PinsInv'
  BY <1>1, ConfigFirstKeeps, ConfigOutputKeeps, SetValueKeeps, MDelayKeeps DEF PinsNext
<1> QED BY <1>2, PinsInitially, PTL DEF PinsSpec

\* Whatever RouterBOOT left in the registers of the pins: when the PHYs are spoken to,
\* both switches have been held in reset for 20 ms and out of it for 20 ms, the bus has
\* its pins and the LCD is off.
THEOREM ResetsPulsed == PinsSpec => []ResetPulse
<1>1. PinsInv => ResetPulse
  <2> SUFFICES ASSUME PinsInv, Over PROVE ResetPulse
    BY DEF ResetPulse
  <2>1. at = 14
    BY Calls DEF Over
  <2>2. /\ config["LCD_POWER"] = 961 /\ config["SW0_RESET"] = 961 /\ config["SW1_RESET"] = 961
        /\ config["MDIO1"] = 212 /\ config["MDC1"] = 728
    BY <2>1, AllConfigured
  <2>3. out["LCD_POWER"] = 0 /\ out["SW0_RESET"] = 1 /\ out["SW1_RESET"] = 1
    BY <2>1 DEF PinsInv, OutInv
  <2>4. ASSUME NEW p \in Resets
        PROVE  /\ Released(levels[p]) /\ LastOf(levels[p]).ms >= 20
               /\ LastOf(levels[p]).level = "high"
    <3>1. p \in {"SW0_RESET", "SW1_RESET"} /\ p \in Pins
      BY DEF Resets, Pins
    <3>2. Released(levels[p]) /\ LastOf(levels[p]).ms >= 20
      BY <2>1, <3>1 DEF PinsInv, PulseInv
    <3>3. Level(config[p], out[p]) = "high"
      BY <2>2, <2>3, <3>1, Configured
    <3> QED BY <3>1, <3>2, <3>3 DEF PinsInv, LevelsInv
  <2>5. Level(config["LCD_POWER"], out["LCD_POWER"]) = "low"
    BY <2>2, <2>3, Configured
  <2> QED BY <2>2, <2>4, <2>5, Configured DEF ResetPulse, Released, LastOf
<1> QED BY <1>1, PinsInductive, PTL

\* Registers hold what the driver can write, levels are levels.
THEOREM PinsTypeCorrect == PinsSpec => []PinsTypeOK
<1>1. PinsInv => PinsTypeOK
  <2> SUFFICES ASSUME PinsInv PROVE PinsTypeOK
    OBVIOUS
  <2>1. \A p \in Pins : \A k \in DOMAIN levels[p] : levels[p][k].level \in {"none", "low", "high"}
    <3> SUFFICES ASSUME NEW p \in Pins, NEW k \in DOMAIN levels[p]
                 PROVE  levels[p][k].level \in {"none", "low", "high"}
      OBVIOUS
    <3>1. levels[p] \in Seq(Entry)
      BY DEF PinsInv, LevelsInv, Lines
    <3>2. levels[p][k] \in Entry
      BY <3>1
    <3> QED BY <3>2 DEF Entry
  <2>2. at \in 1 .. Len(Preinits) + 1
    <3>1. Len(Preinits) + 1 = 14
      BY Calls
    <3> QED BY <3>1 DEF PinsInv
  <2> QED BY <2>1, <2>2 DEF PinsInv, PinsTypeOK, RegisterWords
<1> QED BY <1>1, PinsInductive, PTL

-----------------------------------------------------------------------------
(* All of them. *)

\* A component that has come to its end stays as it is.
LEMMA TimerRests == TimerEnded /\ [TimerNext]_timerVars => TimerEnded'
<1> SUFFICES ASSUME TimerEnded, [TimerNext]_timerVars PROVE UNCHANGED timerVars /\ TimerEnded'
  OBVIOUS
<1>1. UNCHANGED timerVars
  BY DEF TimerEnded, TimerNext, Begin, Poll, Pass, Finish
<1> QED BY <1>1 DEF TimerEnded, timerVars, history

LEMMA PinsRest == PinsEnded /\ [PinsNext]_pinVars => PinsEnded'
<1> SUFFICES ASSUME PinsEnded, [PinsNext]_pinVars PROVE PinsEnded'
  OBVIOUS
<1>1. \A x : ~Calling(x)
  BY Calls DEF PinsEnded, Calling
<1>2. UNCHANGED <<at, half, config, out, levels>>
  BY <1>1 DEF PinsNext, ConfigFirst, ConfigOutput, SetValue, MDelay, pinVars
<1> QED BY <1>2 DEF PinsEnded

LEMMA PhysRest == PhysEnded /\ [PhysNext]_phyVars => PhysEnded'
<1> SUFFICES ASSUME PhysEnded, [PhysNext]_phyVars PROVE PhysEnded'
  OBVIOUS
<1>1. ~PowerDown /\ ~Bite
  BY DEF PhysEnded, PowerDown, Try, Start, Answer, Wait, GiveUp, WriteData, Bite
<1>2. \A b \in Buses : ~Complete(b)
  BY DEF PhysEnded, Complete
<1>3. \A p \in Phy : ~GetReady(p)
  BY DEF PhysEnded, GetReady
<1>4. UNCHANGED phyVars
  BY <1>1, <1>2, <1>3 DEF PhysNext
<1> QED BY <1>4 DEF PhysEnded, phyVars, loopState, busState

LEMMA UartRests == UartEnded /\ [UartNext]_uartVars => UartEnded'
<1> SUFFICES ASSUME UartEnded, [UartNext]_uartVars PROVE UartEnded'
  OBVIOUS
<1>1. UNCHANGED uartVars
  BY DEF UartEnded, UartNext, PutString, NextChar, Empty, WaitReady, NoCharsForTx, ClearReady,
         WriteWord, Load, Emit
<1> QED BY <1>1 DEF UartEnded, uartVars, transmitter

\* In a behaviour of all of them, each does what its own specification has it do, or has come
\* to its end: what is shown of each alone holds beside the others.
THEOREM DevicesApart ==
  DevicesSpec => /\ TimerSpec \/ []TimerEnded
                 /\ PinsSpec \/ []PinsEnded
                 /\ PhysSpec \/ []PhysEnded
                 /\ UartSpec \/ []UartEnded
<1>1. DevicesInit => /\ TimerInit \/ TimerEnded
                     /\ PinsInit \/ PinsEnded
                     /\ PhysInit \/ PhysEnded
                     /\ UartInit \/ UartEnded
  BY DEF DevicesInit
<1>2. [DevicesNext]_devicesVars => /\ [TimerNext]_timerVars
                                   /\ [PinsNext]_pinVars
                                   /\ [PhysNext]_phyVars
                                   /\ [UartNext]_uartVars
  BY DEF DevicesNext, devicesVars
<1> QED
  BY <1>1, <1>2, TimerRests, PinsRest, PhysRest, UartRests, PTL
     DEF DevicesSpec, TimerSpec, PinsSpec, PhysSpec, UartSpec

\* What has ended has its type as well.
LEMMA EndedTyped ==
  /\ TimerEnded => TimerTypeOK
  /\ PinsEnded => PinsTypeOK
  /\ PhysEnded => PhysTypeOK
  /\ UartEnded => UartTypeOK
<1>1. TimerEnded => TimerTypeOK
  BY TimerAssumption, DevicesAssumption DEF TimerEnded, TimerTypeOK
<1>2. ASSUME PinsEnded PROVE PinsTypeOK
  <2> DEFINE Of(p) == CHOOSE k \in 1 .. 6 : Preinits[k].pin = p
  <2>1. ASSUME NEW p \in Pins PROVE ConfigWord(Preinits[Of(p)]) \in RegisterWords
    <3>1. \E k \in 1 .. 6 : Preinits[k].pin = p
      BY ConfigPins DEF Pins
    <3>2. Of(p) \in 1 .. 6
      BY <3>1
    <3> HIDE DEF Of
    <3> QED BY <3>2, ConfigCalls, Zenon
  <2>2. config = [p \in Pins |-> ConfigWord(Preinits[Of(p)])]
    BY <1>2 DEF PinsEnded
  <2> HIDE DEF Of
  <2>3. config \in [Pins -> 0 .. 1023]
    BY <2>1, <2>2 DEF RegisterWords
  <2>4. out \in [Pins -> {0, 1}]
    BY <1>2 DEF PinsEnded
  <2>5. at \in 1 .. Len(Preinits) + 1
    BY <1>2, Calls DEF PinsEnded
  <2>6. ASSUME NEW p \in Pins, NEW k \in DOMAIN levels[p]
        PROVE  levels[p][k].level \in {"none", "low", "high"}
    <3>1. CASE p \in Resets
      <4>1. levels[p] = <<[level |-> "low", ms |-> 20], [level |-> "high", ms |-> 20]>>
        BY <1>2, <3>1 DEF PinsEnded
      <4>2. k = 1 \/ k = 2
        BY <4>1
      <4> QED BY <4>1, <4>2
    <3>2. CASE p \notin Resets
      <4>1. levels[p] = <<[level |-> Level(config[p], out[p]), ms |-> 40]>>
        BY <1>2, <3>2 DEF PinsEnded
      <4>2. k = 1
        BY <4>1
      <4>3. levels[p][k].level = Level(config[p], out[p])
        BY <4>1, <4>2
      <4> QED BY <4>3, Levels
    <3> QED BY <3>1, <3>2
  <2>7. half \in BOOLEAN
    BY <1>2 DEF PinsEnded
  <2> QED BY <2>3, <2>4, <2>5, <2>6, <2>7 DEF PinsTypeOK
<1>3. ASSUME PhysEnded PROVE PhysTypeOK
  <2>1. \A b \in Buses : Cardinality(flight[b]) <= 1
    BY <1>3, FS_EmptySet DEF PhysEnded
  <2> QED BY <1>3, <2>1, PhysAssumption DEF PhysEnded, PhysTypeOK, Buses, Ops, Bits
<1>4. ASSUME UartEnded PROVE UartTypeOK
  <2>1. Len(<<>>) = 0
    OBVIOUS
  <2>2. text \in Texts /\ i \in 1 .. Len(text) + 1
    BY <1>4, <2>1, DevicesAssumption DEF UartEnded
  <2>3. Len(fifo) <= Words /\ Len(shift) <= 1
    BY <1>4, <2>1, UartAssumption DEF UartEnded
  <2>4. sending = "done" /\ c = NUL /\ remaining = 0 /\ txReady \in BOOLEAN /\ garbled \in BOOLEAN
    BY <1>4 DEF UartEnded
  <2> QED BY <2>2, <2>3, <2>4 DEF UartTypeOK
<1> QED BY <1>1, <1>2, <1>3, <1>4

\* Counters, registers and FIFOs of all drivers stay in their ranges.
THEOREM DevicesTypeCorrect == DevicesSpec => []DevicesTypeOK
<1>1. TimerTypeOK /\ PinsTypeOK /\ PhysTypeOK /\ UartTypeOK => DevicesTypeOK
  BY DEF DevicesTypeOK
<1> QED
  BY <1>1, EndedTyped, DevicesApart, TimerTypeCorrect, PinsTypeCorrect, PhysTypeCorrect,
     UartTypeCorrect, PTL

\* Nor does an end that was reached break what its component promises.
LEMMA EndedRight ==
  /\ TimerEnded => Waited /\ NotTooLong
  /\ PinsEnded => ResetPulse
  /\ PhysEnded => Settled /\ InTime
  /\ UartEnded => TransferKept /\ InOrder
<1>1. ASSUME TimerEnded PROVE Waited /\ NotTooLong
  <2>1. GPT_FREQ_KHZ \in Nat /\ GPT_FREQ_KHZ > 0 /\ Parts \in Nat /\ Parts > 1
    BY TimerAssumption
  <2>2. Ticks(1) = 1
    BY <2>1 DEF Ticks
  <2>3. usec = 1 /\ due = 1 /\ Elapsed = Parts
    BY <1>1, <2>1 DEF TimerEnded, Elapsed
  <2>4. due * Ticks(usec) = 1
    BY <2>2, <2>3
  <2> QED BY <2>1, <2>3, <2>4 DEF Waited, NotTooLong
<1>2. ASSUME PinsEnded PROVE ResetPulse
  <2>1. ASSUME NEW n \in 1 .. 6, NEW p \in Pins, Preinits[n].pin = p
        PROVE  config[p] = ConfigWord(Preinits[n])
    <3> DEFINE k == CHOOSE j \in 1 .. 6 : Preinits[j].pin = p
    <3>1. k \in 1 .. 6 /\ Preinits[k].pin = p
      BY <2>1
    <3>2. config[p] = ConfigWord(Preinits[k])
      BY <1>2 DEF PinsEnded
    <3> HIDE DEF k
    <3>3. k = n
      BY <2>1, <3>1, OnePin
    <3> QED BY <3>2, <3>3
  <2>2. "LCD_POWER" \in Pins /\ "MDIO1" \in Pins /\ "MDC1" \in Pins
    BY DEF Pins
  <2>3. config["LCD_POWER"] = 961 /\ config["MDIO1"] = 212 /\ config["MDC1"] = 728
    <3>1. 1 \in 1 .. 6 /\ 3 \in 1 .. 6 /\ 4 \in 1 .. 6
      OBVIOUS
    <3>2. config["LCD_POWER"] = ConfigWord(Preinits[1])
      BY <2>1, <2>2, <3>1, ConfigPins
    <3>3. config["MDIO1"] = ConfigWord(Preinits[3])
      BY <2>1, <2>2, <3>1, ConfigPins
    <3>4. config["MDC1"] = ConfigWord(Preinits[4])
      BY <2>1, <2>2, <3>1, ConfigPins
    <3> QED BY <3>2, <3>3, <3>4, ConfigWords
  <2>4. out["LCD_POWER"] = 0
    BY <1>2, <2>2 DEF PinsEnded, Resets
  <2>5. Level(config["LCD_POWER"], out["LCD_POWER"]) = "low"
    BY <2>3, <2>4, Configured
  <2>6. ASSUME NEW p \in Resets
        PROVE  /\ Len(levels[p]) = 2 /\ levels[p][1].level = "low" /\ levels[p][1].ms = 20
               /\ levels[p][2].level = "high" /\ levels[p][2].ms = 20
    <3>1. p \in Pins
      BY DEF Resets, Pins
    <3>2. levels[p] = <<[level |-> "low", ms |-> 20], [level |-> "high", ms |-> 20]>>
      BY <1>2, <3>1 DEF PinsEnded
    <3> QED BY <3>2
  <2>7. Func(config["MDIO1"]) = 5 /\ Func(config["MDC1"]) = 6
    BY <2>3, Configured
  <2>8. ASSUME NEW p \in Resets
        PROVE  LET n == Len(levels[p]) IN
                 /\ n >= 2
                 /\ levels[p][n].level = "high" /\ levels[p][n].ms >= 20
                 /\ levels[p][n - 1].level = "low" /\ levels[p][n - 1].ms >= 20
    <3>1. Len(levels[p]) = 2 /\ Len(levels[p]) - 1 = 1
      BY <2>6
    <3>2. \A t : t = 20 => t >= 20
      OBVIOUS
    <3>3. levels[p][2].ms >= 20 /\ levels[p][1].ms >= 20
      BY <2>6, <3>2
    <3> QED BY <2>6, <3>1, <3>3
  <2> QED BY <2>5, <2>7, <2>8, Zenon DEF ResetPulse
<1>3. ASSUME PhysEnded PROVE Settled /\ InTime
  <2>1. Settled
    <3>1. ~(worst >= Polls) /\ Behind = Phy /\ reported = {}
      BY <1>3, PhysAssumption DEF PhysEnded, Behind
    <3>2. \A p \in Phy : bmcr[p] = Initial \cup {"PDOWN"}
      BY <1>3 DEF PhysEnded, Initial
    <3> QED BY <3>1, <3>2 DEF Settled
  <2>2. PhyTime(0) \in Nat /\ LastPhy \in Nat
    BY TimesTaken, PhysAssumption
  <2>3. 2 * (LastPhy + 1) * PhyTime(0) \in Nat
    <3> DEFINE pt == PhyTime(0)
               m == 2 * (LastPhy + 1)
    <3>1. m \in Nat /\ pt \in Nat
      BY <2>2
    <3> HIDE DEF m, pt
    <3>2. m * pt \in Nat
      BY <3>1
    <3> QED BY <3>2 DEF m, pt
  <2>4. worst = 0 /\ spent = 0 /\ phase = "done"
    BY <1>3 DEF PhysEnded
  <2> QED BY <2>1, <2>3, <2>4 DEF InTime
<1>4. ASSUME UartEnded PROVE TransferKept /\ InOrder
  <2>1. text = <<>> /\ line = <<>> /\ ~garbled
    BY <1>4 DEF UartEnded
  <2>2. Printed(text) = <<>>
    <3>1. <<>> # <<NUL>> /\ Len(<<>>) = 0
      OBVIOUS
    <3>2. \A t : Len(t) = 0 /\ t = <<>> => FlattenSeq(t) = <<>>
      BY DEF FlattenSeq
    <3>3. Spelt = <<>>
      BY <2>1 DEF Spelt
    <3>4. Printed(text) = FlattenSeq(Spelt)
      BY <2>1, <3>1 DEF Printed, Spelt
    <3> QED BY <3>1, <3>2, <3>3, <3>4
  <2>3. <<>> \o <<>> = <<>> /\ <<>> \in Seq(Characters)
    BY EmptySeq, ConcatEmptySeq
  <2>4. IsPrefix(<<>>, <<>> \o <<>>)
    BY <2>3, BeginsIsPrefix
  <2>5. <<>> \in Printings(text) /\ <<>> \in Leftovers
    BY <2>2, PrintedIsPrinting, Zenon DEF Leftovers
  <2>6. IsPrefix(line, <<>> \o <<>>) /\ line = <<>> \o <<>>
    BY <2>1, <2>3, <2>4
  <2> QED BY <2>1, <2>5, <2>6, Zenon DEF InOrder, TransferKept
<1> QED BY <1>1, <1>2, <1>3, <1>4

\* Beside one another the drivers keep what each of them promises alone: delays are as long
\* as they should be, the switches are reset, the PHYs powered down in time, no
\* transfer is cut off, and strings go out as they are.
THEOREM DevicesSafe ==
  DevicesSpec =>
    [](Waited /\ NotTooLong /\ ResetPulse /\ Settled /\ InTime /\ TransferKept /\ InOrder)
  BY EndedRight, DevicesApart, DelaysWait, DelaysBounded, ResetsPulsed, PhysSettled, PhysInTime,
     TransfersKept, StringInOrder, PTL
=============================================================================
