-------------------------------- MODULE Timer --------------------------------
(***************************************************************************)
(* Busy waiting on the general purpose timer (src/timer.c, IPQ806X).       *)
(*                                                                         *)
(* The counter runs beside the program: one pass of the waiting loop takes *)
(* up to Lag parts of a period of the counter, of which it has Parts.      *)
(***************************************************************************)
EXTENDS Integers

CONSTANTS
  GPT_FREQ_KHZ, GPT_FREQ,
  Word,          \* 2^32
  Parts, Lag,
  Usecs, Times   \* a delay asked for, and how often in a row (mdelay)

\* A pass takes less than a period of 31 us, and no single delay a second.
ASSUME TimerAssumption ==
  /\ GPT_FREQ_KHZ \in Nat \ {0} /\ GPT_FREQ \in Nat \ {0, 1} /\ Word \in Nat
  /\ Parts \in Nat /\ Lag \in 1 .. Parts - 1
  /\ Usecs \subseteq Nat \ {0} /\ Times \subseteq Nat \ {0}
  /\ \A u \in Usecs : (u + GPT_FREQ_KHZ - 1) \div GPT_FREQ_KHZ <= GPT_FREQ
  /\ GPT_FREQ + GPT_FREQ < Word

VARIABLES
  waiting,            \* "next", "poll", "done"
  modulus,       \* where the counter starts again at 0
  usec, left,    \* the delay, and how many of them are still to come
  last, runcount, val,
  count, part,   \* the counter, and the part of its period that has gone by
  due, began, first, periods
                 \* history: delays asked for, counter and part at the start,
                 \* edges of the counter since

history == <<modulus, usec, due, began, first>>
timerVars == <<waiting, left, last, runcount, val, count, part, periods, history>>

\* Time goes on by d parts.
TimePasses(d) ==
  LET edge == part + d >= Parts IN
    /\ part' = IF edge THEN part + d - Parts ELSE part + d
    /\ count' = IF edge THEN (count + 1) % modulus ELSE count
    /\ periods' = IF edge THEN periods + 1 ELSE periods

\* The delay in ticks of the counter, rounded up.
Ticks(u) == (u + GPT_FREQ_KHZ - 1) \div GPT_FREQ_KHZ

\* __udelay up to its loop; mdelay's loop around it.
Begin ==
  /\ waiting = "next" /\ left > 0
  /\ left' = left - 1
  /\ last' = count /\ runcount' = count /\ val' = (Ticks(usec) + count) % Word
  /\ waiting' = "poll"
  /\ UNCHANGED <<count, part, periods, history>>

\* What the counter has gone on by since it was read last.
Progress(now) == IF last > now THEN (GPT_FREQ - last) + now ELSE now - last

\* One pass of the loop.
Pass(goOn) ==
  /\ waiting = "poll"
  /\ \E d \in 1 .. Lag : TimePasses(d)
  /\ runcount' = (runcount + Progress(count')) % Word
  /\ waiting' = IF goOn THEN "poll" ELSE "next"
  /\ UNCHANGED <<left, val, history>>

PollLong == Pass(runcount' <= val) /\ last' = count'
PollStale == Pass(runcount' < val) /\ UNCHANGED last

Poll == Pass(runcount' < val) /\ last' = count'

Finish ==
  /\ waiting = "next" /\ left = 0 /\ waiting' = "done"
  /\ UNCHANGED <<left, last, runcount, val, count, part, periods, history>>

TimerInit ==
  /\ waiting = "next" /\ modulus \in {GPT_FREQ, Word} /\ usec \in Usecs /\ due \in Times /\ left = due
  /\ last = 0 /\ runcount = 0 /\ val = 0
  /\ count \in 0 .. modulus - 1 /\ part \in 0 .. Parts - 1
  /\ began = count /\ first = part /\ periods = 0

TimerNext == Begin \/ Poll \/ Finish
TimerSpec == TimerInit /\ [][TimerNext]_timerVars

-----------------------------------------------------------------------------
Elapsed == periods * Parts + part - first

TimerTypeOK ==
  /\ waiting \in {"next", "poll", "done"} /\ modulus \in {GPT_FREQ, Word}
  /\ usec \in Usecs /\ due \in Times /\ left \in 0 .. due
  /\ last \in 0 .. modulus - 1 /\ runcount \in 0 .. Word - 1 /\ val \in 0 .. Word - 1
  /\ count \in 0 .. modulus - 1 /\ part \in 0 .. Parts - 1
  /\ began \in 0 .. modulus - 1 /\ first \in 0 .. Parts - 1 /\ periods \in Nat

\* The counter restarts where the code has it restart, or not during the delays.
\* (Nothing in timer_init makes it restart there: otherwise it runs to the width of
\* its register.)
CountsAsExpected == modulus = GPT_FREQ \/ began + due * Ticks(usec) < Word

\* However often __udelay is called in a row, and however the loops fall on the
\* edges of the counter, less than one period is missing from the sum of the delays.
Waited ==
  waiting = "done" /\ CountsAsExpected => Elapsed > (due * Ticks(usec) - 1) * Parts

\* At no time have the delays taken more than one period longer than asked for, wherever
\* the counter restarts: as every pass of the loop takes time, they come to an end.
NotTooLong == Elapsed < (due * Ticks(usec) + 1) * Parts
=============================================================================
