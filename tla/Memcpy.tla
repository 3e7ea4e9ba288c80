-------------------------------- MODULE Memcpy --------------------------------
(***************************************************************************)
(* my_memcpy (src/loader.c): words from the front as long as one fits,     *)
(* then bytes, with no look at whether source and destination overlap.     *)
(***************************************************************************)
EXTENDS Integers

CONSTANTS
  Memory,        \* the addresses there are
  Byte,          \* what a byte may be
  Jobs,          \* what the callers ask for
  WordSize       \* 4

ASSUME MemcpyAssumption ==
  /\ Memory \subseteq Nat /\ WordSize \in Nat \ {0}
  /\ Jobs \subseteq [dst : Nat, src : Nat, n : Nat]
  /\ \A j \in Jobs : \A k \in 0 .. j.n - 1 : j.src + k \in Memory /\ j.dst + k \in Memory

VARIABLES
  copying,            \* "words", "bytes", "done": the loops
  dst, src, end, \* the pointers
  mem,
  job, before    \* history: the arguments, and memory as it was

copyVars == <<copying, dst, src, end, mem, job, before>>

\* A load of size bytes and a store of what was loaded.
Move(size) ==
  /\ mem' = [a \in Memory |-> IF a \in dst .. dst + size - 1 THEN mem[src + (a - dst)] ELSE mem[a]]
  /\ dst' = dst + size /\ src' = src + size
  /\ UNCHANGED <<copying, end, job, before>>

Leave(place) == copying' = place /\ UNCHANGED <<dst, src, end, mem, job, before>>

CopyWord == copying = "words" /\ src + WordSize <= end /\ Move(WordSize)

WordsDone == copying = "words" /\ src + WordSize > end /\ Leave("bytes")

CopyByte == copying = "bytes" /\ src < end /\ Move(1)

FinishEarly == copying = "bytes" /\ src + 1 >= end /\ Leave("done")

Finish == copying = "bytes" /\ src >= end /\ Leave("done")

CopyInit ==
  /\ copying = "words" /\ job \in Jobs /\ before \in [Memory -> Byte] /\ mem = before
  /\ dst = job.dst /\ src = job.src /\ end = job.src + job.n

CopyNext == CopyWord \/ WordsDone \/ CopyByte \/ Finish
CopySpec == CopyInit /\ [][CopyNext]_copyVars

-----------------------------------------------------------------------------
CopyTypeOK ==
  /\ copying \in {"words", "bytes", "done"}
  /\ job \in Jobs /\ before \in [Memory -> Byte] /\ mem \in [Memory -> Byte]
  /\ end = job.src + job.n /\ src \in job.src .. end /\ dst = job.dst + (src - job.src)

\* Memory to the left of the source is filled before anything is read from it.
Safe == job.dst <= job.src \/ job.dst >= job.src + job.n

\* What a caller wants: n bytes in place, as they were before, and nothing else changed.
Result ==
  [a \in Memory |->
     IF a \in job.dst .. job.dst + job.n - 1 THEN before[job.src + (a - job.dst)] ELSE before[a]]

\* The copy is exact when it ends, also over itself to the left by any distance (which
\* may be less than a word), and with any number of bytes behind the last word.
Copied == copying = "done" /\ Safe => mem = Result

\* However source and destination lie, nothing but the destination is ever written.
OutsideKept ==
  \A a \in Memory : a \notin job.dst .. job.dst + job.n - 1 => mem[a] = before[a]
=============================================================================
