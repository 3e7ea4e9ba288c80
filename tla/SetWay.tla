-------------------------------- MODULE SetWay --------------------------------
(***************************************************************************)
(* Going over the data caches by set and way (src/cpu.c): the loops of     *)
(* v7_maint_dcache_all and of the two operations, and the word by which    *)
(* they name a line to the processor.  A word is the set of its bits.      *)
(***************************************************************************)
EXTENDS Powers, FiniteSetsExt

CONSTANTS
  Processors,    \* per level: a CLIDR type and the fields of CCSIDR
  WordBits          \* of a word: 32

Levels == 0 .. 6
NoCache == 0
InstructionOnly == 1
DataOnly == 2
InstructionData == 3
Unified == 4

\* The least k with Pow2[k] >= n.
Log2Up(n) == CHOOSE k \in 0 .. n : Pow2[k] >= n /\ \A j \in 0 .. k - 1 : Pow2[j] < n

NumSets(cache) == cache.numSets + 1
NumWays(cache) == cache.associativity + 1

\* The fields of a word that names a line do not meet.
ASSUME SetWayAssumption ==
  /\ WordBits \in Nat \ {0}
  /\ \A p \in Processors : \A l \in Levels :
       LET cache == p[l] IN
         /\ cache.type \in NoCache .. Unified /\ cache.lineSize \in 0 .. 7
         /\ cache.associativity \in 0 .. Pow2[10] - 1 /\ cache.numSets \in 0 .. Pow2[15] - 1
         /\ cache.lineSize + 4 + Log2Up(NumSets(cache)) + Log2Up(NumWays(cache)) <= WordBits

VARIABLES
  walking,            \* "level", "line", "done"
  cpu,           \* the processor
  level, way, set,
  lines,         \* history: the lines there are
  todo           \* history: those not operated on

walkVars == <<walking, cpu, level, way, set, lines, todo>>

-----------------------------------------------------------------------------
(* The processor: what the fields of an operand mean to it. *)

WordOf(n) == {k \in 0 .. WordBits - 1 : BitOf(n, k) = 1}

Bits(word, from, n) ==
  CHOOSE x \in 0 .. Pow2[n] - 1 : \A k \in 0 .. n - 1 : (from + k \in word) <=> (BitOf(x, k) = 1)

Named(word) ==
  LET l == Bits(word, 1, 3)
      ways == Log2Up(NumWays(cpu[l]))
  IN  [level |-> l, set |-> Bits(word, cpu[l].lineSize + 4, Log2Up(NumSets(cpu[l]))),
       way |-> Bits(word, WordBits - ways, ways)]

HoldsData(l) == cpu[l].type \in {DataOnly, InstructionData, Unified}

Lines ==
  UNION {{[level |-> l, set |-> s, way |-> w] :
            s \in 0 .. NumSets(cpu[l]) - 1, w \in 0 .. NumWays(cpu[l]) - 1} :
         l \in {k \in Levels : HoldsData(k)}}

-----------------------------------------------------------------------------
\* How often n can be halved before it is 0.
Halvings(n) == Max({k + 1 : k \in WordOf(n)} \cup {0})

Log2NRoundDown(n) == Halvings(n) - 1

\* log_2_n_round_up
Log2NRoundUp(n) == IF WordOf(n) \cap WordOf(n - 1) # {} THEN Halvings(n) ELSE Halvings(n) - 1

\* A number shifted to the left; by the whole width, only 0 is, which stays 0.
Shifted(x, n) == {k + n : k \in WordOf(x)} \cap 0 .. WordBits - 1

\* setway, from what CCSIDR says of the level.
Operand ==
  LET log2LineLen == cpu[level].lineSize + 2 + 2
      wayShift == WordBits - Log2NRoundUp(NumWays(cpu[level]))
  IN  Shifted(level, 1) \cup Shifted(set, log2LineLen) \cup Shifted(way, wayShift)

\* v7_maint_dcache_all: a level with a data or unified cache starts its loops.
NextLevel ==
  /\ walking = "level" /\ UNCHANGED <<cpu, lines, todo>>
  /\ \/ level = 7 /\ walking' = "done" /\ UNCHANGED <<level, way, set>>
     \/ /\ level < 7 /\ cpu[level].type \in {DataOnly, InstructionData, Unified} /\ walking' = "line"
        /\ way' = NumWays(cpu[level]) - 1 /\ set' = NumSets(cpu[level]) - 1 /\ UNCHANGED level
     \/ /\ level < 7 /\ cpu[level].type \in {NoCache, InstructionOnly} /\ walking' = "level"
        /\ level' = level + 1 /\ UNCHANGED <<way, set>>

\* One line; the sets go round within the ways.
Line ==
  /\ walking = "line" /\ UNCHANGED <<cpu, lines>>
  /\ \E word \in {Operand} : todo' = todo \ {Named(word)}
  /\ \/ set > 0 /\ set' = set - 1 /\ UNCHANGED <<walking, level, way>>
     \/ set = 0 /\ way > 0 /\ set' = NumSets(cpu[level]) - 1 /\ way' = way - 1 /\ UNCHANGED <<walking, level>>
     \/ set = 0 /\ way = 0 /\ walking' = "level" /\ level' = level + 1 /\ UNCHANGED <<way, set>>

WalkInit ==
  /\ walking = "level" /\ cpu \in Processors /\ level = 0 /\ way = 0 /\ set = 0
  /\ lines = Lines /\ todo = lines

WalkNext == NextLevel \/ Line

\* The processor goes on.
WalkSpec == WalkInit /\ [][WalkNext]_walkVars /\ WF_walkVars(WalkNext)

-----------------------------------------------------------------------------
WalkTypeOK ==
  /\ walking \in {"level", "line", "done"} /\ level \in 0 .. 7
  /\ walking = "line" => way \in 0 .. NumWays(cpu[level]) - 1 /\ set \in 0 .. NumSets(cpu[level]) - 1
  /\ todo \subseteq lines

Promise == INSTANCE EveryLine

\* The loops do what the cache protocol takes them to do: however many sets and ways a
\* level has, powers of two or not, the operands name every line of every level that
\* holds data, and fields do not run into each other.
AllLines == Promise!Spec
=============================================================================
