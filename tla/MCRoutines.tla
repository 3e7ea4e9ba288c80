------------------------------ MODULE MCRoutines ------------------------------
(***************************************************************************)
(* An instance of Routines for TLC.                                        *)
(***************************************************************************)
EXTENDS Routines

\* Up to seven bytes, anywhere among the first eight.
MCMemory == 0 .. 8
MCJobs == {j \in [dst : 0 .. 7, src : 0 .. 7, n : 0 .. 7] : j.dst + j.n <= 8 /\ j.src + j.n <= 8}

MCPropBytes == 0 .. 255

\* One, two or three levels; 1 to 5 ways, 1 to 9 sets, lines of 16 to 64 bytes.
Caches(types) ==
  [type : types, lineSize : {0, 2}, associativity : {0, 1, 2, 4}, numSets : {0, 2, 3, 8}]
One == CHOOSE k \in Caches({InstructionData}) : k.associativity = 2 /\ k.numSets = 2

MCProcessors ==
  {[l \in Levels |-> IF l = 0 THEN k ELSE None] : k \in Caches(InstructionOnly .. Unified)}
    \cup {[l \in Levels |-> IF l = 0 THEN One ELSE IF l = far THEN k ELSE None] :
            far \in {1, 6}, k \in Caches({InstructionData, Unified})}
    \cup {[l \in Levels |-> IF l < 2 THEN One ELSE IF l = 2 THEN [k EXCEPT !.type = t] ELSE None] :
            k \in Caches({Unified}), t \in {DataOnly, Unified}}

\* Formats of up to four items, and every string of up to four of some characters.
MCChars == Conversions \cup DOMAIN Digits \cup {"%", "l", "-", ".", "z"}
SomeItems ==
  {Plain("z"), Plain("%"), Plain("0")} \cup
  {Directive(conv, long, toLeft, zero, width) :
     conv \in {"d", "s"}, long \in BOOLEAN, toLeft \in BOOLEAN, zero \in BOOLEAN, width \in {0, 5, 70}}
Short == {Plain("z"), Plain("5"), Directive("x", FALSE, FALSE, TRUE, 5)}
MCMeanings ==
  UNION {[1 .. n -> SomeItems] : n \in 1 .. 2} \cup [1 .. 4 -> Short]
    \cup {<<i, j, k>> : i \in Short, j \in SomeItems, k \in Short}
MCRaw ==
  UNION {[1 .. n -> {"%", "l", "-", "0", "5", ".", "d", "z"}] : n \in 0 .. 4}
    \cup {[k \in 1 .. n |-> IF k = n THEN "%" ELSE "z"] : n \in {81, 82}}

\* Numbers of up to nine digits, as far as TLC's integers reach.
MCNumbers ==
  0 .. 120 \cup {255, 256, 999, 1000, 1001, 4095, 65535, 65536, 99999, 655359, 655360,
    16777215, 99999999, 100000000, 123456789, 199999999, 268435455}
=============================================================================
