---------------------------- MODULE CachesProofs ----------------------------
(***************************************************************************)
(* Proofs about Caches, for every number of sections and cache levels,     *)
(* every place of stack, page table and kernel, and every set of builds    *)
(* that CachesAssumption admits.                                           *)
(***************************************************************************)
EXTENDS Caches, TLAPS

-----------------------------------------------------------------------------
(* Type correctness and phases. *)

\* A program store leaves memory and caches well typed.
LEMMA WriteType ==
  ASSUME TypeOK, NEW l \in Line, NEW v \in Content, Write(l, v)
  PROVE  /\ ram' \in [Line -> Content] /\ l1' \in [Line -> Copy] /\ l2' \in [Line -> Copy]
<1>1. Dirty(v) \in Copy
  BY DEF Dirty, Copy
<1> QED BY <1>1 DEF Write, TypeOK

\* What a line looks like to the program is a line's content.
LEMMA ViewType ==
  ASSUME TypeOK, NEW l \in Line
  PROVE  View(l) \in Content /\ Seen2(l) \in Content
BY DEF TypeOK, View, Seen1, Seen2, Copy

\* An invalid line is a copy too.
LEMMA InvalidType == Invalid \in Copy /\ Blank \in Content
BY CachesAssumption DEF Invalid, Copy, Blank, Content

\* Writing a line back, at either level, leaves them well typed.
LEMMA WriteBackType ==
  ASSUME TypeOK, NEW l \in Line, WriteBack1(l) \/ WriteBack2(l)
  PROVE  /\ ram' \in [Line -> Content] /\ l1' \in [Line -> Copy] /\ l2' \in [Line -> Copy]
<1>1. CASE WriteBack1(l)
  <2>1. Dirty(l1[l].v) \in Copy
    BY DEF TypeOK, Copy, Dirty
  <2> QED BY <1>1, <2>1, InvalidType DEF WriteBack1, TypeOK
<1>2. CASE WriteBack2(l)
  <2>1. l2[l].v \in Content
    BY DEF TypeOK, Copy
  <2> QED BY <1>2, <2>1, InvalidType DEF WriteBack2, TypeOK
<1> QED BY <1>1, <1>2

\* Going on to the next level stays within the levels there are.
LEMMA LevelType ==
  ASSUME TypeOK, NEW next, NextLevel(next)
  PROVE  level' \in 0 .. Levels - 1 /\ todo' = Line /\ pc' \in {pc, next}
BY CachesAssumption DEF NextLevel, LevelsLeft, TypeOK

\* The initial states satisfy all of the invariant.
LEMMA InitInv == Init => IInv
<1> SUFFICES ASSUME Init PROVE IInv
  OBVIOUS
<1>1. \A l \in Line : ram[l] = Blank /\ l1[l] = Invalid /\ l2[l] = Invalid /\ stored[l] = 0
  BY DEF Init
<1>2. Blank.live = 0 /\ Invalid.st = "invalid"
  BY DEF Blank, Invalid
<1>3. TypeOK
  BY InvalidType, CachesAssumption DEF Init, TypeOK
<1>4. PhaseInv /\ EmptyInv /\ CopyInv /\ FlushInv /\ NothingLost
  BY <1>1, <1>2, CachesAssumption
     DEF Init, PhaseInv, EmptyInv, Empty, CopyInv, FlushInv, NothingLost
<1>5. Coherent
  BY <1>1, <1>2 DEF Init, Coherent, View, Cacheable
<1> QED BY <1>3, <1>4, <1>5 DEF IInv

\* Every step keeps the types.
LEMMA NextType == TypeOK /\ [Next]_vars => TypeOK'
<1> SUFFICES ASSUME TypeOK, [Next]_vars PROVE TypeOK'
  OBVIOUS
<1> USE DEF prog, loop, caches, env
<1>1. CASE EnableI
  <2>1. range' \in [start : Nat, end : Nat]
    BY <1>1, CachesAssumption DEF EnableI, Line
  <2> QED BY <1>1, <2>1 DEF EnableI, TypeOK
<1>2. CASE MmuSetup \/ EnableC
  <2>1. {s \in Line : Mapped(s)} \subseteq Line
    OBVIOUS
  <2>2. table' \subseteq Line /\ cr' \subseteq {"I", "C", "M"}
    <3>1. CASE MmuSetup /\ "M" \in cr
      BY <3>1 DEF MmuSetup, TypeOK
    <3>2. CASE MmuSetup /\ "M" \notin cr
      BY <3>2, <2>1 DEF MmuSetup, TypeOK
    <3>3. CASE EnableC
      BY <3>3 DEF EnableC, TypeOK
    <3> QED BY <1>2, <3>1, <3>2, <3>3
  <2>3. /\ pc' \in {"on", "run"}
        /\ UNCHANGED <<back, range, loop, caches, env, stored>>
    BY <1>2 DEF MmuSetup, EnableC
  <2> QED BY <2>2, <2>3 DEF TypeOK
<1>3. CASE Store
  <2>1. PICK l \in Stored, w \in Word :
          /\ Write(l, [View(l) EXCEPT !.live = w])
          /\ stored' = [stored EXCEPT ![l] = w]
    BY <1>3 DEF Store
  <2>2. l \in Line
    BY CachesAssumption
  <2>3. [View(l) EXCEPT !.live = w] \in Content
    BY <2>2, ViewType DEF Content
  <2> QED BY <1>3, <2>1, <2>2, <2>3, WriteType DEF Store, TypeOK
<1>4. CASE Spill
  <2>1. PICK w \in Word : Write(STACK, [View(STACK) EXCEPT !.dead = w])
    BY <1>4 DEF Spill
  <2>2. STACK \in Line
    BY CachesAssumption
  <2>3. [View(STACK) EXCEPT !.dead = w] \in Content
    BY <2>2, ViewType DEF Content
  <2> QED BY <1>4, <2>1, <2>2, <2>3, WriteType DEF Spill, TypeOK
<1>5. CASE CallCleanup \/ ICacheStep
  BY <1>5 DEF CallCleanup, ICacheStep, ICacheOff, TypeOK
<1>6. CASE CacheDisable
  <2>1. pc' \in {"flush", "inval"} /\ level' \in 0 .. Levels - 1
    BY <1>6, CachesAssumption DEF CacheDisable
  <2> QED BY <1>6, <2>1 DEF CacheDisable, TypeOK
<1>15. CASE SetCr
  BY <1>15 DEF SetCr, TypeOK
<1>7. CASE FlushLine
  <2>1. PICK l \in todo : todo' = todo \ {l} /\ (WriteBack1(l) \/ WriteBack2(l))
    BY <1>7 DEF FlushLine
  <2>2. l \in Line
    BY DEF TypeOK
  <2> QED BY <1>7, <2>1, <2>2, WriteBackType DEF FlushLine, TypeOK
<1>8. CASE FlushLevel
  BY <1>8, LevelType DEF FlushLevel, TypeOK
<1>9. CASE InvalidateLine
  BY <1>9, InvalidType DEF InvalidateLine, TypeOK
<1>10. CASE InvalidateLevel
  BY <1>10, LevelType DEF InvalidateLevel, TypeOK
<1>11. CASE FillData
  <2>1. PICK l \in Line :
          \/ l1' = [l1 EXCEPT ![l] = Clean(Seen2(l))] /\ l2' = l2
          \/ l2' = [l2 EXCEPT ![l] = Clean(ram[l])] /\ l1' = l1
    BY <1>11 DEF FillData
  <2>2. Clean(Seen2(l)) \in Copy /\ Clean(ram[l]) \in Copy
    BY ViewType DEF Clean, Copy, TypeOK
  <2> QED BY <1>11, <2>1, <2>2 DEF FillData, TypeOK
<1>12. CASE Evict
  <2>1. PICK l \in Line : WriteBack1(l) \/ WriteBack2(l)
    BY <1>12 DEF Evict
  <2> QED BY <1>12, <2>1, WriteBackType DEF Evict, TypeOK
<1>13. CASE FillInstructions
  BY <1>13 DEF FillInstructions, TypeOK
<1>14. CASE UNCHANGED vars
  BY <1>14 DEF vars, TypeOK
<1> QED
  BY <1>1, <1>2, <1>3, <1>4, <1>5, <1>6, <1>7, <1>8, <1>9, <1>10, <1>11, <1>12,
     <1>13, <1>14, <1>15 DEF Next, Program, Processor

\* Every reachable state is well typed, whatever the sizes.
THEOREM TypeCorrect == Spec => []TypeOK
<1>1. Init => TypeOK
  BY InitInv DEF IInv
<1> QED BY <1>1, NextType, PTL DEF Spec

-----------------------------------------------------------------------------
(* Which bits are set where, and what each operation does to each line. *)

\* Every step keeps the phases.
LEMMA NextPhase == TypeOK /\ PhaseInv /\ [Next]_vars => PhaseInv'
<1> SUFFICES ASSUME TypeOK, PhaseInv, [Next]_vars PROVE PhaseInv'
  OBVIOUS
<1> USE DEF prog, loop, caches, env
<1>1. CASE EnableI
  BY <1>1 DEF EnableI, PhaseInv
<1>2. CASE MmuSetup
  <2>1. "M" \notin cr /\ "C" \notin cr /\ pc = "mmu"
    BY <1>2 DEF MmuSetup, PhaseInv
  <2>2. cr' = cr \cup {"M"} /\ pc' = "on" /\ ic' = ic
    BY <1>2, <2>1 DEF MmuSetup
  <2> QED BY <2>1, <2>2 DEF PhaseInv
<1>3. CASE EnableC
  BY <1>3 DEF EnableC, PhaseInv
<1>4. CASE UNCHANGED <<pc, cr, ic>>
  BY <1>4 DEF PhaseInv
<1>5. CASE CallCleanup
  BY <1>5 DEF CallCleanup, PhaseInv
<1>6. CASE ICacheStep
  BY <1>6 DEF ICacheStep, ICacheOff, PhaseInv
<1>7. CASE CacheDisable
  <2>1. CASE "C" \in cr
    BY <1>7, <2>1 DEF CacheDisable, PhaseInv
  <2>2. CASE "C" \notin cr
    BY <1>7, <2>2 DEF CacheDisable, PhaseInv
  <2> QED BY <2>1, <2>2
<1>8. CASE FlushLevel
  <2>1. pc = "flush" /\ pc' \in {"flush", "set_cr"} /\ UNCHANGED <<cr, ic>>
    BY <1>8, LevelType DEF FlushLevel
  <2> QED BY <2>1 DEF PhaseInv
<1>9. CASE SetCr
  BY <1>9 DEF SetCr, PhaseInv
<1>10. CASE InvalidateLevel
  <2>1. pc = "inval" /\ pc' \in {"inval", "after", "kernel"} /\ UNCHANGED <<cr, ic>>
    BY <1>10, LevelType DEF InvalidateLevel, TypeOK
  <2> QED BY <2>1 DEF PhaseInv
<1>11. CASE FillInstructions
  BY <1>11 DEF FillInstructions, PhaseInv
<1>12. CASE Store \/ Spill \/ FlushLine \/ InvalidateLine \/ FillData \/ Evict \/ UNCHANGED vars
  BY <1>4, <1>12 DEF Store, Spill, FlushLine, InvalidateLine, FillData, Evict, vars
<1> QED
  BY <1>1, <1>2, <1>3, <1>5, <1>6, <1>7, <1>8, <1>9, <1>10, <1>11, <1>12
     DEF Next, Program, Processor

\* Writing a line back from level 1 moves a dirty copy to level 2.
LEMMA WriteBack1Effect ==
  ASSUME TypeOK, NEW l \in Line, WriteBack1(l)
  PROVE  /\ ram' = ram /\ l1'[l] = Invalid
         /\ \A k \in Line : k # l => l1'[k] = l1[k] /\ l2'[k] = l2[k]
         /\ l1[l].st = "dirty" => l2'[l] = Dirty(l1[l].v)
         /\ l1[l].st # "dirty" => l2'[l] = l2[l]
<1>1. CASE l1[l].st = "dirty"
  BY <1>1 DEF TypeOK, WriteBack1
<1>2. CASE l1[l].st # "dirty"
  BY <1>2 DEF TypeOK, WriteBack1
<1> QED BY <1>1, <1>2

\* Writing a line back from level 2 moves a dirty copy to memory.
LEMMA WriteBack2Effect ==
  ASSUME TypeOK, NEW l \in Line, WriteBack2(l)
  PROVE  /\ l1' = l1 /\ l2'[l] = Invalid
         /\ \A k \in Line : k # l => l2'[k] = l2[k] /\ ram'[k] = ram[k]
         /\ l2[l].st = "dirty" => ram'[l] = l2[l].v
         /\ l2[l].st # "dirty" => ram'[l] = ram[l]
<1>1. CASE l2[l].st = "dirty"
  BY <1>1 DEF TypeOK, WriteBack2
<1>2. CASE l2[l].st # "dirty"
  BY <1>2 DEF TypeOK, WriteBack2
<1> QED BY <1>1, <1>2

\* A store goes to level 1 where the line is cacheable, to memory elsewhere.
LEMMA WriteEffect ==
  ASSUME TypeOK, NEW l \in Line, NEW v, Write(l, v)
  PROVE  /\ l2' = l2
         /\ \A k \in Line : k # l => l1'[k] = l1[k] /\ ram'[k] = ram[k]
         /\ Cacheable(l) => l1'[l] = Dirty(v) /\ ram' = ram
         /\ ~Cacheable(l) => ram'[l] = v /\ l1' = l1
BY DEF Write, TypeOK

\* Filling a line puts a clean copy of what is below in the place of none.
LEMMA FillEffect ==
  ASSUME TypeOK, FillData
  PROVE  \E l \in Line :
           /\ Cacheable(l) /\ ram' = ram
           /\ \A k \in Line : k # l => l1'[k] = l1[k] /\ l2'[k] = l2[k]
           /\ \/ l1[l].st = "invalid" /\ l1'[l] = Clean(Seen2(l)) /\ l2'[l] = l2[l]
              \/ l2[l].st = "invalid" /\ l2'[l] = Clean(ram[l]) /\ l1'[l] = l1[l]
<1>1. PICK l \in Line :
        /\ Cacheable(l)
        /\ \/ l1[l].st = "invalid" /\ l1' = [l1 EXCEPT ![l] = Clean(Seen2(l))] /\ l2' = l2
           \/ l2[l].st = "invalid" /\ l2' = [l2 EXCEPT ![l] = Clean(ram[l])] /\ l1' = l1
  BY DEF FillData
<1>2. ram' = ram
  BY DEF FillData
<1>3. \A k \in Line : k # l => l1'[k] = l1[k] /\ l2'[k] = l2[k]
  BY <1>1 DEF TypeOK
<1>4. \/ l1[l].st = "invalid" /\ l1'[l] = Clean(Seen2(l)) /\ l2'[l] = l2[l]
      \/ l2[l].st = "invalid" /\ l2'[l] = Clean(ram[l]) /\ l1'[l] = l1[l]
  BY <1>1 DEF TypeOK
<1> QED BY <1>1, <1>2, <1>3, <1>4

\* The three kinds of copy.
LEMMA Kinds ==
  /\ Invalid.st = "invalid"
  /\ \A v : Clean(v).st = "clean" /\ Clean(v).v = v /\ Dirty(v).st = "dirty" /\ Dirty(v).v = v
BY DEF Invalid, Clean, Dirty

-----------------------------------------------------------------------------
(* What the caches may hold. *)

\* With the data cache off and nothing being invalidated, no step of the
\* processor or of a loop puts anything in it.
LEMMA EvictEmpty ==
  ASSUME TypeOK, NEW l \in Line, WriteBack1(l) \/ WriteBack2(l),
         NEW k \in Line
  PROVE  /\ l1[k] = Invalid => l1'[k] = Invalid
         /\ l1[k] = Invalid /\ l2[k] = Invalid => l2'[k] = Invalid
<1>1. CASE WriteBack1(l)
  <2>1. CASE k = l
    BY <1>1, <2>1, WriteBack1Effect, Kinds
  <2>2. CASE k # l
    BY <1>1, <2>2, WriteBack1Effect
  <2> QED BY <2>1, <2>2
<1>2. CASE WriteBack2(l)
  <2>1. CASE k = l
    BY <1>2, <2>1, WriteBack2Effect, Kinds
  <2>2. CASE k # l
    BY <1>2, <2>2, WriteBack2Effect
  <2> QED BY <2>1, <2>2
<1> QED BY <1>1, <1>2

\* Every step keeps the caches empty where EmptyInv says so.
LEMMA NextEmpty == TypeOK /\ PhaseInv /\ EmptyInv /\ FlushInv /\ [Next]_vars => EmptyInv'
<1> SUFFICES ASSUME TypeOK, PhaseInv, EmptyInv, FlushInv, [Next]_vars PROVE EmptyInv'
  OBVIOUS
<1> USE DEF prog, loop, caches, env
\* Steps that leave the caches alone, or run with the data cache on.
<1>1. ASSUME UNCHANGED <<cr, l1, l2, level, todo>>, pc # "inval", pc' # "inval"
      PROVE  EmptyInv'
  BY <1>1 DEF EmptyInv, Empty
<1>2. ASSUME "C" \in cr', pc' # "inval" PROVE EmptyInv'
  BY <1>2 DEF EmptyInv
<1>3. CASE EnableI
  BY <1>3 DEF EnableI, EmptyInv, Empty
<1>4. CASE MmuSetup
  <2>1. UNCHANGED <<l1, l2>> /\ pc = "mmu" /\ pc' = "on" /\ ("C" \in cr' <=> "C" \in cr)
    BY <1>4 DEF MmuSetup
  <2> QED BY <2>1 DEF EmptyInv, Empty
<1>5. CASE EnableC
  BY <1>5, <1>2 DEF EnableC
<1>6. CASE Store
  <2>0. PICK l \in Stored : \E v : Write(l, v)
    BY <1>6 DEF Store
  <2>1. PICK v : Write(l, v)
    BY <2>0
  <2>2. l \in Line
    BY CachesAssumption
  <2>3. UNCHANGED <<pc, cr, level, todo>>
    BY <1>6 DEF Store
  <2>4. CASE "C" \in cr
    BY <1>2, <2>3, <2>4 DEF PhaseInv
  <2>5. CASE "C" \notin cr
    <3>1. l1' = l1 /\ l2' = l2
      BY <2>1, <2>2, <2>5, WriteEffect DEF Cacheable
    <3> QED BY <2>3, <3>1 DEF EmptyInv, Empty
  <2> QED BY <2>4, <2>5
<1>7. CASE Spill
  BY <1>2, <1>7 DEF Spill, PhaseInv
<1>8. CASE CallCleanup
  BY <1>1, <1>8 DEF CallCleanup
<1>9. CASE ICacheStep
  BY <1>9 DEF ICacheStep, ICacheOff, EmptyInv, Empty
<1>10. CASE CacheDisable
  <2>1. CASE "C" \in cr
    BY <1>2, <1>10, <2>1 DEF CacheDisable
  <2>2. CASE "C" \notin cr
    BY <1>10, <2>2 DEF CacheDisable, EmptyInv, Empty
  <2> QED BY <2>1, <2>2
<1>11. CASE FlushLine
  BY <1>2, <1>11 DEF FlushLine, PhaseInv
<1>12. CASE FlushLevel
  <2>1. pc = "flush" /\ pc' \in {"flush", "set_cr"} /\ cr' = cr
    BY <1>12, LevelType DEF FlushLevel
  <2> QED BY <1>2, <2>1 DEF PhaseInv
<1>13. CASE SetCr
  <2>1. pc = "set_cr" /\ pc' = "inval" /\ level' = 0 /\ todo' = Line
    BY <1>13 DEF SetCr, FlushInv
  <2> QED BY <2>1 DEF EmptyInv
<1>14. CASE InvalidateLine
  <2>1. PICK l \in todo :
          /\ todo' = todo \ {l}
          /\ \/ level = 0 /\ l1' = [l1 EXCEPT ![l] = Invalid] /\ l2' = l2
             \/ level = 1 /\ l2' = [l2 EXCEPT ![l] = Invalid] /\ l1' = l1
    BY <1>14 DEF InvalidateLine
  <2>2. l \in Line /\ pc = "inval" /\ pc' = "inval" /\ level' = level /\ cr' = cr
    BY <1>14 DEF InvalidateLine, TypeOK
  <2>3. CASE level = 0
    BY <2>1, <2>2, <2>3 DEF TypeOK, EmptyInv
  <2>4. CASE level = 1
    BY <2>1, <2>2, <2>4 DEF TypeOK, EmptyInv
  <2> QED BY <2>1, <2>3, <2>4
<1>15. CASE InvalidateLevel
  <2>1. /\ pc = "inval" /\ todo' = Line /\ UNCHANGED <<cr, l1, l2>>
        /\ HasData(Clidr[level]) => todo = {}
        /\ \/ level' = level + 1 /\ pc' = "inval"
           \/ ~(level + 1 < Levels) /\ pc' = back
    BY <1>15 DEF InvalidateLevel, NextLevel, LevelsLeft
  <2>2. level \in Nat /\ level < Levels /\ Levels \in Nat /\ Levels >= 2
        /\ back # "inval"
    BY CachesAssumption DEF TypeOK
  <2>3. HasData(Clidr[0]) /\ HasData(Clidr[1])
    BY CachesAssumption DEF HasData, INSTRUCTION_DATA, UNIFIED, DATA_ONLY
  <2>4. level = 0 \/ level = 1 => todo = {}
    BY <2>1, <2>3
  <2>5. \A l \in Line : /\ l1[l] = Invalid
                        /\ level > 0 => l2[l] = Invalid
    BY <2>1, <2>2, <2>4 DEF EmptyInv
  <2>6. CASE level' = level + 1 /\ pc' = "inval"
    <3>1. \A l \in Line : /\ l1'[l] = Invalid
                          /\ level' > 1 => l2'[l] = Invalid
      BY <2>1, <2>2, <2>5, <2>6
    <3>2. Line \ todo' = {}
      BY <2>1
    <3>3. pc' = "inval" /\ level' # 0
      BY <2>2, <2>6
    <3> QED BY <3>1, <3>2, <3>3 DEF EmptyInv
  <2>7. CASE ~(level + 1 < Levels) /\ pc' = back
    <3>1. level > 0
      BY <2>2, <2>7
    <3> QED BY <2>1, <2>2, <2>5, <2>7, <3>1 DEF EmptyInv, Empty
  <2> QED BY <2>1, <2>6, <2>7
<1>16. CASE FillData
  <2>1. "C" \in cr /\ UNCHANGED <<pc, cr>>
    BY <1>16 DEF FillData, Cacheable
  <2> QED BY <1>2, <2>1 DEF PhaseInv
<1>17. CASE Evict
  <2>1. PICK l \in Line : WriteBack1(l) \/ WriteBack2(l)
    BY <1>17 DEF Evict
  <2>2. UNCHANGED <<pc, cr, level, todo>>
    BY <1>17 DEF Evict
  <2>3. \A k \in Line : /\ l1[k] = Invalid => l1'[k] = Invalid
                        /\ l1[k] = Invalid /\ l2[k] = Invalid => l2'[k] = Invalid
    BY <2>1, EvictEmpty
  <2>4. CASE pc # "inval"
    <3>1. CASE "C" \in cr
      BY <2>2, <2>4, <3>1 DEF EmptyInv
    <3>2. CASE "C" \notin cr
      <4>1. \A k \in Line : l1'[k] = Invalid /\ l2'[k] = Invalid
        BY <2>3, <2>4, <3>2 DEF EmptyInv, Empty
      <4> QED BY <2>2, <2>4, <4>1 DEF EmptyInv, Empty
    <3> QED BY <3>1, <3>2
  <2>5. CASE pc = "inval"
    <3>1. level \in Nat
      BY CachesAssumption DEF TypeOK
    <3>2. level > 0 => \A k \in Line : l1'[k] = Invalid
      BY <2>3, <2>5, <3>1 DEF EmptyInv
    <3>3. level > 1 => \A k \in Line : l2'[k] = Invalid
      BY <2>3, <2>5, <3>1 DEF EmptyInv
    <3>4. level = 0 => \A k \in Line \ todo : l1'[k] = Invalid
      BY <2>3, <2>5 DEF EmptyInv
    <3>5. level = 1 => \A k \in Line \ todo : l2'[k] = Invalid
      BY <2>3, <2>5 DEF EmptyInv
    <3> QED BY <2>2, <2>5, <3>2, <3>3, <3>4, <3>5 DEF EmptyInv
  <2> QED BY <2>4, <2>5
<1>18. CASE FillInstructions
  BY <1>18 DEF FillInstructions, EmptyInv, Empty
<1>19. CASE UNCHANGED vars
  BY <1>19 DEF vars, EmptyInv, Empty
<1> QED
  BY <1>3, <1>4, <1>5, <1>6, <1>7, <1>8, <1>9, <1>10, <1>11, <1>12, <1>13, <1>14,
     <1>15, <1>16, <1>17, <1>18, <1>19 DEF Next, Program, Processor

\* Writing a line back keeps what is cached within the table, and clean copies
\* copies.
LEMMA WriteBackCopy ==
  ASSUME TypeOK, CopyInv, NEW l \in Line, WriteBack1(l) \/ WriteBack2(l),
         UNCHANGED <<table, cr>>
  PROVE  CopyInv'
<1>1. ASSUME NEW k \in Line
      PROVE  /\ l1'[k].st # "invalid" \/ l2'[k].st # "invalid" => k \in table
             /\ "C" \in cr => /\ l1'[k].st = "clean" => l1'[k].v = Seen2(k)'
                              /\ l2'[k].st = "clean" => l2'[k].v = ram'[k]
  <2>1. CASE k # l
    <3>1. l1'[k] = l1[k] /\ l2'[k] = l2[k] /\ ram'[k] = ram[k]
      BY <2>1, WriteBack1Effect, WriteBack2Effect
    <3> QED BY <3>1 DEF CopyInv, Seen2
  <2>2. CASE k = l /\ WriteBack1(l)
    BY <2>2, WriteBack1Effect, Kinds DEF CopyInv
  <2>3. CASE k = l /\ WriteBack2(l)
    <3>1. l1'[l] = l1[l] /\ l2'[l].st = "invalid" /\ Seen2(l)' = ram'[l]
      BY <2>3, WriteBack2Effect, Kinds DEF Seen2
    <3>2. "C" \in cr => Seen2(l) = ram'[l]
      <4>1. l2[l].st \in {"invalid", "clean", "dirty"}
        BY DEF TypeOK, Copy
      <4> QED BY <2>3, <4>1, WriteBack2Effect DEF CopyInv, Seen2
    <3> QED BY <2>3, <3>1, <3>2 DEF CopyInv
  <2> QED BY <2>1, <2>2, <2>3
<1> QED BY <1>1 DEF CopyInv

\* A store does too.
LEMMA WriteCopy ==
  ASSUME TypeOK, PhaseInv, CopyInv, NEW l \in Line, NEW v, Write(l, v),
         UNCHANGED <<table, cr>>
  PROVE  CopyInv'
<1>1. ASSUME NEW k \in Line
      PROVE  /\ l1'[k].st # "invalid" \/ l2'[k].st # "invalid" => k \in table
             /\ "C" \in cr => /\ l1'[k].st = "clean" => l1'[k].v = Seen2(k)'
                              /\ l2'[k].st = "clean" => l2'[k].v = ram'[k]
  <2>1. CASE k # l
    <3>1. l1'[k] = l1[k] /\ l2'[k] = l2[k] /\ ram'[k] = ram[k]
      BY <2>1, WriteEffect
    <3> QED BY <3>1 DEF CopyInv, Seen2
  <2>2. CASE k = l /\ Cacheable(l)
    <3>1. l1'[l].st = "dirty" /\ l2' = l2 /\ ram' = ram /\ l \in table
      BY <2>2, WriteEffect, Kinds DEF Cacheable
    <3> QED BY <2>2, <3>1 DEF CopyInv
  <2>3. CASE k = l /\ ~Cacheable(l)
    <3>1. l1' = l1 /\ l2' = l2
      BY <2>3, WriteEffect
    <3>2. "C" \in cr => l \notin table
      BY <2>3 DEF Cacheable, PhaseInv
    <3> QED BY <2>3, <3>1, <3>2 DEF CopyInv
  <2> QED BY <2>1, <2>2, <2>3
<1> QED BY <1>1 DEF CopyInv

\* Every step keeps cached lines copies of what is below them.
LEMMA NextCopy == TypeOK /\ PhaseInv /\ EmptyInv /\ CopyInv /\ [Next]_vars => CopyInv'
<1> SUFFICES ASSUME TypeOK, PhaseInv, EmptyInv, CopyInv, [Next]_vars PROVE CopyInv'
  OBVIOUS
<1> USE DEF prog, loop, caches, env
<1>1. ASSUME UNCHANGED <<table, caches>>, "C" \in cr' => "C" \in cr
      PROVE  CopyInv'
  BY <1>1 DEF CopyInv, Seen2
<1>2. CASE MmuSetup
  <2>1. /\ pc = "mmu" /\ "M" \notin cr /\ cr' = cr \cup {"M"}
        /\ table' = {s \in Line : Mapped(s)} /\ UNCHANGED <<ram, l1, l2>>
    BY <1>2 DEF MmuSetup, PhaseInv
  <2>2. "C" \notin cr' /\ Empty
    BY <2>1 DEF PhaseInv, EmptyInv
  <2>3. PAGE_TABLE \notin table'
    BY <2>1 DEF Mapped
  <2> QED BY <2>1, <2>2, <2>3, Kinds DEF CopyInv, Empty
<1>3. CASE EnableC
  <2>1. pc = "on" /\ UNCHANGED <<table, ram, l1, l2>>
    BY <1>3 DEF EnableC
  <2>2. CASE "C" \in cr
    BY <1>1, <2>1, <2>2
  <2>3. CASE "C" \notin cr
    BY <2>1, <2>3, Kinds DEF CopyInv, EmptyInv, Empty
  <2> QED BY <2>2, <2>3
<1>4. CASE Store
  <2>0. PICK l \in Stored : \E v : Write(l, v)
    BY <1>4 DEF Store
  <2>1. PICK v : Write(l, v)
    BY <2>0
  <2>2. l \in Line /\ UNCHANGED <<table, cr>>
    BY <1>4, CachesAssumption DEF Store
  <2> QED BY <2>1, <2>2, WriteCopy
<1>5. CASE Spill
  <2>1. PICK v : Write(STACK, v)
    BY <1>5 DEF Spill
  <2>2. STACK \in Line /\ UNCHANGED <<table, cr>>
    BY <1>5, CachesAssumption DEF Spill
  <2> QED BY <2>1, <2>2, WriteCopy
<1>6. CASE FlushLine
  <2>1. PICK l \in todo : WriteBack1(l) \/ WriteBack2(l)
    BY <1>6 DEF FlushLine
  <2>2. l \in Line /\ UNCHANGED <<table, cr>>
    BY <1>6 DEF FlushLine, TypeOK
  <2> QED BY <2>1, <2>2, WriteBackCopy
<1>7. CASE Evict
  <2>1. PICK l \in Line : WriteBack1(l) \/ WriteBack2(l)
    BY <1>7 DEF Evict
  <2> QED BY <1>7, <2>1, WriteBackCopy DEF Evict
<1>8. CASE FillData
  <2>1. PICK l \in Line :
           /\ Cacheable(l) /\ ram' = ram
           /\ \A k \in Line : k # l => l1'[k] = l1[k] /\ l2'[k] = l2[k]
           /\ \/ l1[l].st = "invalid" /\ l1'[l] = Clean(Seen2(l)) /\ l2'[l] = l2[l]
              \/ l2[l].st = "invalid" /\ l2'[l] = Clean(ram[l]) /\ l1'[l] = l1[l]
    BY <1>8, FillEffect
  <2>2. UNCHANGED <<table, cr>>
    BY <1>8 DEF FillData
  <2>3. ASSUME NEW k \in Line
        PROVE  /\ l1'[k].st # "invalid" \/ l2'[k].st # "invalid" => k \in table
               /\ "C" \in cr => /\ l1'[k].st = "clean" => l1'[k].v = Seen2(k)'
                                /\ l2'[k].st = "clean" => l2'[k].v = ram'[k]
    <3>1. CASE k # l
      BY <2>1, <3>1 DEF CopyInv, Seen2
    <3>2. CASE k = l /\ l1[l].st = "invalid" /\ l1'[l] = Clean(Seen2(l)) /\ l2'[l] = l2[l]
      BY <2>1, <3>2, Kinds DEF CopyInv, Seen2, Cacheable
    <3>3. CASE k = l /\ l2[l].st = "invalid" /\ l2'[l] = Clean(ram[l]) /\ l1'[l] = l1[l]
      BY <2>1, <3>3, Kinds DEF CopyInv, Seen2, Cacheable
    <3> QED BY <2>1, <3>1, <3>2, <3>3
  <2> QED BY <2>2, <2>3 DEF CopyInv
<1>9. CASE InvalidateLine
  <2>1. "C" \notin cr /\ UNCHANGED <<table, cr>>
    BY <1>9 DEF InvalidateLine, PhaseInv
  <2>2. PICK l \in Line :
          \/ l1' = [l1 EXCEPT ![l] = Invalid] /\ l2' = l2
          \/ l2' = [l2 EXCEPT ![l] = Invalid] /\ l1' = l1
    BY <1>9 DEF InvalidateLine, TypeOK
  <2>3. \A k \in Line : /\ l1'[k] = l1[k] \/ l1'[k] = Invalid
                        /\ l2'[k] = l2[k] \/ l2'[k] = Invalid
    BY <2>2 DEF TypeOK
  <2> QED BY <2>1, <2>3, Kinds DEF CopyInv
<1>10. CASE EnableI
  BY <1>1, <1>10 DEF EnableI
<1>11. CASE CallCleanup \/ CacheDisable \/ FlushLevel \/ InvalidateLevel
  BY <1>1, <1>11 DEF CallCleanup, CacheDisable, FlushLevel, InvalidateLevel
<1>12. CASE ICacheStep
  BY <1>1, <1>12 DEF ICacheStep, ICacheOff
<1>13. CASE SetCr
  BY <1>1, <1>13 DEF SetCr
<1>14. CASE FillInstructions
  BY <1>1, <1>14 DEF FillInstructions
<1>15. CASE UNCHANGED vars
  BY <1>1, <1>15 DEF vars
<1> QED
  BY <1>2, <1>3, <1>4, <1>5, <1>6, <1>7, <1>8, <1>9, <1>10, <1>11, <1>12, <1>13,
     <1>14, <1>15 DEF Next, Program, Processor

-----------------------------------------------------------------------------
(* What the flush leaves behind. *)

\* Writing a line back leaves flushed lines flushed.
LEMMA WriteBackFlushed ==
  ASSUME TypeOK, CopyInv, "C" \in cr, build' = build,
         NEW l \in Line, WriteBack1(l) \/ WriteBack2(l), NEW k \in Line
  PROVE  /\ Flushed1(k) => Flushed1(k)'
         /\ Flushed1(k) /\ Flushed2(k) => Flushed2(k)'
         /\ k = l /\ WriteBack1(l) => Flushed1(k)'
         /\ k = l /\ WriteBack2(l) => Flushed2(k)'
<1>1. /\ l1[k].st \in {"invalid", "clean", "dirty"}
      /\ l2[k].st \in {"invalid", "clean", "dirty"}
  BY DEF TypeOK, Copy
<1>2. CASE k # l
  <2>1. l1'[k] = l1[k] /\ l2'[k] = l2[k] /\ ram'[k] = ram[k]
    BY <1>2, WriteBack1Effect, WriteBack2Effect
  <2> QED BY <1>2, <2>1 DEF Flushed1, Flushed2, Seen2
<1>3. CASE k = l /\ WriteBack1(l)
  <2>1. ram' = ram /\ l1'[k].st = "invalid"
    BY <1>3, WriteBack1Effect, Kinds
  <2>2. Flushed1(k)'
    BY <2>1 DEF Flushed1
  <2>3. ASSUME Flushed1(k), Flushed2(k), l2'[k].st = "dirty"
        PROVE  build.spills /\ k = STACK /\ l2'[k].v.live = ram[k].live
    <3>1. CASE l1[k].st = "dirty"
      <4>1. l2'[k].v = l1[k].v /\ build.spills /\ k = STACK /\ l1[k].v.live = Seen2(k).live
        BY <1>3, <2>3, <3>1, WriteBack1Effect, Kinds DEF Flushed1
      <4>2. Seen2(k).live = ram[k].live
        BY <1>1, <2>3 DEF Seen2, Flushed2, CopyInv
      <4> QED BY <4>1, <4>2
    <3>2. CASE l1[k].st # "dirty"
      <4>1. l2'[k] = l2[k]
        BY <1>3, <3>2, WriteBack1Effect
      <4> QED BY <2>3, <4>1 DEF Flushed2
    <3> QED BY <3>1, <3>2
  <2>4. Flushed1(k) /\ Flushed2(k) => Flushed2(k)'
    BY <2>1, <2>3 DEF Flushed2
  <2>5. WriteBack2(l) => Flushed2(k)'
    BY <1>3, WriteBack2Effect, Kinds DEF Flushed2
  <2> QED BY <2>2, <2>4, <2>5
<1>4. CASE k = l /\ WriteBack2(l)
  <2>1. l1' = l1 /\ l2'[k].st = "invalid"
    BY <1>4, WriteBack2Effect, Kinds
  <2>2. Flushed2(k)'
    BY <2>1 DEF Flushed2
  <2>3. Seen2(k) = Seen2(k)'
    BY <1>1, <1>4, <2>1, WriteBack2Effect DEF Seen2, CopyInv
  <2>4. Flushed1(k) => Flushed1(k)'
    BY <2>1, <2>3 DEF Flushed1
  <2>5. WriteBack1(l) => Flushed1(k)'
    BY <1>4, WriteBack1Effect, Kinds DEF Flushed1
  <2> QED BY <2>2, <2>4, <2>5
<1> QED BY <1>2, <1>3, <1>4

\* A level that holds data is left only when all its lines are flushed.
LEMMA LevelsDone ==
  ASSUME TypeOK, NEW next, NextLevel(next)
  PROVE  /\ level \in Nat /\ todo' = Line
         /\ level = 0 \/ level = 1 => todo = {}
         /\ \/ level' = level + 1 /\ pc' = pc
            \/ level > 0 /\ level' = 0 /\ pc' = next
<1>1. HasData(Clidr[0]) /\ HasData(Clidr[1])
  BY CachesAssumption DEF HasData, INSTRUCTION_DATA, UNIFIED, DATA_ONLY
<1>2. level \in Nat /\ Levels \in Nat /\ Levels >= 2
  BY CachesAssumption DEF TypeOK
<1>3. level + 1 < Levels \/ level > 0
  BY <1>2
<1> QED BY <1>1, <1>2, <1>3 DEF NextLevel, LevelsLeft

\* Every step keeps FlushInv.
LEMMA NextFlush ==
  TypeOK /\ PhaseInv /\ CopyInv /\ FlushInv /\ [Next]_vars => FlushInv'
<1> SUFFICES ASSUME TypeOK, PhaseInv, CopyInv, FlushInv, [Next]_vars PROVE FlushInv'
  OBVIOUS
<1> USE DEF prog, loop, caches, env
<1>1. ASSUME pc' \notin {"flush", "set_cr"} PROVE FlushInv'
  BY <1>1 DEF FlushInv
<1>2. ASSUME UNCHANGED <<pc, level, todo, ram, l1, l2, build>> PROVE FlushInv'
  BY <1>2 DEF FlushInv, Flushed1, Flushed2, Seen2
\* One line changes, and what was flushed stays flushed.
<1>3. ASSUME UNCHANGED <<pc, level, todo>>,
             pc \in {"flush", "set_cr"} =>
               \A k \in Line : /\ Flushed1(k) => Flushed1(k)'
                               /\ Flushed1(k) /\ Flushed2(k) => Flushed2(k)'
      PROVE  FlushInv'
  <2>1. level \in Nat
    BY CachesAssumption DEF TypeOK
  <2> QED BY <1>3, <2>1 DEF FlushInv
<1>4. CASE Spill
  <2>1. PICK w \in Word : Write(STACK, [View(STACK) EXCEPT !.dead = w])
    BY <1>4 DEF Spill
  <2>2. /\ STACK \in Line /\ pc \in {"flush", "set_cr"} /\ build.spills
        /\ UNCHANGED <<pc, level, todo, build>>
    BY <1>4, CachesAssumption DEF Spill
  <2> DEFINE v == [View(STACK) EXCEPT !.dead = w]
  <2>3. v.live = View(STACK).live
    BY <2>2, ViewType DEF Content
  <2>4. ASSUME NEW k \in Line
        PROVE  /\ Flushed1(k) => Flushed1(k)'
               /\ Flushed1(k) /\ Flushed2(k) => Flushed2(k)'
    <3>1. CASE k # STACK
      <4>1. l1'[k] = l1[k] /\ l2'[k] = l2[k] /\ ram'[k] = ram[k]
        BY <2>1, <2>2, <3>1, WriteEffect
      <4> QED BY <2>2, <4>1 DEF Flushed1, Flushed2, Seen2
    <3>2. CASE k = STACK /\ Cacheable(STACK)
      <4>1. l1'[k].v = v /\ l2' = l2 /\ ram' = ram
        BY <2>1, <2>2, <3>2, WriteEffect, Kinds
      <4>2. Flushed1(k) => View(k).live = Seen2(k).live
        <5>1. l1[k].st \in {"invalid", "clean", "dirty"} /\ "C" \in cr
          BY <2>2 DEF TypeOK, Copy, PhaseInv
        <5> QED BY <3>2, <5>1 DEF Flushed1, View, Seen1, CopyInv
      <4> QED BY <2>2, <2>3, <3>2, <4>1, <4>2 DEF Flushed1, Flushed2, Seen2
    <3>3. CASE k = STACK /\ ~Cacheable(STACK)
      <4>1. l1[k].st = "invalid" /\ l2[k].st = "invalid"
        <5>1. k \notin table
          BY <2>2, <3>3 DEF Cacheable, PhaseInv
        <5> QED BY <5>1 DEF CopyInv
      <4>2. l1' = l1 /\ l2' = l2
        BY <2>1, <2>2, <3>3, WriteEffect
      <4> QED BY <4>1, <4>2 DEF Flushed1, Flushed2
    <3> QED BY <3>1, <3>2, <3>3
  <2> QED BY <1>3, <2>2, <2>4
<1>5. CASE CacheDisable
  <2>1. pc' # "set_cr" /\ (pc' = "flush" => level' = 0 /\ todo' = Line)
    BY <1>5 DEF CacheDisable
  <2> QED BY <2>1 DEF FlushInv
<1>6. CASE FlushLine
  <2>1. PICK l \in todo :
          /\ todo' = todo \ {l}
          /\ \/ level = 0 /\ WriteBack1(l)
             \/ level = 1 /\ WriteBack2(l)
    BY <1>6 DEF FlushLine
  <2>2. /\ l \in Line /\ pc = "flush" /\ "C" \in cr
        /\ UNCHANGED <<pc, level, build>>
    BY <1>6 DEF FlushLine, TypeOK, PhaseInv
  <2>3. ASSUME NEW k \in Line
        PROVE  /\ Flushed1(k) => Flushed1(k)'
               /\ Flushed1(k) /\ Flushed2(k) => Flushed2(k)'
               /\ k = l /\ level = 0 => Flushed1(k)'
               /\ k = l /\ level = 1 => Flushed2(k)'
    BY <2>1, <2>2, WriteBackFlushed
  <2>4. CASE level = 0
    <3>1. \A k \in Line \ todo' : Flushed1(k)'
      BY <2>1, <2>2, <2>3, <2>4 DEF FlushInv
    <3> QED BY <2>2, <2>4, <3>1 DEF FlushInv
  <2>5. CASE level = 1
    <3>1. \A k \in Line : Flushed1(k)'
      BY <2>2, <2>3, <2>5 DEF FlushInv
    <3>2. \A k \in Line \ todo' : Flushed2(k)'
      BY <2>1, <2>2, <2>3, <2>5 DEF FlushInv
    <3> QED BY <2>2, <2>5, <3>1, <3>2 DEF FlushInv
  <2> QED BY <2>1, <2>4, <2>5
<1>7. CASE FlushLevel
  <2>1. pc = "flush" /\ NextLevel("set_cr") /\ UNCHANGED <<ram, l1, l2, build>>
    BY <1>7 DEF FlushLevel
  <2>2. /\ level \in Nat /\ todo' = Line
        /\ level = 0 \/ level = 1 => todo = {}
        /\ \/ level' = level + 1 /\ pc' = "flush"
           \/ level > 0 /\ level' = 0 /\ pc' = "set_cr"
    BY <2>1, LevelsDone
  <2>3. \A k \in Line : Flushed1(k) /\ (level > 0 => Flushed2(k))
    BY <2>1, <2>2 DEF FlushInv
  <2>4. \A k \in Line : Flushed1(k)' /\ (level > 0 => Flushed2(k)')
    BY <2>1, <2>3 DEF Flushed1, Flushed2, Seen2
  <2>5. CASE level' = level + 1 /\ pc' = "flush"
    <3>1. level' > 0 /\ (level' > 1 => level > 0) /\ Line \ todo' = {}
      BY <2>2, <2>5
    <3> QED BY <2>4, <2>5, <3>1 DEF FlushInv
  <2>6. CASE level > 0 /\ level' = 0 /\ pc' = "set_cr"
    BY <2>2, <2>4, <2>6 DEF FlushInv
  <2> QED BY <2>2, <2>5, <2>6
<1>8. CASE FillData
  <2>1. PICK l \in Line :
           /\ Cacheable(l) /\ ram' = ram
           /\ \A k \in Line : k # l => l1'[k] = l1[k] /\ l2'[k] = l2[k]
           /\ \/ l1[l].st = "invalid" /\ l1'[l] = Clean(Seen2(l)) /\ l2'[l] = l2[l]
              \/ l2[l].st = "invalid" /\ l2'[l] = Clean(ram[l]) /\ l1'[l] = l1[l]
    BY <1>8, FillEffect
  <2>2. UNCHANGED <<pc, level, todo, build>>
    BY <1>8 DEF FillData
  <2>3. ASSUME NEW k \in Line
        PROVE  /\ Flushed1(k) => Flushed1(k)'
               /\ Flushed1(k) /\ Flushed2(k) => Flushed2(k)'
    <3>1. Seen2(k)' = Seen2(k)
      BY <2>1, Kinds DEF Seen2
    <3>2. l1'[k] = l1[k] \/ l1'[k].st = "clean"
      BY <2>1, Kinds
    <3>3. l2'[k] = l2[k] \/ l2'[k].st = "clean"
      BY <2>1, Kinds
    <3> QED BY <2>1, <2>2, <3>1, <3>2, <3>3 DEF Flushed1, Flushed2
  <2> QED BY <1>3, <2>2, <2>3
<1>9. CASE Evict
  <2>1. PICK l \in Line : WriteBack1(l) \/ WriteBack2(l)
    BY <1>9 DEF Evict
  <2>2. UNCHANGED <<pc, level, todo, build>>
    BY <1>9 DEF Evict
  <2>3. pc \in {"flush", "set_cr"} => "C" \in cr
    BY DEF PhaseInv
  <2> QED BY <1>3, <2>1, <2>2, <2>3, WriteBackFlushed
<1>10. CASE EnableI \/ MmuSetup \/ EnableC \/ CallCleanup
  BY <1>1, <1>10 DEF EnableI, MmuSetup, EnableC, CallCleanup
<1>11. CASE Store
  BY <1>1, <1>11 DEF Store
<1>12. CASE ICacheStep \/ SetCr \/ InvalidateLine
  BY <1>1, <1>12 DEF ICacheStep, SetCr, InvalidateLine
<1>13. CASE InvalidateLevel
  BY <1>1, <1>13, LevelType DEF InvalidateLevel, TypeOK
<1>14. CASE FillInstructions
  BY <1>2, <1>14 DEF FillInstructions
<1>15. CASE UNCHANGED vars
  BY <1>2, <1>15 DEF vars
<1> QED
  BY <1>4, <1>5, <1>6, <1>7, <1>8, <1>9, <1>10, <1>11, <1>12, <1>13, <1>14, <1>15
     DEF Next, Program, Processor

\* What is discarded is what the flush left: every step keeps NothingLost.
LEMMA NextLost ==
  TypeOK /\ PhaseInv /\ EmptyInv /\ FlushInv' /\ NothingLost /\ [Next]_vars => NothingLost'
<1> SUFFICES ASSUME TypeOK, PhaseInv, EmptyInv, FlushInv', NothingLost, [Next]_vars
             PROVE  NothingLost'
  OBVIOUS
<1> USE DEF prog, loop, caches, env
<1>1. CASE pc' = "set_cr"
  BY <1>1 DEF FlushInv, Flushed1, Flushed2, NothingLost
<1>2. CASE pc' \notin {"set_cr", "inval"}
  BY <1>2 DEF NothingLost
<1>3. ASSUME pc' = "inval", pc \in {"set_cr", "inval"}, UNCHANGED <<l1, l2, build>>
      PROVE  NothingLost'
  BY <1>3 DEF NothingLost
<1>4. CASE pc' = "inval"
  <2>1. CASE Store
    <3>0. PICK l \in Stored : \E v : Write(l, v)
      BY <2>1 DEF Store
    <3>1. PICK v : Write(l, v)
      BY <3>0
    <3>2. l \in Line /\ pc = "inval" /\ build' = build
      BY <1>4, <2>1, CachesAssumption DEF Store
    <3>3. l1' = l1 /\ l2' = l2
      BY <3>1, <3>2, WriteEffect DEF Cacheable, PhaseInv
    <3> QED BY <1>3, <1>4, <3>2, <3>3
  <2>2. CASE CacheDisable
    <3>1. "C" \notin cr /\ pc = "dcache" /\ UNCHANGED <<l1, l2>>
      BY <1>4, <2>2 DEF CacheDisable
    <3>2. \A l \in Line : l1[l] = Invalid /\ l2[l] = Invalid
      BY <3>1 DEF EmptyInv, Empty
    <3> QED BY <3>1, <3>2, Kinds DEF NothingLost
  <2>3. CASE SetCr
    BY <1>3, <1>4, <2>3 DEF SetCr
  <2>4. CASE InvalidateLine
    <3>1. pc = "inval" /\ build' = build
      BY <2>4 DEF InvalidateLine
    <3>2. PICK l \in Line :
            \/ l1' = [l1 EXCEPT ![l] = Invalid] /\ l2' = l2
            \/ l2' = [l2 EXCEPT ![l] = Invalid] /\ l1' = l1
      BY <2>4 DEF InvalidateLine, TypeOK
    <3>3. \A k \in Line : /\ l1'[k] = l1[k] \/ l1'[k] = Invalid
                          /\ l2'[k] = l2[k] \/ l2'[k] = Invalid
      BY <3>2 DEF TypeOK
    <3> QED BY <3>1, <3>3, Kinds DEF NothingLost
  <2>5. CASE InvalidateLevel
    BY <1>3, <1>4, <2>5 DEF InvalidateLevel
  <2>6. CASE Evict
    <3>1. PICK l \in Line : WriteBack1(l) \/ WriteBack2(l)
      BY <2>6 DEF Evict
    <3>2. pc = "inval" /\ build' = build
      BY <1>4, <2>6 DEF Evict
    <3>3. ASSUME NEW k \in Line, l1'[k].st = "dirty" \/ l2'[k].st = "dirty"
          PROVE  l1[k].st = "dirty" \/ l2[k].st = "dirty"
      <4>1. CASE k # l
        BY <3>1, <3>3, <4>1, WriteBack1Effect, WriteBack2Effect
      <4>2. CASE k = l /\ WriteBack1(l)
        BY <3>3, <4>2, WriteBack1Effect, Kinds
      <4>3. CASE k = l /\ WriteBack2(l)
        BY <3>3, <4>3, WriteBack2Effect, Kinds
      <4> QED BY <3>1, <4>1, <4>2, <4>3
    <3> QED BY <3>2, <3>3 DEF NothingLost
  <2>7. CASE FillInstructions
    BY <1>3, <1>4, <2>7 DEF FillInstructions
  <2>8. CASE UNCHANGED vars
    BY <1>3, <1>4, <2>8 DEF vars
  <2>9. ~(EnableI \/ MmuSetup \/ EnableC \/ CallCleanup)
    BY <1>4 DEF EnableI, MmuSetup, EnableC, CallCleanup
  <2>10. ~(Spill \/ ICacheStep \/ FlushLine)
    BY <1>4 DEF Spill, ICacheStep, FlushLine
  <2>11. ~FlushLevel
    BY <1>4, LevelType DEF FlushLevel
  <2>12. ~FillData
    BY <1>4 DEF FillData, Cacheable, PhaseInv
  <2> QED
    BY <2>1, <2>2, <2>3, <2>4, <2>5, <2>6, <2>7, <2>8, <2>9, <2>10, <2>11, <2>12
       DEF Next, Program, Processor
<1> QED BY <1>1, <1>2, <1>4

-----------------------------------------------------------------------------
(* Transparency. *)

\* The processor writing a line back changes nothing the program can find.
LEMMA WriteBackView ==
  ASSUME TypeOK, PhaseInv, EmptyInv, CopyInv, NothingLost,
         "C" \in cr \/ build.late, UNCHANGED <<cr, table>>,
         NEW l \in Line, WriteBack1(l) \/ WriteBack2(l), NEW k \in Line
  PROVE  View(k)' = View(k)
<1>1. Cacheable(k)' = Cacheable(k)
  BY DEF Cacheable
<1>2. l1[k].st \in {"invalid", "clean", "dirty"} /\ l2[k].st \in {"invalid", "clean", "dirty"}
  BY DEF TypeOK, Copy
<1>3. CASE k # l
  <2>1. l1'[k] = l1[k] /\ l2'[k] = l2[k] /\ ram'[k] = ram[k]
    BY <1>3, WriteBack1Effect, WriteBack2Effect
  <2> QED BY <1>1, <2>1 DEF View, Seen1, Seen2
<1>4. CASE k = l /\ Cacheable(k)
  <2>1. "C" \in cr
    BY <1>4 DEF Cacheable
  <2>2. CASE WriteBack1(l)
    <3>1. CASE l1[k].st = "dirty"
      <4>1. Seen1(k)' = l1[k].v
        BY <1>4, <2>2, <3>1, WriteBack1Effect, Kinds DEF Seen1, Seen2
      <4> QED BY <1>1, <1>4, <3>1, <4>1 DEF View, Seen1
    <3>2. CASE l1[k].st # "dirty"
      <4>1. Seen1(k)' = Seen2(k)
        BY <1>4, <2>2, <3>2, WriteBack1Effect, Kinds DEF Seen1, Seen2
      <4>2. Seen1(k) = Seen2(k)
        BY <1>2, <2>1, <3>2 DEF Seen1, CopyInv
      <4> QED BY <1>1, <1>4, <4>1, <4>2 DEF View
    <3> QED BY <3>1, <3>2
  <2>3. CASE WriteBack2(l)
    <3>1. Seen2(k)' = Seen2(k)
      BY <1>2, <1>4, <2>1, <2>3, WriteBack2Effect, Kinds DEF Seen2, CopyInv
    <3>2. l1' = l1
      BY <2>3, WriteBack2Effect
    <3> QED BY <1>1, <1>4, <3>1, <3>2 DEF View, Seen1
  <2> QED BY <2>2, <2>3
<1>5. CASE k = l /\ ~Cacheable(k)
  <2>1. l2[k].st # "dirty"
    <3>1. CASE "C" \in cr
      <4>1. k \notin table
        BY <1>5, <3>1 DEF Cacheable, PhaseInv
      <4> QED BY <4>1 DEF CopyInv
    <3>2. CASE "C" \notin cr /\ pc # "inval"
      BY <3>2, Kinds DEF EmptyInv, Empty
    <3>3. CASE "C" \notin cr /\ pc = "inval"
      <4>1. build.late /\ ~(build.spills /\ build.late)
        BY <3>3, CachesAssumption DEF TypeOK
      <4> QED BY <3>3, <4>1 DEF NothingLost
    <3> QED BY <3>1, <3>2, <3>3
  <2>2. ram'[k] = ram[k]
    BY <1>5, <2>1, WriteBack1Effect, WriteBack2Effect
  <2> QED BY <1>1, <1>5, <2>2 DEF View
<1> QED BY <1>3, <1>4, <1>5

\* A store is what the program finds in that line, and changes no other.
LEMMA WriteView ==
  ASSUME TypeOK, UNCHANGED <<cr, table>>, NEW l \in Line, NEW v, Write(l, v), NEW k \in Line
  PROVE  View(k)' = IF k = l THEN v ELSE View(k)
<1>1. Cacheable(k)' = Cacheable(k)
  BY DEF Cacheable
<1>2. CASE k # l
  <2>1. l1'[k] = l1[k] /\ l2'[k] = l2[k] /\ ram'[k] = ram[k]
    BY <1>2, WriteEffect
  <2> QED BY <1>1, <1>2, <2>1 DEF View, Seen1, Seen2
<1>3. CASE k = l /\ Cacheable(k)
  BY <1>1, <1>3, WriteEffect, Kinds DEF View, Seen1
<1>4. CASE k = l /\ ~Cacheable(k)
  BY <1>1, <1>4, WriteEffect DEF View
<1> QED BY <1>2, <1>3, <1>4

\* Every step keeps what the program finds what it stored.
LEMMA NextCoherent == IInv /\ [Next]_vars => Coherent'
<1> SUFFICES ASSUME IInv, [Next]_vars PROVE Coherent'
  OBVIOUS
<1>0. TypeOK /\ PhaseInv /\ EmptyInv /\ CopyInv /\ FlushInv /\ NothingLost /\ Coherent
  BY DEF IInv
<1> USE DEF prog, loop, caches, env
<1>1. ASSUME stored' = stored, \A k \in Line : View(k)'.live = View(k).live PROVE Coherent'
  BY <1>0, <1>1 DEF Coherent
<1>2. ASSUME UNCHANGED <<table, caches, stored>>, "C" \in cr' <=> "C" \in cr,
             "M" \in cr' <=> "M" \in cr
      PROVE  Coherent'
  <2>1. \A k \in Line : View(k)' = View(k)
    BY <1>2 DEF View, Seen1, Seen2, Cacheable
  <2> QED BY <1>1, <1>2, <2>1
<1>3. CASE MmuSetup
  <2>1. /\ pc = "mmu" /\ "M" \notin cr /\ cr' = cr \cup {"M"}
        /\ UNCHANGED <<ram, l1, l2, stored>>
    BY <1>0, <1>3 DEF MmuSetup, PhaseInv
  <2>2. "C" \notin cr /\ "C" \notin cr'
    BY <1>0, <2>1 DEF PhaseInv
  <2>3. \A k \in Line : View(k)' = View(k)
    BY <2>1, <2>2 DEF View, Cacheable
  <2> QED BY <1>1, <2>1, <2>3
<1>4. CASE EnableC
  <2>1. pc = "on" /\ UNCHANGED <<table, ram, l1, l2, stored>> /\ cr' = cr \cup {"C"}
    BY <1>4 DEF EnableC
  <2>2. CASE "C" \in cr
    BY <1>2, <2>1, <2>2
  <2>3. CASE "C" \notin cr
    <3>1. \A k \in Line : View(k) = ram[k]
      BY <2>3 DEF View, Cacheable
    <3>2. \A k \in Line : View(k)' = ram[k]
      BY <1>0, <2>1, <2>3, Kinds DEF View, Seen1, Seen2, EmptyInv, Empty
    <3> QED BY <1>1, <2>1, <3>1, <3>2
  <2> QED BY <2>2, <2>3
<1>5. CASE Store
  <2>1. PICK l \in Stored, w \in Word :
          /\ Write(l, [View(l) EXCEPT !.live = w])
          /\ stored' = [stored EXCEPT ![l] = w]
    BY <1>5 DEF Store
  <2>2. l \in Line /\ UNCHANGED <<table, cr>>
    BY <1>5, CachesAssumption DEF Store
  <2>3. [View(l) EXCEPT !.live = w].live = w
    BY <1>0, <2>2, ViewType DEF Content
  <2>4. stored'[l] = w /\ \A k \in Line : k # l => stored'[k] = stored[k]
    BY <1>0, <2>1, <2>2 DEF TypeOK
  <2> QED BY <1>0, <2>1, <2>2, <2>3, <2>4, WriteView DEF Coherent
<1>6. CASE Spill
  <2>1. PICK w \in Word : Write(STACK, [View(STACK) EXCEPT !.dead = w])
    BY <1>6 DEF Spill
  <2>2. STACK \in Line /\ UNCHANGED <<table, cr, stored>>
    BY <1>6, CachesAssumption DEF Spill
  <2>3. [View(STACK) EXCEPT !.dead = w].live = View(STACK).live
    BY <1>0, <2>2, ViewType DEF Content
  <2>4. \A k \in Line : View(k)'.live = View(k).live
    BY <1>0, <2>1, <2>2, <2>3, WriteView
  <2> QED BY <1>1, <2>2, <2>4
<1>7. CASE FlushLine
  <2>1. PICK l \in todo : WriteBack1(l) \/ WriteBack2(l)
    BY <1>7 DEF FlushLine
  <2>2. l \in Line /\ UNCHANGED <<table, cr, stored>> /\ "C" \in cr
    BY <1>0, <1>7 DEF FlushLine, TypeOK, PhaseInv
  <2> QED BY <1>0, <1>1, <2>1, <2>2, WriteBackView
<1>8. CASE Evict
  <2>1. PICK l \in Line : WriteBack1(l) \/ WriteBack2(l)
    BY <1>8 DEF Evict
  <2>2. UNCHANGED <<table, cr, stored>> /\ ("C" \in cr \/ build.late)
    BY <1>8 DEF Evict
  <2> QED BY <1>0, <1>1, <2>1, <2>2, WriteBackView
<1>9. CASE SetCr
  <2>1. /\ pc = "set_cr" /\ {"C", "M"} \subseteq cr /\ "C" \notin cr'
        /\ UNCHANGED <<table, ram, l1, l2, stored>>
    BY <1>0, <1>9 DEF SetCr, PhaseInv
  <2>2. ASSUME NEW k \in Line PROVE View(k)'.live = View(k).live
    <3>1. /\ l1[k].st \in {"invalid", "clean", "dirty"}
          /\ l2[k].st \in {"invalid", "clean", "dirty"}
      BY <1>0 DEF TypeOK, Copy
    <3>2. View(k)' = ram[k]
      BY <2>1 DEF View, Cacheable
    <3>3. Seen2(k).live = ram[k].live
      BY <1>0, <2>1, <3>1 DEF Seen2, CopyInv, FlushInv, Flushed2
    <3>4. Seen1(k).live = ram[k].live
      BY <1>0, <2>1, <3>1, <3>3 DEF Seen1, CopyInv, FlushInv, Flushed1
    <3> QED BY <3>2, <3>4 DEF View
  <2> QED BY <1>1, <2>1, <2>2
<1>10. CASE InvalidateLine
  <2>1. "C" \notin cr /\ UNCHANGED <<cr, table, ram, stored>>
    BY <1>0, <1>10 DEF InvalidateLine, PhaseInv
  <2>2. \A k \in Line : View(k)' = View(k)
    BY <2>1 DEF View, Cacheable
  <2> QED BY <1>1, <2>1, <2>2
<1>11. CASE FillData
  <2>1. PICK l \in Line :
           /\ Cacheable(l) /\ ram' = ram
           /\ \A k \in Line : k # l => l1'[k] = l1[k] /\ l2'[k] = l2[k]
           /\ \/ l1[l].st = "invalid" /\ l1'[l] = Clean(Seen2(l)) /\ l2'[l] = l2[l]
              \/ l2[l].st = "invalid" /\ l2'[l] = Clean(ram[l]) /\ l1'[l] = l1[l]
    BY <1>0, <1>11, FillEffect
  <2>2. UNCHANGED <<cr, table, stored>>
    BY <1>11 DEF FillData
  <2>3. \A k \in Line : Seen2(k)' = Seen2(k)
    BY <2>1, Kinds DEF Seen2
  <2>4. \A k \in Line : Seen1(k)' = Seen1(k)
    BY <2>1, <2>3, Kinds DEF Seen1
  <2>5. \A k \in Line : View(k)' = View(k)
    BY <2>1, <2>2, <2>4 DEF View, Cacheable
  <2> QED BY <1>1, <2>2, <2>5
<1>12. CASE EnableI
  BY <1>2, <1>12 DEF EnableI
<1>13. CASE CallCleanup \/ CacheDisable \/ FlushLevel \/ InvalidateLevel
  BY <1>2, <1>13 DEF CallCleanup, CacheDisable, FlushLevel, InvalidateLevel
<1>14. CASE ICacheStep
  BY <1>2, <1>14 DEF ICacheStep, ICacheOff
<1>15. CASE FillInstructions
  BY <1>2, <1>15 DEF FillInstructions
<1>16. CASE UNCHANGED vars
  BY <1>2, <1>16 DEF vars
<1> QED
  BY <1>3, <1>4, <1>5, <1>6, <1>7, <1>8, <1>9, <1>10, <1>11, <1>12, <1>13, <1>14,
     <1>15, <1>16 DEF Next, Program, Processor

-----------------------------------------------------------------------------
(* The theorems. *)

\* The invariant is inductive: it holds in every reachable state, whatever the
\* sizes, places and builds.
THEOREM Inductive == Spec => []IInv
<1>1. IInv /\ [Next]_vars => IInv'
  BY NextType, NextPhase, NextEmpty, NextCopy, NextFlush, NextLost, NextCoherent DEF IInv
<1> QED BY InitInv, <1>1, PTL DEF Spec

\* cleanup_before_linux, in whatever state it is called, hands over with the
\* MMU and both caches off and empty.
THEOREM KernelEnteredClean == Spec => []EntryClean
<1>1. IInv => EntryClean
  BY DEF IInv, TypeOK, PhaseInv, EmptyInv, Empty, EntryClean
<1> QED BY <1>1, Inductive, PTL

\* dram_bank_mmu_setup leaving out page_table's section keeps it uncached.
THEOREM PageTableUncached == Spec => []TableUncached
<1>1. IInv => TableUncached
  BY CachesAssumption DEF IInv, CopyInv, TableUncached
<1> QED BY <1>1, Inductive, PTL

\* invalidate_dcache_all discards no dirty line but the stack's.
THEOREM DiscardsNothing == Spec => []NothingLost
<1>1. IInv => NothingLost
  BY DEF IInv
<1> QED BY <1>1, Inductive, PTL

\* Memory behind the caches implements plain memory.
THEOREM CachesTransparent == Spec => Transparent
<1>1. ASSUME IInv PROVE [l \in Line |-> View(l).live] = stored
  BY <1>1 DEF IInv, TypeOK, Coherent
<1>2. Init => Plain!Init
  BY <1>1, InitInv DEF IInv, TypeOK, Plain!Init
<1>3. ASSUME IInv, IInv', [Next]_vars
      PROVE  [Plain!Next]_<<stored, [l \in Line |-> View(l).live]>>
  <2>1. [l \in Line |-> View(l).live] = stored
    BY <1>1, <1>3
  <2>2. [l \in Line |-> View(l).live]' = stored'
    BY <1>3 DEF IInv, TypeOK, Coherent
  <2>3. CASE Store
    <3>1. PICK l \in Line, w \in Word : stored' = [stored EXCEPT ![l] = w]
      BY <2>3, CachesAssumption DEF Store
    <3>2. Plain!Store(l, w)
      BY <2>1, <2>2, <3>1 DEF Plain!Store
    <3> QED BY <3>2 DEF Plain!Next
  <2>4. CASE ~Store
    <3>1. stored' = stored
      BY <1>3, <2>4 DEF Next, Program, Processor, EnableI, MmuSetup, EnableC, Spill,
         CallCleanup, ICacheStep, CacheDisable, FlushLine, FlushLevel, SetCr,
         InvalidateLine, InvalidateLevel, FillData, Evict, FillInstructions, vars
    <3> QED BY <2>1, <2>2, <3>1
  <2> QED BY <2>3, <2>4
<1> QED
  BY <1>2, <1>3, Inductive, PTL DEF Spec, Transparent, Plain!Spec
=============================================================================
