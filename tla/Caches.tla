------------------------------- MODULE Caches -------------------------------
(***************************************************************************)
(* Caches and MMU around the LZMA decoder (src/cpu.c): enable_caches, the  *)
(* program running with them on, cleanup_before_linux and, with everything *)
(* off, cleanup_before_linux once more before the kernel is entered.       *)
(*                                                                         *)
(* The processor is an external actor: while a cache is on it may fill and *)
(* evict lines whenever it likes.  Memory is one representative line for   *)
(* each 1 MB section of the page table.  A line has two words: `live' is   *)
(* data somebody will read again, `dead' stands for stack slots of         *)
(* functions that return before the data cache is switched off.            *)
(***************************************************************************)
EXTENDS Integers

CONSTANTS
  Sections,      \* number of 1 MB sections (4096 in the code)
  STACK,         \* section of the stack
  PAGE_TABLE,    \* section of page_table
  Ahead,         \* sections mapped beyond the compressed kernel (32)
  Sources,       \* sections the compressed kernel may start in
  Stored,        \* sections the program stores to
  Word,          \* values of a word
  Levels,        \* cache levels v7_maint_dcache_all visits (7)
  Clidr,         \* cache type of each level, as CLIDR gives it
  Builds         \* what compiler and processor do: see below

Line == 0 .. Sections - 1

NO_CACHE == 0  INSTRUCTION_ONLY == 1  DATA_ONLY == 2
INSTRUCTION_DATA == 3  UNIFIED == 4

(***************************************************************************)
(* Both SoCs have split level 1 caches and a unified level 2.              *)
(*                                                                         *)
(* A build either never stores to the stack while flush_dcache_all runs    *)
(* (~spills, what the comment in cleanup_before_linux relies on), or runs  *)
(* on a processor whose data cache writes nothing back while it is off     *)
(* (~late).  RouterBOOT hands over with data caches empty and off.         *)
(***************************************************************************)
ASSUME CachesAssumption ==
  /\ Sections \in Nat /\ Ahead \in Nat /\ Levels \in Nat
  /\ {STACK, PAGE_TABLE} \subseteq Line /\ STACK # PAGE_TABLE
  /\ Stored \subseteq Line \ {PAGE_TABLE} /\ Sources \subseteq Line
  /\ Levels >= 2 /\ Clidr \in [0 .. Levels - 1 -> 0 .. 4]
  /\ Clidr[0] = INSTRUCTION_DATA /\ Clidr[1] = UNIFIED
  /\ \A k \in 2 .. Levels - 1 : Clidr[k] = NO_CACHE
  /\ Builds \subseteq [spills : BOOLEAN, late : BOOLEAN]
  /\ \A b \in Builds : ~(b.spills /\ b.late)
  /\ 0 \in Word

VARIABLES
  pc,            \* where the program is
  back,          \* where cleanup_before_linux returns to
  cr,            \* bits set in SCTLR
  range,         \* bi_dram_0_start, bi_dram_0_start + bi_dram_0_size
  table,         \* the sections page_table maps cacheable
  level, todo,   \* level and lines left in the set/way loops
  ram, l1, l2,   \* memory, data side of level 1, level 2
  ic,            \* the lines the instruction cache holds
  build,
  stored         \* history: what the program last stored in each live word

prog   == <<pc, back, range, table>>
loop   == <<level, todo>>
caches == <<ram, l1, l2>>
env    == <<ic, build>>
vars   == <<prog, loop, cr, caches, env, stored>>

-----------------------------------------------------------------------------
(* The memory system. *)

Content == [live : Word, dead : Word]
Blank   == [live |-> 0, dead |-> 0]
Copy    == [st : {"invalid", "clean", "dirty"}, v : Content]
Invalid == [st |-> "invalid", v |-> Blank]
Clean(v) == [st |-> "clean", v |-> v]
Dirty(v) == [st |-> "dirty", v |-> v]

\* Data accesses to line l go through the caches.
Cacheable(l) == {"C", "M"} \subseteq cr /\ l \in table

\* What level 2, level 1 and the program find at line l.
Seen2(l) == IF l2[l].st # "invalid" THEN l2[l].v ELSE ram[l]
Seen1(l) == IF l1[l].st # "invalid" THEN l1[l].v ELSE Seen2(l)
View(l)  == IF Cacheable(l) THEN Seen1(l) ELSE ram[l]

\* The program stores content v at line l.
Write(l, v) ==
  IF Cacheable(l)
  THEN l1' = [l1 EXCEPT ![l] = Dirty(v)] /\ UNCHANGED <<ram, l2>>
  ELSE ram' = [ram EXCEPT ![l] = v] /\ UNCHANGED <<l1, l2>>

\* Line l leaves level 1, level 2, written back if need be.
WriteBack1(l) ==
  /\ l1' = [l1 EXCEPT ![l] = Invalid]
  /\ l2' = IF l1[l].st = "dirty" THEN [l2 EXCEPT ![l] = Dirty(l1[l].v)] ELSE l2
  /\ ram' = ram

WriteBack2(l) ==
  /\ l2' = [l2 EXCEPT ![l] = Invalid]
  /\ ram' = IF l2[l].st = "dirty" THEN [ram EXCEPT ![l] = l2[l].v] ELSE ram
  /\ l1' = l1

\* What the processor does by itself: speculative fills and evictions.
FillData ==
  /\ \E l \in Line :
       /\ Cacheable(l)
       /\ \/ l1[l].st = "invalid" /\ l1' = [l1 EXCEPT ![l] = Clean(Seen2(l))] /\ l2' = l2
          \/ l2[l].st = "invalid" /\ l2' = [l2 EXCEPT ![l] = Clean(ram[l])] /\ l1' = l1
  /\ UNCHANGED <<prog, loop, cr, ram, env, stored>>

Evict ==
  /\ "C" \in cr \/ build.late
  /\ \E l \in Line : WriteBack1(l) \/ WriteBack2(l)
  /\ UNCHANGED <<prog, loop, cr, env, stored>>

FillInstructions ==
  /\ "I" \in cr
  /\ \E l \in Line \ {PAGE_TABLE} : ic' = ic \cup {l}
  /\ UNCHANGED <<prog, loop, cr, caches, build, stored>>

-----------------------------------------------------------------------------
(* enable_caches *)

\* bi_dram_0_set_ranges, then cache_enable(CR_I).
EnableI ==
  /\ pc = "boot" /\ pc' = "mmu"
  /\ \E src \in Sources : \E dst \in 0 .. src - 1 :
       range' = [start |-> dst, end |-> src + Ahead]
  /\ cr' = cr \cup {"I"}
  /\ UNCHANGED <<back, table, loop, caches, env, stored>>

MappedNoSkip(s) == s \in range.start .. range.end - 1

\* dram_bank_mmu_setup: is section s given CACHE_SETUP?
Mapped(s) == s \in range.start .. range.end - 1 /\ s # PAGE_TABLE

\* cache_enable(CR_C), first half: mmu_setup unless the MMU is on.
MmuSetup ==
  /\ pc = "mmu" /\ pc' = "on"
  /\ IF "M" \in cr THEN UNCHANGED <<table, cr>>
     ELSE table' = {s \in Line : Mapped(s)} /\ cr' = cr \cup {"M"}
  /\ UNCHANGED <<back, range, loop, caches, env, stored>>

\* Second half: CR_C.
EnableC ==
  /\ pc = "on" /\ pc' = "run"
  /\ cr' = cr \cup {"C"}
  /\ UNCHANGED <<back, range, table, loop, caches, env, stored>>

-----------------------------------------------------------------------------
(* The program's own stores. *)

\* lzma_gogogo, my_memcpy, the stack; from "kernel" on, the kernel.  Returning
\* from cache_disable and calling invalidate_dcache_all uses the stack too.
Store ==
  /\ \E l \in Stored, w \in Word :
       /\ pc \in {"boot", "run", "after", "kernel"} \/ (pc = "inval" /\ l = STACK)
       /\ Write(l, [View(l) EXCEPT !.live = w])
       /\ stored' = [stored EXCEPT ![l] = w]
  /\ UNCHANGED <<prog, loop, cr, env>>

\* A function below flush_dcache_all uses its stack frame.
Spill ==
  /\ pc \in {"flush", "set_cr"} /\ build.spills
  /\ \E w \in Word : Write(STACK, [View(STACK) EXCEPT !.dead = w])
  /\ UNCHANGED <<prog, loop, cr, env, stored>>

-----------------------------------------------------------------------------
(* cleanup_before_linux *)

\* Called after lzma_gogogo (or instead of it), and again to enter the kernel.
CallCleanup ==
  /\ \/ pc = "boot" /\ back' \in {"after", "kernel"}
     \/ pc = "run" /\ back' = "after"
     \/ pc = "after" /\ back' = "kernel"
  /\ pc' = "icache1"
  /\ UNCHANGED <<range, table, loop, cr, caches, env, stored>>

ICacheSwapped(step) ==
  IF step = 2 THEN cr' = cr \ {"I"} /\ ic' = ic ELSE ic' = {} /\ cr' = cr

\* icache_disable, then invalidate_icache_all.
ICacheOff(step) ==
  IF step = 1 THEN cr' = cr \ {"I"} /\ ic' = ic ELSE ic' = {} /\ cr' = cr

ICacheStep ==
  /\ \/ pc = "icache1" /\ pc' = "icache2" /\ ICacheOff(1)
     \/ pc = "icache2" /\ pc' = "dcache" /\ ICacheOff(2)
  /\ UNCHANGED <<back, range, table, loop, caches, build, stored>>

DisableFirst ==
  /\ pc = "dcache"
  /\ pc' = IF "C" \in cr THEN "set_cr" ELSE "inval"
  /\ level' = 0 /\ todo' = Line
  /\ UNCHANGED <<back, range, table, cr, caches, env, stored>>

\* cache_disable(CR_C): nothing to flush if the data cache is off already.
CacheDisable ==
  /\ pc = "dcache"
  /\ pc' = IF "C" \in cr THEN "flush" ELSE "inval"
  /\ level' = 0 /\ todo' = Line
  /\ UNCHANGED <<back, range, table, cr, caches, env, stored>>

HasDataSplitOnly(type) == type \in {DATA_ONLY, INSTRUCTION_DATA}

\* v7_maint_dcache_all: does a level of this type hold data?
HasData(type) == type \in {DATA_ONLY, INSTRUCTION_DATA, UNIFIED}

LevelsLeft(k) == k < Levels

\* The next level, or on to `next' after the last one.
NextLevel(next) ==
  /\ HasData(Clidr[level]) => todo = {}
  /\ todo' = Line
  /\ IF LevelsLeft(level + 1) THEN level' = level + 1 /\ pc' = pc
                              ELSE level' = 0 /\ pc' = next

\* v7_clean_inval_dcache_level_setway, a line at a time.
FlushLine ==
  /\ pc = "flush" /\ HasData(Clidr[level])
  /\ \E l \in todo :
       /\ todo' = todo \ {l}
       /\ \/ level = 0 /\ WriteBack1(l)
          \/ level = 1 /\ WriteBack2(l)
  /\ UNCHANGED <<prog, level, cr, env, stored>>

FlushLevel ==
  /\ pc = "flush" /\ NextLevel("set_cr")
  /\ UNCHANGED <<back, range, table, cr, caches, env, stored>>

\* The end of cache_disable(CR_C): data cache and MMU off.
SetCr ==
  /\ pc = "set_cr" /\ pc' = "inval"
  /\ cr' = cr \ {"C", "M"}
  /\ UNCHANGED <<back, range, table, loop, caches, env, stored>>

\* invalidate_dcache_all: v7_inval_dcache_level_setway, a line at a time.
InvalidateLine ==
  /\ pc = "inval" /\ HasData(Clidr[level])
  /\ \E l \in todo :
       /\ todo' = todo \ {l}
       /\ \/ level = 0 /\ l1' = [l1 EXCEPT ![l] = Invalid] /\ l2' = l2
          \/ level = 1 /\ l2' = [l2 EXCEPT ![l] = Invalid] /\ l1' = l1
  /\ UNCHANGED <<prog, level, cr, ram, env, stored>>

InvalidateLevel ==
  /\ pc = "inval" /\ NextLevel(back)
  /\ UNCHANGED <<back, range, table, cr, caches, env, stored>>

-----------------------------------------------------------------------------
Init ==
  /\ pc = "boot" /\ back = "after"
  /\ cr \in {{}, {"I"}}
  /\ range = [start |-> 0, end |-> 0] /\ table = {}
  /\ level = 0 /\ todo = Line
  /\ ram = [l \in Line |-> Blank]
  /\ l1 = [l \in Line |-> Invalid] /\ l2 = l1
  /\ ic = {}
  /\ build \in Builds
  /\ stored = [l \in Line |-> 0]

Processor == FillData \/ Evict \/ FillInstructions

Program ==
  \/ EnableI \/ MmuSetup \/ EnableC \/ Store \/ Spill
  \/ CallCleanup \/ ICacheStep \/ CacheDisable \/ FlushLine \/ FlushLevel
  \/ SetCr \/ InvalidateLine \/ InvalidateLevel

Next == Program \/ Processor

Spec == Init /\ [][Next]_vars

-----------------------------------------------------------------------------
TypeOK ==
  /\ pc \in {"boot", "mmu", "on", "run", "icache1", "icache2", "dcache", "flush",
            "set_cr", "inval", "after", "kernel"}
  /\ back \in {"after", "kernel"}
  /\ cr \subseteq {"I", "C", "M"}
  /\ range \in [start : Nat, end : Nat] /\ table \subseteq Line
  /\ level \in 0 .. Levels - 1 /\ todo \subseteq Line
  /\ ram \in [Line -> Content] /\ l1 \in [Line -> Copy] /\ l2 \in [Line -> Copy]
  /\ ic \subseteq Line
  /\ build \in Builds /\ stored \in [Line -> Word]

\* The caches are transparent: no switching on or off, no fill, eviction,
\* flush or invalidation, in whatever order they come, changes what the
\* program finds where it stored something it still needs.
Plain == INSTANCE PlainMemory WITH found <- [l \in Line |-> View(l).live]
Transparent == Plain!Spec

\* The kernel is entered with MMU and caches off and nothing left in any of
\* them that could later shadow or overwrite memory.
EntryClean ==
  pc = "kernel" =>
    /\ cr = {} /\ ic = {}
    /\ \A l \in Line : l1[l] = Invalid /\ l2[l] = Invalid

\* "This region of memory should not be inside the caching area": no cache
\* holds a line of the page table.
TableUncached == l1[PAGE_TABLE].st = "invalid" /\ l2[PAGE_TABLE].st = "invalid"

\* What the final invalidation discards: no dirty line at all if the flush uses
\* no stack, and otherwise only the stack's.
NothingLost ==
  pc \in {"set_cr", "inval"} =>
    \A l \in Line :
      l1[l].st = "dirty" \/ l2[l].st = "dirty" => build.spills /\ l = STACK

-----------------------------------------------------------------------------
(* The inductive invariant behind these properties. *)

Empty == \A l \in Line : l1[l] = Invalid /\ l2[l] = Invalid

\* Which bits are set where.
PhaseInv ==
  /\ "M" \in cr => pc \in {"on", "run", "icache1", "icache2", "dcache", "flush", "set_cr"}
  /\ "C" \in cr => "M" \in cr
  /\ pc = "on" => "M" \in cr
  /\ pc \in {"run", "flush", "set_cr"} => {"C", "M"} \subseteq cr
  /\ pc \in {"icache2", "dcache", "flush", "set_cr", "inval", "after", "kernel"} => "I" \notin cr
  /\ pc \in {"dcache", "flush", "set_cr", "inval", "after", "kernel"} => ic = {}
  /\ "M" \in cr /\ pc # "on" => "C" \in cr

\* The caches hold nothing unless they are on, or are being invalidated.
EmptyInv ==
  /\ "C" \notin cr /\ pc # "inval" => Empty
  /\ pc = "inval" /\ level > 0 => \A l \in Line : l1[l] = Invalid
  /\ pc = "inval" /\ level > 1 => \A l \in Line : l2[l] = Invalid
  /\ pc = "inval" /\ level = 0 => \A l \in Line \ todo : l1[l] = Invalid
  /\ pc = "inval" /\ level = 1 => \A l \in Line \ todo : l2[l] = Invalid

\* Only what the page table maps is cached, and a clean copy is a copy.
CopyInv ==
  /\ PAGE_TABLE \notin table
  /\ \A l \in Line : l1[l].st # "invalid" \/ l2[l].st # "invalid" => l \in table
  /\ "C" \in cr => \A l \in Line :
       /\ l1[l].st = "clean" => l1[l].v = Seen2(l)
       /\ l2[l].st = "clean" => l2[l].v = ram[l]

\* A dirty line that has been flushed already is the stack's, and its live
\* word is also below.
Flushed1(l) ==
  l1[l].st = "dirty" => build.spills /\ l = STACK /\ l1[l].v.live = Seen2(l).live
Flushed2(l) ==
  l2[l].st = "dirty" => build.spills /\ l = STACK /\ l2[l].v.live = ram[l].live

FlushInv ==
  /\ pc = "flush" /\ level = 0 => \A l \in Line \ todo : Flushed1(l)
  /\ pc = "flush" /\ level > 0 => \A l \in Line : Flushed1(l)
  /\ pc = "flush" /\ level = 1 => \A l \in Line \ todo : Flushed2(l)
  /\ pc = "flush" /\ level > 1 => \A l \in Line : Flushed2(l)
  /\ pc = "set_cr" => level = 0 /\ todo = Line /\ \A l \in Line : Flushed1(l) /\ Flushed2(l)

Coherent == \A l \in Line : View(l).live = stored[l]

IInv ==
  /\ TypeOK /\ PhaseInv /\ EmptyInv /\ CopyInv /\ FlushInv
  /\ NothingLost /\ Coherent
=============================================================================
