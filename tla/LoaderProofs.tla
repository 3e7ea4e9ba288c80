---------------------------- MODULE LoaderProofs ----------------------------
(***************************************************************************)
(* Proofs about Loader, for every memory layout and every set of images    *)
(* that LoaderAssumption and WatchdogAssumption admit.                     *)
(***************************************************************************)
EXTENDS Loader, TLAPS

(***************************************************************************)
(* Facts about the constants.                                              *)
(***************************************************************************)

\* The fields of the image have their types and the memory map its order.
LEMMA Layout ==
  ASSUME NEW im \in Images
  PROVE  /\ ImageOK(im) /\ im.len < U32 /\ im.bodyLen < U32
         /\ RamTop \in Nat /\ TEXT_BASE \in Nat \ {0} /\ PAGE_TABLE \in Nat
         /\ HeadPayload \in Nat /\ U32 \in Nat \ {0}
         /\ HeadPayload + im.len < TEXT_BASE - 1
         /\ TEXT_BASE + im.len + 2 < PAGE_TABLE
         /\ PAGE_TABLE < RamTop
BY LoaderAssumption

\* A bite time is a natural number of ticks.
LEMMA TicksNat == ASSUME NEW p \in Nat PROVE Ticks(p) \in Nat
BY WatchdogAssumption DEF Ticks

\* What RouterBOOT may hand over is well typed.
LEMMA HandedOverType ==
  \A cpu \in CPU_TYPES : \A w \in WatchdogHandedOver(cpu) :
    w \in [cpu : CPU_TYPES, en : BOOLEAN, route : BOOLEAN, left : Nat]
<1>1. \A cpu \in CPU_TYPES :
        WatchdogReset(cpu) \in [cpu : CPU_TYPES, en : BOOLEAN, route : BOOLEAN, left : Nat]
  BY DEF WatchdogReset
<1>2. ASSUME NEW w \in [cpu : CPU_TYPES, en : BOOLEAN, route : BOOLEAN, left : Nat]
      PROVE  [w EXCEPT !.en = TRUE] \in [cpu : CPU_TYPES, en : BOOLEAN, route : BOOLEAN, left : Nat]
  OBVIOUS
<1> QED BY <1>1, <1>2 DEF WatchdogHandedOver

\* What watchdog_setup leaves is well typed and armed.
LEMMA SetupArms ==
  ASSUME NEW p \in Nat, WatchdogTypeOK, WatchdogSetup(p)
  PROVE  WatchdogTypeOK' /\ Armed' /\ wdt'.left = Ticks(p)
BY TicksNat DEF WatchdogSetup, WatchdogTypeOK, Armed

\* A store that hits RAM leaves a well-typed memory.
LEMMA StoreType ==
  ASSUME TypeOK, NEW a \in Int, NEW v \in Tags \X Nat, NEW next, Store(a, v, next)
  PROVE  mem' \in [Loc -> Tags \X Nat] /\ pc' \in {next, "wild", "abort"}
BY DEF TypeOK, Store

\* The same for a copied cell.
LEMMA MoveType ==
  ASSUME TypeOK, NEW from \in Int, NEW to \in Int, NEW next, Move(from, to, next)
  PROVE  mem' \in [Loc -> Tags \X Nat] /\ pc' \in {next, "wild", "abort"}
<1>1. CASE from \in Loc
  BY <1>1, StoreType DEF Move, TypeOK
<1>2. CASE from \notin Loc
  BY <1>2 DEF Move, TypeOK
<1> QED BY <1>1, <1>2

\* A store into RAM that hits nothing vital changes that cell and goes on.
LEMMA StoreWorks ==
  ASSUME TypeOK, NEW a \in Loc, NEW v, NEW next, Store(a, v, next),
         a \notin Vital(img)
  PROVE  /\ pc' = next /\ mem'[a] = v
         /\ \A b \in Loc \ {a} : mem'[b] = mem[b]
BY DEF TypeOK, Store

-----------------------------------------------------------------------------
(* Type correctness. *)

\* The initial states are well typed.
LEMMA InitType == Init => TypeOK
BY LoaderAssumption, WatchdogAssumption
   DEF Init, TypeOK, WatchdogTypeOK, WatchdogReset, Running, Tags, Junk

\* Giving up: the watchdog is set for 5 seconds, the result is recorded.
LEMMA FailType ==
  ASSUME TypeOK, NEW r \in -100 .. 0, Fail(r)
  PROVE  WatchdogTypeOK' /\ pc' = "spin" /\ ret' \in -100 .. 0
BY SetupArms DEF Fail, TypeOK

\* Every action of the loader keeps TypeOK.
LEMMA LoaderType == TypeOK /\ LoaderStep => TypeOK'
<1> SUFFICES ASSUME TypeOK, LoaderStep PROVE TypeOK'
  OBVIOUS
<1> USE DEF boot, regs, results
<1>0. /\ img \in Images
      /\ ImageOK(img) /\ TEXT_BASE \in Nat \ {0} /\ U32 \in Nat /\ RamTop \in Nat
      /\ PAGE_TABLE \in Nat /\ HeadPayload \in Nat
  BY Layout DEF TypeOK
<1>1. CASE HeadWatchdog
  <2>1. WatchdogTypeOK'
    BY <1>1, SetupArms DEF HeadWatchdog, WatchdogResetup, WDT_RESETUP_PERIOD, TypeOK
  <2> QED BY <1>1, <2>1 DEF HeadWatchdog, TypeOK, Running
<1>2. CASE HeadCopy
  <2>1. Read(HeadPayload + i) \in Tags \X Nat
    BY DEF Read, TypeOK, Junk, Tags
  <2>2. mem' \in [Loc -> Tags \X Nat]
    BY <1>2, <2>1 DEF HeadCopy, TypeOK
  <2>3. pc' \in {"copy", "start"} /\ i' \in Nat
    BY <1>2 DEF HeadCopy, TypeOK
  <2> QED BY <1>2, <2>2, <2>3 DEF HeadCopy, TypeOK, Running, WatchdogTypeOK
<1>3. CASE Start
  <2>1. Bss(img) \in Nat
    BY <1>0 DEF Bss, ImageBase, ImageOK
  <2> QED BY <1>3, <2>1 DEF Start, TypeOK, Running, WatchdogTypeOK, BssCell, Tags
<1>4. CASE LoaderMain
  <2>1. WatchdogTypeOK' /\ ret' \in -100 .. 0 /\ pc' \in {"spin", "legacy", "fit"}
    BY <1>4, FailType DEF LoaderMain, TypeOK, WatchdogTypeOK
  <2> QED BY <1>4, <2>1 DEF LoaderMain, TypeOK, Running
<1>5. CASE LegacyCheck
  <2>1. WatchdogTypeOK' /\ ret' \in -100 .. 0 /\ pc' \in {"spin", "lcopy"}
    BY <1>5, FailType DEF LegacyCheck, TypeOK, WatchdogTypeOK
  <2>2. UNCHANGED <<mem, cr, boot, regs, lz, i>>
    BY <1>5 DEF LegacyCheck
  <2>3. pc' \in Running \cup {"spin"}
    BY <2>1 DEF Running
  <2>4. /\ mem' \in [Loc -> Tags \X Nat] /\ cr' \subseteq {"I", "C", "M"}
        /\ img' \in Images /\ r_arch' \in {IPQ_ARCH, OtherArch}
        /\ kernel_entry' \in Nat /\ kernel_p2' \in Nat /\ kernel_p1' \in {IPQ_ARCH, OtherArch}
        /\ lz' \in -2 .. 0 /\ i' \in Nat
    BY <2>2 DEF TypeOK
  <2> QED BY <2>1, <2>3, <2>4 DEF TypeOK
<1>6. CASE LegacyCopy
  <2>1. ImageBase + HDR + i \in Int /\ img.load + i \in Int
    BY <1>0 DEF TypeOK, ImageOK, ImageBase, HDR
  <2>2. mem' \in [Loc -> Tags \X Nat] /\ pc' \in {"lcopy", "wild", "abort"}
    BY <1>6, <2>1, MoveType DEF LegacyCopy
  <2>3. WatchdogTypeOK'
    BY <1>6 DEF LegacyCopy, TypeOK, WatchdogTypeOK
  <2> QED BY <1>6, <2>2, <2>3 DEF LegacyCopy, TypeOK, Running
<1>7. CASE LegacyDone
  BY <1>0, <1>7 DEF LegacyDone, TypeOK, Running, WatchdogTypeOK, ImageOK
<1>8. CASE FitCheck
  <2>1. \A j \in FirstMissing(img) : PropError(j) \in -100 .. 0
    BY DEF FirstMissing, PropError
  <2>2. WatchdogTypeOK' /\ ret' \in -100 .. 0 /\ pc' \in {"spin", "caches", "cleanup"}
    BY <1>8, <2>1, FailType, SetupArms DEF FitCheck, TypeOK
  <2> QED BY <1>8, <2>2 DEF FitCheck, TypeOK, Running
<1>9. CASE EnableCaches
  BY <1>0, <1>9 DEF EnableCaches, TypeOK, Running, WatchdogTypeOK, Table, Tags
<1>10. CASE LzmaBegin
  BY <1>10 DEF LzmaBegin, TypeOK, Running, WatchdogTypeOK, Probs, Tags
<1>11. CASE LzmaDecode
  <2>1. (IF InputIntact(i) THEN Kernel(i) ELSE Junk) \in Tags \X Nat
    BY DEF Kernel, Junk, Tags, TypeOK
  <2>2. img.load + i \in Int
    BY <1>0 DEF TypeOK, ImageOK
  <2>3. mem' \in [Loc -> Tags \X Nat] /\ pc' \in {"decode", "wild", "abort"}
    BY <1>11, <2>1, <2>2, StoreType DEF LzmaDecode
  <2> QED BY <1>11, <2>3 DEF LzmaDecode, TypeOK, Running, WatchdogTypeOK
<1>12. CASE LzmaError
  BY <1>12 DEF LzmaError, TypeOK, Running, WatchdogTypeOK
<1>13. CASE LzmaDone
  BY <1>13 DEF LzmaDone, TypeOK, Running, WatchdogTypeOK
<1>14. CASE FitCleanup
  BY <1>14 DEF FitCleanup, CleanupBeforeLinux, TypeOK, Running, WatchdogTypeOK
<1>15. CASE DtbCopy
  <2>1. ImageBase + img.dtbAt + i \in Int /\ Workspace(img) + i \in Int
    <3>1. i \in Nat
      BY DEF TypeOK
    <3>2. TEXT_BASE \in Nat /\ img.len \in Nat /\ img.dtbAt \in Nat
      BY <1>0 DEF ImageOK
    <3> QED BY <3>1, <3>2 DEF Workspace, Bss, ImageBase
  <2>2. mem' \in [Loc -> Tags \X Nat] /\ pc' \in {"dtb", "wild", "abort"}
    BY <1>15, <2>1, MoveType DEF DtbCopy
  <2> QED BY <1>15, <2>2 DEF DtbCopy, TypeOK, Running, WatchdogTypeOK
<1>16. CASE FitDone
  <2>1. img.ep \in Nat /\ Workspace(img) \in Nat
    BY <1>0 DEF Workspace, Bss, ImageBase, ImageOK
  <2> QED BY <1>16, <2>1 DEF FitDone, TypeOK, Running, WatchdogTypeOK
<1>17. CASE Enter
  BY <1>17 DEF Enter, CleanupBeforeLinux, TypeOK, Running, WatchdogTypeOK
<1> QED
  BY <1>1, <1>2, <1>3, <1>4, <1>5, <1>6, <1>7, <1>8, <1>9, <1>10, <1>11, <1>12,
     <1>13, <1>14, <1>15, <1>16, <1>17 DEF LoaderStep

\* So does everything the loader's environment does.
LEMMA EnvironmentType == TypeOK /\ Environment => TypeOK'
<1> SUFFICES ASSUME TypeOK, Environment PROVE TypeOK'
  OBVIOUS
<1> USE DEF boot, regs, results
<1>1. CASE RouterBOOT
  <2>1. WatchdogTypeOK'
    <3>1. wdt.cpu \in CPU_TYPES /\ wdt' \in WatchdogHandedOver(wdt.cpu)
      BY <1>1 DEF RouterBOOT, TypeOK, WatchdogTypeOK
    <3> QED BY <3>1, HandedOverType DEF WatchdogTypeOK
  <2>2. /\ img' \in Images /\ r_arch' \in {IPQ_ARCH, OtherArch} /\ pc' = "head"
        /\ cr' \in {{}, {"I"}}
        /\ UNCHANGED <<regs, results, i>>
    BY <1>1 DEF RouterBOOT
  <2>3. ASSUME NEW a \in Loc, a - HeadPayload \in 0 .. img'.len
        PROVE  Payload(a - HeadPayload) \in Tags \X Nat
    <3>1. ImageOK(img')
      BY <2>2, Layout
    <3>2. PICK k \in Nat : k = a - HeadPayload
      BY <2>3, <3>1 DEF ImageOK
    <3>3. k = 0 \/ k - 1 \in Nat
      BY <3>2
    <3>4. Payload(k) \in Tags \X Nat
      BY <3>2, <3>3 DEF Payload, Code, Img, Tags
    <3> QED BY <3>2, <3>4
  <2>4. mem' \in [Loc -> Tags \X Nat]
    BY <1>1, <2>3 DEF RouterBOOT, Junk, Tags
  <2> QED BY <2>1, <2>2, <2>4 DEF TypeOK
<1>2. CASE Tick
  BY <1>2 DEF Tick, Countdown, TypeOK, WatchdogTypeOK
<1>3. ASSUME Off PROVE TypeOK'
  BY <1>3 DEF Off, WatchdogReset, TypeOK, WatchdogTypeOK
<1>4. CASE Bite
  BY <1>3, <1>4 DEF Bite
<1>5. CASE Exception
  BY <1>5 DEF Exception, TypeOK, WatchdogTypeOK
<1>6. CASE KernelTakesOver
  BY <1>6 DEF KernelTakesOver, WatchdogReset, TypeOK, WatchdogTypeOK
<1>7. CASE KernelCrashes
  BY <1>7 DEF KernelCrashes, TypeOK, WatchdogTypeOK
<1>8. CASE ResetCpu
  <2>1. ASSUME wdt' = [wdt EXCEPT !.en = TRUE, !.route = TRUE, !.left = 0], pc' = "spin",
               UNCHANGED <<mem, cr, boot, regs, results, i>>
        PROVE  TypeOK'
    BY <2>1 DEF TypeOK, WatchdogTypeOK
  <2> QED BY <1>3, <1>8, <2>1 DEF ResetCpu
<1>9. CASE LinuxReboots
  BY <1>3, <1>9 DEF LinuxReboots
<1> QED BY <1>1, <1>2, <1>4, <1>5, <1>6, <1>7, <1>8, <1>9 DEF Environment

\* So does every step.
LEMMA NextType == TypeOK /\ [Next]_vars => TypeOK'
<1>1. ASSUME TypeOK, UNCHANGED vars PROVE TypeOK'
  BY <1>1 DEF vars, TypeOK, WatchdogTypeOK
<1> QED BY <1>1, LoaderType, EnvironmentType DEF Next

\* The type invariant holds in every reachable state, whatever the memory map
\* and the images: no handler returns a value outside -100 .. 0 and the copy
\* loops change only RAM.
THEOREM TypeCorrect == Spec => []TypeOK
BY InitType, NextType, PTL DEF Spec

-----------------------------------------------------------------------------
(* The watchdog: HangArmed and RebootIn5. *)

WatchInv == HangArmed /\ RebootIn5

\* Giving up leaves the watchdog armed, with at most 5 seconds to go.
LEMMA FailWatch == ASSUME TypeOK, NEW r, Fail(r) PROVE WatchInv'
<1>1. pc' = "spin" /\ Armed' /\ wdt'.left = Ticks(5)
  BY SetupArms DEF Fail, TypeOK
<1>2. Ticks(5) \in Nat
  BY TicksNat
<1> QED BY <1>1, <1>2 DEF WatchInv, HangArmed, RebootIn5

\* A step outside the dead loop that sets the watchdog up again.
LEMMA SetupWatch ==
  ASSUME TypeOK, NEW p \in Nat, WatchdogSetup(p), pc' # "spin" PROVE WatchInv'
BY SetupArms DEF TypeOK, WatchInv, HangArmed, RebootIn5

\* A step that leaves the watchdog alone and does not enter the dead loop.
LEMMA KeepWatch ==
  ASSUME WatchInv, UNCHANGED wdt, pc \notin {"off", "head", "linux", "wild"},
         pc' # "spin"
  PROVE  WatchInv'
BY DEF WatchInv, HangArmed, RebootIn5, Armed

\* Every step of the loader keeps WatchInv.
LEMMA LoaderWatch == TypeOK /\ WatchInv /\ LoaderStep => WatchInv'
<1> SUFFICES ASSUME TypeOK, WatchInv, LoaderStep PROVE WatchInv'
  OBVIOUS
<1>1. CASE HeadWatchdog
  BY <1>1, SetupWatch DEF HeadWatchdog, WatchdogResetup, WDT_RESETUP_PERIOD
<1>2. CASE LoaderMain
  BY <1>2, FailWatch, KeepWatch DEF LoaderMain
<1>3. CASE LegacyCheck
  BY <1>3, FailWatch, KeepWatch DEF LegacyCheck
<1>4. CASE FitCheck
  BY <1>4, FailWatch, SetupWatch DEF FitCheck
<1>5. CASE LegacyCopy \/ DtbCopy
  BY <1>5, KeepWatch DEF LegacyCopy, DtbCopy, Move, Store
<1>6. CASE LzmaDecode
  BY <1>6, KeepWatch DEF LzmaDecode, Store
<1>7. CASE HeadCopy \/ Start \/ LegacyDone \/ FitDone \/ Enter
  BY <1>7, KeepWatch DEF HeadCopy, Start, LegacyDone, FitDone, Enter
<1>8. CASE EnableCaches \/ LzmaBegin \/ LzmaError \/ LzmaDone \/ FitCleanup
  BY <1>8, KeepWatch DEF EnableCaches, LzmaBegin, LzmaError, LzmaDone, FitCleanup
<1> QED BY <1>1, <1>2, <1>3, <1>4, <1>5, <1>6, <1>7, <1>8 DEF LoaderStep

\* So does every step of its environment.
LEMMA EnvironmentWatch == TypeOK /\ WatchInv /\ Environment => WatchInv'
<1> SUFFICES ASSUME TypeOK, WatchInv, Environment PROVE WatchInv'
  OBVIOUS
<1>1. ASSUME pc' \in {"off", "head", "linux"} PROVE WatchInv'
  BY <1>1 DEF WatchInv, HangArmed, RebootIn5
<1>2. CASE RouterBOOT \/ Bite \/ KernelTakesOver \/ LinuxReboots
  BY <1>1, <1>2 DEF RouterBOOT, Bite, Off, KernelTakesOver, LinuxReboots
<1>3. CASE Tick
  <2>1. /\ wdt' = [wdt EXCEPT !.left = @ - 1] /\ wdt.left > 0 /\ UNCHANGED pc
        /\ wdt \in [cpu : CPU_TYPES, en : BOOLEAN, route : BOOLEAN, left : Nat]
    BY <1>3 DEF Tick, Countdown, TypeOK, WatchdogTypeOK
  <2>2. wdt'.en = wdt.en /\ wdt'.route = wdt.route /\ wdt'.left = wdt.left - 1
    BY <2>1
  <2>3. Ticks(5) \in Nat
    BY TicksNat
  <2> QED BY <2>1, <2>2, <2>3 DEF WatchInv, HangArmed, RebootIn5, Armed
<1>4. CASE Exception \/ KernelCrashes
  <2>1. UNCHANGED wdt /\ pc' # "spin" /\ pc \notin {"off", "head", "linux", "wild"}
    BY <1>4 DEF Exception, KernelCrashes, Running
  <2> QED BY <2>1, KeepWatch
<1>5. CASE ResetCpu
  <2>1. CASE Off
    BY <1>1, <2>1 DEF Off
  <2>2. ASSUME wdt' = [wdt EXCEPT !.en = TRUE, !.route = TRUE, !.left = 0] PROVE WatchInv'
    <3>1. wdt'.en /\ wdt'.route /\ wdt'.left = 0 /\ Ticks(5) \in Nat
      BY <2>2, TicksNat DEF TypeOK, WatchdogTypeOK
    <3> QED BY <3>1 DEF WatchInv, HangArmed, RebootIn5, Armed
  <2> QED BY <1>5, <2>1, <2>2 DEF ResetCpu
<1> QED BY <1>2, <1>3, <1>4, <1>5 DEF Environment

\* So does every step.
LEMMA NextWatch == TypeOK /\ WatchInv /\ [Next]_vars => WatchInv'
<1>1. ASSUME WatchInv, UNCHANGED vars PROVE WatchInv'
  BY <1>1 DEF vars, WatchInv, HangArmed, RebootIn5, Armed
<1> QED BY <1>1, LoaderWatch, EnvironmentWatch DEF Next

\* On every reachable state, for every image and memory map: each dead loop of
\* the loader runs under a watchdog that will reset the SoC, and the one after
\* "Auto reboot in 5 sec" under one with at most 5 seconds left.
THEOREM WatchdogCovers == Spec => [](HangArmed /\ RebootIn5)
<1>1. Init => WatchInv
  BY DEF Init, WatchInv, HangArmed, RebootIn5
<1> QED BY <1>1, NextWatch, TypeCorrect, PTL DEF Spec, WatchInv

-----------------------------------------------------------------------------
(* The path to the kernel: PathInv. *)

\* Giving up loses every obligation of PathInv.
LEMMA SpinPath == ASSUME pc' \notin Running \cup {"kernel"} PROVE PathInv'
BY DEF PathInv, Running

\* Every step of the loader keeps PathInv.
LEMMA LoaderPath == TypeOK /\ PathInv /\ LoaderStep => PathInv'
<1> SUFFICES ASSUME TypeOK, PathInv, LoaderStep PROVE PathInv'
  OBVIOUS
<1> USE DEF boot, regs, results
<1>0. ImageOK(img)
  BY Layout DEF TypeOK
<1>1. CASE HeadWatchdog \/ HeadCopy
  BY <1>1, SpinPath DEF HeadWatchdog, HeadCopy, Running
<1>2. CASE Start
  BY <1>2 DEF Start, PathInv
<1>3. CASE LoaderMain
  <2>1. ASSUME NEW r, Fail(r) PROVE PathInv'
    BY <2>1, SpinPath DEF Fail, Running
  <2>2. Magic \in {"LEGACY", "FIT", "UNKNOWN"} /\ (Magic # "UNKNOWN" => Magic = img.kind)
    BY <1>0 DEF Magic, ImageOK
  <2>3. kernel_p2 = 0
    BY <1>3 DEF LoaderMain, PathInv, Running
  <2>4. ASSUME r_arch = IPQ_ARCH, Magic # "UNKNOWN",
               pc' = IF Magic = "LEGACY" THEN "legacy" ELSE "fit"
        PROVE  PathInv'
    BY <1>3, <2>2, <2>3, <2>4 DEF LoaderMain, PathInv
  <2> QED BY <1>3, <2>1, <2>4 DEF LoaderMain
<1>4. CASE LegacyCheck
  <2>1. ASSUME NEW r, Fail(r) PROVE PathInv'
    BY <2>1, SpinPath DEF Fail, Running
  <2>2. ASSUME pc' = "lcopy" PROVE PathInv'
    BY <1>4, <2>2 DEF LegacyCheck, PathInv, Running
  <2> QED BY <1>4, <2>1, <2>2 DEF LegacyCheck
<1>5. CASE FitCheck
  <2>1. ASSUME NEW r, Fail(r) PROVE PathInv'
    BY <2>1, SpinPath DEF Fail, Running
  <2>2. ASSUME pc' = IF LoadBelowImage(img) THEN "caches" ELSE "cleanup" PROVE PathInv'
    BY <1>5, <2>2 DEF FitCheck, PathInv, Running
  <2> QED BY <1>5, <2>1, <2>2 DEF FitCheck
<1>6. CASE LegacyCopy
  BY <1>6 DEF LegacyCopy, Move, Store, PathInv, Running
<1>7. CASE LegacyDone
  BY <1>7 DEF LegacyDone, PathInv, Running
<1>8. CASE EnableCaches \/ LzmaBegin \/ LzmaError \/ LzmaDone
  BY <1>8 DEF EnableCaches, LzmaBegin, LzmaError, LzmaDone, PathInv, Running
<1>9. CASE LzmaDecode
  BY <1>9 DEF LzmaDecode, Store, PathInv, Running
<1>10. CASE FitCleanup
  BY <1>10 DEF FitCleanup, CleanupBeforeLinux, TypeOK, PathInv, Running
<1>11. CASE DtbCopy
  BY <1>11 DEF DtbCopy, Move, Store, PathInv, Running
<1>12. CASE FitDone
  BY <1>12 DEF FitDone, PathInv, Running
<1>13. CASE Enter
  BY <1>13 DEF Enter, CleanupBeforeLinux, TypeOK, PathInv, Running
<1> QED
  BY <1>1, <1>2, <1>3, <1>4, <1>5, <1>6, <1>7, <1>8, <1>9, <1>10, <1>11, <1>12,
     <1>13 DEF LoaderStep

\* So does every step of its environment.
LEMMA EnvironmentPath == TypeOK /\ PathInv /\ Environment => PathInv'
<1> SUFFICES ASSUME TypeOK, PathInv, Environment PROVE PathInv'
  OBVIOUS
<1>1. CASE RouterBOOT \/ Bite \/ KernelTakesOver \/ LinuxReboots
  BY <1>1, SpinPath
     DEF RouterBOOT, Bite, Off, KernelTakesOver, LinuxReboots, Running
<1>2. CASE Exception \/ KernelCrashes \/ ResetCpu
  BY <1>2, SpinPath DEF Exception, KernelCrashes, ResetCpu, Off, Running
<1>3. CASE Tick
  BY <1>3 DEF Tick, PathInv, boot, regs, results
<1> QED BY <1>1, <1>2, <1>3 DEF Environment

\* So does every step.
LEMMA NextPath == TypeOK /\ PathInv /\ [Next]_vars => PathInv'
<1>1. ASSUME PathInv, UNCHANGED vars PROVE PathInv'
  BY <1>1 DEF vars, PathInv
<1> QED BY <1>1, LoaderPath, EnvironmentPath DEF Next

\* What the kernel is entered with, for every image and memory map.
THEOREM KernelHandover == Spec => []EntryContract
<1>1. Init => PathInv
  BY SpinPath DEF Init, PathInv, Running
<1>2. PathInv => EntryContract
  BY DEF PathInv, EntryContract
<1> QED BY <1>1, <1>2, NextPath, TypeCorrect, PTL DEF Spec

-----------------------------------------------------------------------------
(* What memory holds: MemInv, for images that fit. *)

\* The order of the memory map, spelled out for this boot's image.
MapOK ==
  /\ img.len \in Nat \ {0} /\ img.load \in Nat /\ img.bodyAt \in Nat
  /\ img.bodyLen \in Nat /\ img.outLen \in Nat
  /\ img.dtbAt \in Nat /\ img.dtbLen \in Nat
  /\ TEXT_BASE \in Nat \ {0} /\ RamTop \in Nat /\ HeadPayload \in Nat
  /\ PAGE_TABLE \in Nat /\ img.probsLen \in Nat
  /\ HeadPayload + img.len < TEXT_BASE - 1
  /\ STACK = TEXT_BASE - 1 /\ ImageBase = TEXT_BASE + 1
  /\ Bss(img) = TEXT_BASE + 1 + img.len
  /\ Workspace(img) = TEXT_BASE + 2 + img.len
  /\ Workspace(img) < PAGE_TABLE /\ PAGE_TABLE < RamTop
  /\ i \in Nat

\* Every well-typed state has that order.
LEMMA Map == ASSUME TypeOK PROVE MapOK
<1>1. /\ ImageOK(img) /\ img.len < U32 /\ i \in Nat
      /\ RamTop \in Nat /\ TEXT_BASE \in Nat \ {0} /\ PAGE_TABLE \in Nat
      /\ HeadPayload \in Nat
      /\ HeadPayload + img.len < TEXT_BASE - 1
      /\ TEXT_BASE + img.len + 2 < PAGE_TABLE
      /\ PAGE_TABLE < RamTop
  BY Layout DEF TypeOK
<1>2. img.len \in Nat \ {0}
  BY <1>1 DEF ImageOK
<1>3. Bss(img) = TEXT_BASE + 1 + img.len /\ Workspace(img) = TEXT_BASE + 2 + img.len
  BY <1>1, <1>2 DEF ImageBase, Bss, Workspace
<1> QED BY <1>1, <1>2, <1>3 DEF ImageOK, STACK, ImageBase, MapOK

\* Cells below the stack, and those above .bss other than the page table, are
\* not vital.
LEMMA NotVital ==
  ASSUME TypeOK, NEW a \in Loc,
         \/ a < STACK
         \/ a > Bss(img) /\ cr = {}
  PROVE  a \notin Vital(img)
BY Map DEF MapOK, Vital, Loc

\* A step that changes only cells outside loader.bin keeps it in place.
LEMMA CopiedKept ==
  ASSUME TypeOK, Copied(img.len + 1), UNCHANGED img,
         \A a \in Loc : TEXT_BASE <= a /\ a <= TEXT_BASE + img.len => mem'[a] = mem[a]
  PROVE  Copied(img.len + 1)'
<1> SUFFICES ASSUME NEW k \in 0 .. (img'.len + 1) - 1
             PROVE  mem'[TEXT_BASE + k] = Payload(k)
  BY DEF Copied, Payload, Code, Img
<1>1. k \in 0 .. (img.len + 1) - 1
  OBVIOUS
<1>2. TEXT_BASE + k \in Loc /\ TEXT_BASE <= TEXT_BASE + k
      /\ TEXT_BASE + k <= TEXT_BASE + img.len
  BY <1>1, Map DEF MapOK, Loc
<1>3. mem[TEXT_BASE + k] = Payload(k)
  BY <1>1, Map DEF MapOK, Copied
<1> QED BY <1>2, <1>3

\* With loader.bin in place the image can be read from it.
LEMMA ImageRead ==
  ASSUME TypeOK, Copied(img.len + 1), NEW n \in Nat, n < img.len
  PROVE  ImageBase + n \in Loc /\ mem[ImageBase + n] = Img(n)
<1>1. n + 1 \in 0 .. img.len + 1 - 1 /\ TEXT_BASE + (n + 1) = ImageBase + n
  BY Map DEF MapOK
<1>2. mem[TEXT_BASE + (n + 1)] = Payload(n + 1)
  BY <1>1, Map DEF MapOK, Copied
<1>3. Payload(n + 1) = Img(n)
  BY DEF Payload, Img
<1>4. ImageBase + n \in Loc
  BY Map DEF MapOK, Loc
<1> QED BY <1>1, <1>2, <1>3, <1>4

\* The kernel of an image that fits lies below the stack.
LEMMA FitsBelow ==
  ASSUME TypeOK, Fits(img), NEW k \in Nat, k < PlacedLen(img)
  PROVE  img.load + k \in Loc /\ img.load + k < STACK
<1>1. img.load + PlacedLen(img) <= STACK /\ PlacedLen(img) \in Nat
  BY Map DEF MapOK, Fits, FitsLegacy, FitsFit, PlacedLen
<1> QED BY <1>1, Map DEF MapOK, Loc

\* A step that changes nothing below the stack keeps what has been placed.
LEMMA BodyKept ==
  ASSUME TypeOK, Fits(img), NEW n \in Nat, n <= PlacedLen(img), BodyPlaced(n),
         UNCHANGED img, \A a \in Loc : a < STACK => mem'[a] = mem[a]
  PROVE  BodyPlaced(n)'
<1> SUFFICES ASSUME NEW k \in 0 .. n - 1
             PROVE  Read(img.load + k)' = Body(img, k)
  BY DEF BodyPlaced
<1>0. PlacedLen(img) \in Nat
  BY Map DEF MapOK, PlacedLen
<1>1. img.load + k \in Loc /\ img.load + k < STACK
  BY <1>0, FitsBelow
<1>2. Read(img.load + k) = Body(img, k)
  BY DEF BodyPlaced
<1> QED BY <1>1, <1>2 DEF Read

\* Storing the next cell of the body extends what is placed.
LEMMA BodyExtended ==
  ASSUME TypeOK, Fits(img), i < PlacedLen(img), BodyPlaced(i), UNCHANGED img,
         mem'[img.load + i] = Body(img, i),
         \A a \in Loc \ {img.load + i} : mem'[a] = mem[a], i' = i + 1
  PROVE  BodyPlaced(i)'
<1> SUFFICES ASSUME NEW k \in 0 .. i PROVE Read(img.load + k)' = Body(img, k)
  BY DEF BodyPlaced, TypeOK
<1>0. PlacedLen(img) \in Nat /\ img.load \in Nat /\ i \in Nat
  BY Map DEF MapOK, PlacedLen
<1>1. img.load + k \in Loc
  BY <1>0, FitsBelow
<1>2. CASE k = i
  BY <1>1, <1>2 DEF Read
<1>3. CASE k # i
  <2>1. img.load + k # img.load + i /\ k \in 0 .. i - 1
    BY <1>0, <1>3
  <2>2. Read(img.load + k) = Body(img, k)
    BY <2>1 DEF BodyPlaced
  <2> QED BY <1>1, <2>1, <2>2 DEF Read
<1> QED BY <1>2, <1>3

\* The device tree of an image that fits lies above .bss.
LEMMA DtbBelow ==
  ASSUME TypeOK, FitsFit(img), NEW k \in Nat, k < img.dtbLen
  PROVE  Workspace(img) + k \in Loc /\ Workspace(img) + k > Bss(img)
BY Map DEF MapOK, FitsFit, Loc

\* Storing its next cell extends it.
LEMMA DtbExtended ==
  ASSUME TypeOK, FitsFit(img), i < img.dtbLen, DtbPlaced(i), UNCHANGED img,
         mem'[Workspace(img) + i] = Img(img.dtbAt + i),
         \A a \in Loc \ {Workspace(img) + i} : mem'[a] = mem[a], i' = i + 1
  PROVE  DtbPlaced(i)'
<1> SUFFICES ASSUME NEW k \in 0 .. i
             PROVE  Read(Workspace(img) + k)' = Img(img.dtbAt + k)
  BY Map DEF MapOK, DtbPlaced, Workspace, Bss, ImageBase
<1>0. Workspace(img) \in Nat /\ i \in Nat /\ img.dtbLen \in Nat
  BY Map DEF MapOK
<1>1. Workspace(img) + k \in Loc
  BY <1>0, DtbBelow
<1>4. Read(Workspace(img) + k)' = mem'[Workspace(img) + k]
  BY <1>1 DEF Read, Workspace, Bss, ImageBase
<1>2. CASE k = i
  BY <1>4, <1>2
<1>3. CASE k # i
  <2>1. Workspace(img) + k # Workspace(img) + i /\ k \in 0 .. i - 1
    BY <1>0, <1>3
  <2>2. Read(Workspace(img) + k) = Img(img.dtbAt + k)
    BY <2>1 DEF DtbPlaced
  <2> QED BY <1>1, <1>4, <2>1, <2>2 DEF Read
<1> QED BY <1>2, <1>3

\* MemInv asks nothing of a stopped or finished loader but that it is not wild.
LEMMA StoppedMem ==
  ASSUME pc' \in {"off", "linux", "spin", "fault"} PROVE MemInv'
BY DEF MemInv, Running

\* A step of the head loader's copy loop.
LEMMA HeadCopyMem ==
  ASSUME TypeOK, Fits(img), MemInv, HeadCopy PROVE MemInv'
<1>1. /\ i \in 0 .. img.len /\ Copied(i) /\ UNCHANGED img /\ i' = i + 1
      /\ \A k \in 0 .. img.len : mem[HeadPayload + k] = Payload(k)
      /\ pc' = IF i + 1 < img.len + 1 THEN "copy" ELSE "start"
      /\ mem' = [mem EXCEPT ![TEXT_BASE + i] = Read(HeadPayload + i)]
  BY Map DEF MapOK, MemInv, HeadCopy, CopyGoesOn, boot
<1>2. \A k \in 0 .. img.len : HeadPayload + k \in Loc /\ TEXT_BASE + k \in Loc
                             /\ HeadPayload + k # TEXT_BASE + i
  BY <1>1, Map DEF MapOK, Loc
<1>3. mem'[TEXT_BASE + i] = Payload(i)
  BY <1>1, <1>2 DEF Read, TypeOK
<1>4. \A a \in Loc \ {TEXT_BASE + i} : mem'[a] = mem[a]
  BY <1>1 DEF TypeOK
<1>5. \A k \in 0 .. img.len : mem'[HeadPayload + k] = Payload(k)
  BY <1>1, <1>2, <1>4
<1>6. \A k \in 0 .. i : mem'[TEXT_BASE + k] = Payload(k)
  <2> TAKE k \in 0 .. i
  <2>1. CASE k = i
    BY <1>3, <2>1
  <2>2. CASE k # i
    <3>1. k \in 0 .. i - 1 /\ TEXT_BASE + k # TEXT_BASE + i /\ k \in 0 .. img.len
      BY <1>1, <2>2, Map DEF MapOK
    <3> QED BY <1>1, <1>2, <1>4, <3>1 DEF Copied
  <2> QED BY <2>1, <2>2
<1>7. Copied(i)'
  <2> SUFFICES ASSUME NEW k \in 0 .. i' - 1 PROVE mem'[TEXT_BASE + k] = Payload(k)
    BY DEF Copied, Payload, Code, Img
  <2>1. k \in 0 .. i
    BY <1>1
  <2> QED BY <1>6, <2>1
<1>8. CASE i + 1 < img.len + 1
  <2>1. pc' = "copy" /\ i' <= img'.len
    BY <1>1, <1>8, Map DEF MapOK
  <2>2. \A k \in 0 .. img'.len : mem'[HeadPayload + k] = Payload(k)
    BY <1>1, <1>5
  <2> QED BY <1>7, <2>1, <2>2 DEF MemInv, Running, Payload, Code, Img
<1>9. CASE ~(i + 1 < img.len + 1)
  <2>1. pc' = "start" /\ i' = img'.len + 1
    BY <1>1, <1>9, Map DEF MapOK
  <2>2. Copied(img.len + 1)'
    BY <1>7, <2>1 DEF Copied
  <2> QED BY <2>1, <2>2 DEF MemInv, Running
<1> QED BY <1>8, <1>9

\* A step that keeps everything below the stack and loader.bin, and goes on
\* inside loader_main, owes only what MemInv asks of the place it goes to.
LEMMA QuietMem ==
  ASSUME TypeOK, Fits(img), MemInv, UNCHANGED img, pc \in Running \cup {"start"},
         pc' \in {"main", "legacy", "fit", "caches", "lzma", "decode", "cleanup"},
         \A a \in Loc : a <= TEXT_BASE + img.len => mem'[a] = mem[a],
         pc' = "legacy" => i' = 0,
         pc' = "decode" => BodyPlaced(i)',
         pc' = "cleanup" => BodyPlaced(img.outLen)'
  PROVE  MemInv'
<1>1. Copied(img.len + 1)'
  BY CopiedKept, Map DEF MapOK, MemInv
<1> QED BY <1>1 DEF MemInv, Running

\* What is placed depends on the image and on memory alone.
LEMMA SamePlace ==
  ASSUME UNCHANGED <<img, mem>>
  PROVE  /\ Placed' <=> Placed
         /\ Copied(img.len + 1)' <=> Copied(img.len + 1)
         /\ BodyPlaced(img.outLen)' <=> BodyPlaced(img.outLen)
BY DEF Placed, Copied, BodyPlaced, DtbPlaced, PlacedLen, Body, Read, Kernel, Img,
       Payload, Code, Workspace, Bss, ImageBase

\* The compressed kernel of an image that fits is still where it was.
LEMMA Intact ==
  ASSUME TypeOK, FitsFit(img), Copied(img.len + 1), NEW k \in Nat, k < img.outLen
  PROVE  InputIntact(k)
<1>0. img.reads \in [0 .. img.outLen - 1 -> Nat]
  BY Layout DEF ImageOK, TypeOK
<1>a. k \in 0 .. img.outLen - 1
  BY Map DEF MapOK
<1>b. img.reads[k] < img.bodyLen /\ img.bodyAt + img.bodyLen <= img.len
  BY <1>a DEF FitsFit
<1>1. img.reads[k] \in Nat /\ img.reads[k] < img.bodyLen
      /\ img.bodyAt + img.bodyLen <= img.len
  BY <1>0, <1>a, <1>b
<1>2. img.bodyAt + img.reads[k] \in Nat /\ img.bodyAt + img.reads[k] < img.len
  BY <1>1, Map DEF MapOK
<1> QED BY <1>2, ImageRead DEF InputIntact, Read

\* Whether an image fits depends on the image alone.
LEMMA SameFits == ASSUME UNCHANGED img PROVE Fits(img)' <=> Fits(img)
BY DEF Fits, FitsLegacy, FitsFit, STACK, HDR, Workspace, Bss, ImageBase

\* MemInv speaks of no other variables than these.
LEMMA SameMem ==
  ASSUME UNCHANGED <<pc, mem, img, i>>, Fits(img) => MemInv
  PROVE  (Fits(img) => MemInv)'
<1>1. Fits(img)' <=> Fits(img)
  BY SameFits
<1>2. Copied(i)' <=> Copied(i)
  BY DEF Copied, Payload, Img, Code
<1>3. BodyPlaced(i)' <=> BodyPlaced(i)
  BY DEF BodyPlaced, Body, Read, Kernel, Img
<1>4. DtbPlaced(i)' <=> DtbPlaced(i)
  BY DEF DtbPlaced, Read, Img, Workspace, Bss, ImageBase
<1>5. \A k : Payload(k)' = Payload(k)
  BY DEF Payload, Img, Code
<1>6. MemInv => MemInv'
  BY <1>2, <1>3, <1>4, <1>5, SamePlace DEF MemInv, Running, HDR
<1> QED BY <1>1, <1>6

\* Every step of the loader keeps MemInv for an image that fits.
LEMMA LoaderMem ==
  TypeOK /\ PathInv /\ (Fits(img) => MemInv) /\ LoaderStep /\ Fits(img) => MemInv'
<1> SUFFICES ASSUME TypeOK, PathInv, MemInv, LoaderStep, Fits(img) PROVE MemInv'
  OBVIOUS
<1> USE DEF boot
<1>0. ASSUME NEW r, Fail(r) PROVE MemInv'
  BY <1>0, StoppedMem DEF Fail
<1>1. CASE HeadWatchdog
  <2>1. UNCHANGED <<img, mem>> /\ pc = "head" /\ pc' = "copy" /\ i' = 0
    BY <1>1 DEF HeadWatchdog
  <2>2. Copied(i)' /\ i' <= img'.len
    BY <2>1, Map DEF MapOK, Copied
  <2>3. \A k \in 0 .. img'.len : mem'[HeadPayload + k] = Payload(k)
    BY <2>1 DEF MemInv
  <2> QED BY <2>1, <2>2, <2>3 DEF MemInv, Running, Payload, Code, Img
<1>2. CASE HeadCopy
  BY <1>2, HeadCopyMem
<1>3. CASE Start
  <2>1. \A a \in Loc : a <= TEXT_BASE + img.len => mem'[a] = mem[a]
    BY <1>3, Map DEF MapOK, Start, TypeOK, Loc
  <2> QED BY <1>3, <2>1, QuietMem DEF Start
<1>4. CASE LoaderMain
  BY <1>0, <1>4, QuietMem DEF LoaderMain, Running
<1>5. CASE LegacyCheck
  <2>1. ASSUME LegacyRoom >= img.bodyLen, pc' = "lcopy" PROVE MemInv'
    <3>1. HDR + img.bodyLen <= img.len
      BY <1>5, <2>1, Map DEF MapOK, Fits, FitsLegacy, FitsFit, LegacyRoom, HDR,
                             LegacyCheck, PathInv
    <3>2. BodyPlaced(i)'
      BY <1>5 DEF LegacyCheck, MemInv, BodyPlaced
    <3>3. Copied(img.len + 1)'
      BY <1>5, CopiedKept, Map DEF MapOK, LegacyCheck, MemInv, Running
    <3> QED BY <1>5, <2>1, <3>1, <3>2, <3>3 DEF LegacyCheck, MemInv, Running
  <2> QED BY <1>0, <1>5, <2>1 DEF LegacyCheck
<1>6. CASE LegacyCopy
  <2>1. img.kind = "LEGACY" /\ i < PlacedLen(img) /\ i \in Nat /\ BodyPlaced(i)
        /\ HDR + img.bodyLen <= img.len /\ Copied(img.len + 1)
    BY <1>6, Map DEF MapOK, LegacyCopy, MemInv, PathInv, PlacedLen, Running
  <2>2. img.load + i \in Loc /\ img.load + i < STACK
    BY <2>1, FitsBelow
  <2>3. ImageBase + (HDR + i) \in Loc /\ mem[ImageBase + (HDR + i)] = Img(HDR + i)
    BY <2>1, ImageRead, Map DEF MapOK, HDR, PlacedLen
  <2>4. ImageBase + HDR + i = ImageBase + (HDR + i)
    BY <2>1, Map DEF MapOK, HDR
  <2>5. Store(img.load + i, Img(HDR + i), "lcopy") /\ i' = i + 1 /\ UNCHANGED img
    BY <1>6, <2>3, <2>4 DEF LegacyCopy, Move
  <2>6. /\ pc' = "lcopy" /\ mem'[img.load + i] = Img(HDR + i)
        /\ \A b \in Loc \ {img.load + i} : mem'[b] = mem[b]
    BY <2>2, <2>5, StoreWorks, NotVital
  <2>7. BodyPlaced(i)'
    BY <2>1, <2>5, <2>6, BodyExtended DEF Body
  <2>8. Copied(img.len + 1)'
    BY <2>1, <2>2, <2>5, <2>6, CopiedKept, Map DEF MapOK
  <2> QED BY <2>1, <2>5, <2>6, <2>7, <2>8 DEF MemInv, Running
<1>7. CASE LegacyDone
  <2>1. img.kind = "LEGACY" /\ BodyPlaced(i) /\ PlacedLen(img) <= i /\ Copied(img.len + 1)
    BY <1>7 DEF LegacyDone, MemInv, PathInv, PlacedLen, Running
  <2>2. BodyPlaced(PlacedLen(img))
    BY <2>1, Map DEF MapOK, PlacedLen, BodyPlaced
  <2>3. Placed
    BY <2>1, <2>2 DEF Placed
  <2>4. UNCHANGED <<img, mem>> /\ pc' = "enter"
    BY <1>7 DEF LegacyDone
  <2> QED BY <2>1, <2>3, <2>4, SamePlace DEF MemInv, Running
<1>8. CASE FitCheck
  <2>1. FitsFit(img) /\ LoadBelowImage(img)
    BY <1>8, Map DEF MapOK, FitCheck, PathInv, Fits, FitsLegacy, FitsFit, LoadBelowImage
  <2> QED BY <1>0, <1>8, <2>1, QuietMem DEF FitCheck, Running
<1>9. CASE EnableCaches
  <2>1. \A a \in Loc : a <= TEXT_BASE + img.len => mem'[a] = mem[a]
    <3>1. TEXT_BASE + img.len < PAGE_TABLE
      BY Map DEF MapOK
    <3>2. mem' = [mem EXCEPT ![PAGE_TABLE] = Table]
      BY <1>9 DEF EnableCaches
    <3>3. DOMAIN mem = Loc
      BY DEF TypeOK
    <3>4. TEXT_BASE \in Nat /\ img.len \in Nat /\ PAGE_TABLE \in Nat
      BY Map DEF MapOK
    <3>5. ASSUME NEW a \in Loc, a <= TEXT_BASE + img.len PROVE a # PAGE_TABLE
      BY <3>1, <3>4, <3>5 DEF Loc
    <3> QED BY <3>2, <3>3, <3>5
  <2> QED BY <1>9, <2>1, QuietMem DEF EnableCaches, Running
<1>10. CASE LzmaBegin
  <2>1. FitsFit(img)
    BY <1>10 DEF LzmaBegin, PathInv, Fits, FitsLegacy
  <2>2. \A a \in Loc : a <= TEXT_BASE + img.len => mem'[a] = mem[a]
    <3>1. mem' = [a \in Loc |-> IF a \in ProbsCells THEN Probs ELSE mem[a]]
      BY <1>10, <2>1 DEF LzmaBegin, FitsFit
    <3>2. \A a \in Loc : a <= TEXT_BASE + img.len => a \notin ProbsCells
      BY Map DEF MapOK, Loc, ProbsCells
    <3> QED BY <3>1, <3>2
  <2>3. ProbsCells \cap Vital(img) = {} /\ ProbsCells \subseteq Loc
    <3>1. Workspace(img) + img.probsLen <= PAGE_TABLE
      BY <2>1 DEF FitsFit
    <3>2. \A a \in ProbsCells : a \in Loc /\ a > Bss(img) /\ a < PAGE_TABLE
      BY <3>1, Map DEF MapOK, ProbsCells, Loc
    <3>3. STACK < Bss(img) /\ TEXT_BASE < Bss(img) /\ Bss(img) \in Nat
      BY Map DEF MapOK
    <3>4. \A a \in ProbsCells : a # STACK /\ a # TEXT_BASE /\ a # Bss(img) /\ a # PAGE_TABLE
      BY <3>2, <3>3, Map DEF MapOK, Loc
    <3> QED BY <3>2, <3>4 DEF Vital
  <2>4. pc' = "decode" /\ BodyPlaced(i)'
    BY <1>10, <2>1, <2>3 DEF LzmaBegin, BodyPlaced, FitsFit
  <2> QED BY <1>10, <2>2, <2>4, QuietMem DEF LzmaBegin, Running
<1>11. CASE LzmaDecode
  <2>1. FitsFit(img) /\ PlacedLen(img) = img.outLen /\ i \in Nat /\ BodyPlaced(i)
        /\ i < img.outLen /\ Copied(img.len + 1) /\ i' = i + 1 /\ UNCHANGED img
    BY <1>11, Map DEF MapOK, LzmaDecode, PathInv, MemInv, Fits, FitsLegacy, FitsFit,
                      PlacedLen, Running
  <2>2. img.load + i \in Loc /\ img.load + i < STACK
    BY <2>1, FitsBelow
  <2>3. InputIntact(i)
    BY <2>1, Intact
  <2>4. Store(img.load + i, Kernel(i), "decode")
    BY <1>11, <2>3 DEF LzmaDecode
  <2>5. /\ pc' = "decode" /\ mem'[img.load + i] = Kernel(i)
        /\ \A b \in Loc \ {img.load + i} : mem'[b] = mem[b]
    BY <2>2, <2>4, StoreWorks, NotVital
  <2>6. BodyPlaced(i)'
    BY <2>1, <2>5, BodyExtended DEF Body, FitsFit
  <2>7. Copied(img.len + 1)'
    BY <2>1, <2>2, <2>5, CopiedKept, Map DEF MapOK
  <2> QED BY <2>1, <2>5, <2>6, <2>7 DEF MemInv, Running
<1>12. CASE LzmaError
  <2>1. FitsFit(img) /\ Copied(img.len + 1)
    BY <1>12 DEF LzmaError, PathInv, MemInv, Fits, FitsLegacy, Running
  <2>2. i < img.outLen => InputIntact(i)
    BY <2>1, Intact, Map DEF MapOK
  <2> QED BY <1>12, <2>1, <2>2 DEF LzmaError, FitsFit
<1>13. CASE LzmaDone
  <2>1. BodyPlaced(img.outLen)'
    <3>1. BodyPlaced(img.outLen) /\ UNCHANGED <<img, mem>>
      BY <1>13, Map DEF MapOK, LzmaDone, MemInv, BodyPlaced
    <3> QED BY <3>1, SamePlace
  <2> QED BY <1>13, <2>1, QuietMem DEF LzmaDone, Running
<1>14. CASE FitCleanup
  <2>1. Copied(img.len + 1) /\ BodyPlaced(img.outLen) /\ UNCHANGED <<img, mem>>
        /\ pc' = "dtb" /\ i' = 0
    BY <1>14 DEF FitCleanup, MemInv, Running
  <2>2. DtbPlaced(i)'
    BY <2>1 DEF DtbPlaced
  <2> QED BY <2>1, <2>2, SamePlace DEF MemInv, Running
<1>15. CASE DtbCopy
  <2>1. FitsFit(img) /\ i < img.dtbLen /\ i \in Nat /\ BodyPlaced(img.outLen)
        /\ DtbPlaced(i) /\ cr = {} /\ Copied(img.len + 1)
    BY <1>15, Map DEF MapOK, DtbCopy, PathInv, MemInv, Fits, FitsLegacy, Running
  <2>2. Workspace(img) + i \in Loc /\ Workspace(img) + i > Bss(img)
    BY <2>1, DtbBelow
  <2>3. ImageBase + (img.dtbAt + i) \in Loc
        /\ mem[ImageBase + (img.dtbAt + i)] = Img(img.dtbAt + i)
    BY <2>1, ImageRead, Map DEF MapOK, FitsFit
  <2>4. ImageBase + img.dtbAt + i = ImageBase + (img.dtbAt + i)
    BY <2>1, Map DEF MapOK
  <2>5. Store(Workspace(img) + i, Img(img.dtbAt + i), "dtb") /\ i' = i + 1 /\ UNCHANGED img
    BY <1>15, <2>3, <2>4 DEF DtbCopy, Move
  <2>6. /\ pc' = "dtb" /\ mem'[Workspace(img) + i] = Img(img.dtbAt + i)
        /\ \A b \in Loc \ {Workspace(img) + i} : mem'[b] = mem[b]
    BY <2>1, <2>2, <2>5, StoreWorks, NotVital
  <2>7. DtbPlaced(i)'
    BY <2>1, <2>5, <2>6, DtbExtended
  <2>8. BodyPlaced(img.outLen)'
    BY <2>1, <2>2, <2>5, <2>6, BodyKept, Map DEF MapOK, FitsFit, PlacedLen
  <2>9. Copied(img.len + 1)'
    BY <2>1, <2>2, <2>5, <2>6, CopiedKept, Map DEF MapOK
  <2> QED BY <2>6, <2>7, <2>8, <2>9 DEF MemInv, Running
<1>16. CASE FitDone
  <2>1. FitsFit(img) /\ BodyPlaced(img.outLen) /\ DtbPlaced(i) /\ img.dtbLen <= i
        /\ Copied(img.len + 1) /\ UNCHANGED <<img, mem>> /\ pc' = "enter"
    BY <1>16 DEF FitDone, PathInv, MemInv, Fits, FitsLegacy, Running
  <2>2. DtbPlaced(img.dtbLen)
    BY <2>1, Map DEF MapOK, DtbPlaced
  <2>3. Placed
    BY <2>1, <2>2 DEF Placed, PlacedLen, FitsFit
  <2> QED BY <2>1, <2>3, SamePlace DEF MemInv, Running
<1>17. CASE Enter
  <2>1. Placed /\ Copied(img.len + 1) /\ UNCHANGED <<img, mem>> /\ pc' = "kernel"
    BY <1>17 DEF Enter, MemInv, Running
  <2> QED BY <2>1, SamePlace DEF MemInv, Running
<1> QED
  BY <1>1, <1>2, <1>3, <1>4, <1>5, <1>6, <1>7, <1>8, <1>9, <1>10, <1>11, <1>12,
     <1>13, <1>14, <1>15, <1>16, <1>17 DEF LoaderStep

\* So does every step of its environment.
LEMMA EnvironmentMem ==
  TypeOK /\ (Fits(img) => MemInv) /\ Environment => (Fits(img) => MemInv)'
<1> SUFFICES ASSUME TypeOK, Fits(img) => MemInv, Environment
             PROVE  (Fits(img) => MemInv)'
  OBVIOUS
<1>1. CASE RouterBOOT
  <2>1. /\ img' \in Images /\ pc' = "head"
        /\ mem' = [a \in Loc |-> IF a - HeadPayload \in 0 .. img'.len
                                 THEN Payload(a - HeadPayload) ELSE Junk]
    BY <1>1 DEF RouterBOOT
  <2>2. ImageOK(img') /\ TEXT_BASE + img'.len + 2 < PAGE_TABLE
        /\ PAGE_TABLE < RamTop /\ HeadPayload + img'.len < TEXT_BASE - 1
        /\ RamTop \in Nat /\ TEXT_BASE \in Nat /\ PAGE_TABLE \in Nat
        /\ HeadPayload \in Nat
    BY <2>1, Layout
  <2>3. img'.len \in Nat
    BY <2>2 DEF ImageOK
  <2>4. ASSUME NEW k \in 0 .. img'.len PROVE mem'[HeadPayload + k] = Payload(k)
    <3>1. HeadPayload + k \in Loc /\ (HeadPayload + k) - HeadPayload = k
      BY <2>2, <2>3 DEF Loc
    <3> QED BY <2>1, <3>1
  <2> QED BY <2>1, <2>4 DEF MemInv, Running, Payload, Code, Img
<1>2. CASE Tick
  <2>1. UNCHANGED <<pc, mem, img, i>>
    BY <1>2 DEF Tick, boot
  <2> QED BY <2>1, SameMem
<1>3. CASE Bite \/ Exception \/ KernelTakesOver \/ ResetCpu \/ LinuxReboots
  BY <1>3, StoppedMem
     DEF Bite, Off, Exception, KernelTakesOver, ResetCpu, LinuxReboots
<1>4. CASE KernelCrashes
  <2>1. Fits(img) => mem[TEXT_BASE] = Code
    <3> SUFFICES ASSUME Fits(img) PROVE mem[TEXT_BASE] = Code
      OBVIOUS
    <3>1. Copied(img.len + 1) /\ 0 \in 0 .. (img.len + 1) - 1 /\ TEXT_BASE + 0 = TEXT_BASE
      BY <1>4, Map DEF MapOK, KernelCrashes, MemInv
    <3>2. mem[TEXT_BASE + 0] = Payload(0)
      BY <3>1 DEF Copied
    <3> QED BY <3>1, <3>2 DEF Payload
  <2>2. UNCHANGED img /\ (Fits(img)' => Fits(img))
    BY <1>4, SameFits DEF KernelCrashes, boot
  <2>3. Fits(img) => pc' = "fault"
    BY <1>4, <2>1 DEF KernelCrashes
  <2> QED BY <2>2, <2>3, StoppedMem
<1> QED BY <1>1, <1>2, <1>3, <1>4 DEF Environment

\* So does every step.
LEMMA NextMem ==
  TypeOK /\ PathInv /\ (Fits(img) => MemInv) /\ [Next]_vars => (Fits(img) => MemInv)'
<1>1. ASSUME Fits(img) => MemInv, UNCHANGED vars PROVE (Fits(img) => MemInv)'
  BY <1>1, SameMem DEF vars
<1>2. LoaderStep => UNCHANGED img
  BY DEF LoaderStep, boot, HeadWatchdog, HeadCopy, Start, LoaderMain, LegacyCheck,
         LegacyCopy, LegacyDone, FitCheck, EnableCaches, LzmaBegin, LzmaDecode,
         LzmaError, LzmaDone, FitCleanup, DtbCopy, FitDone, Enter
<1>3. LoaderStep => (Fits(img)' => Fits(img))
  BY <1>2, SameFits
<1> QED BY <1>1, <1>3, LoaderMem, EnvironmentMem DEF Next

\* With any memory map in LoaderAssumption's order, a kernel whose image fits
\* is entered only when all of it and its device tree are in place, and loading
\* it never overwrites what the loader runs on nor leaves RAM.
THEOREM ImageSafe == Spec => [](KernelPlaced /\ NothingVitalLost)
<1>1. Init => (Fits(img) => MemInv)
  BY DEF Init, MemInv, Running
<1>2. Init => PathInv
  BY SpinPath DEF Init, PathInv, Running
<1>3. (Fits(img) => MemInv) => KernelPlaced /\ NothingVitalLost
  BY DEF MemInv, KernelPlaced, NothingVitalLost
<1> QED BY <1>1, <1>2, <1>3, NextPath, NextMem, TypeCorrect, PTL DEF Spec

\* The conjunction of all this is the inductive invariant of the specification.
THEOREM Inductive == Spec => []IInv
<1>1. Init => IInv
  BY InitType, SpinPath
     DEF Init, IInv, HangArmed, RebootIn5, PathInv, MemInv, Running
<1>2. IInv /\ [Next]_vars => IInv'
  <2> SUFFICES ASSUME IInv, [Next]_vars PROVE IInv'
    OBVIOUS
  <2>1. TypeOK /\ WatchInv /\ PathInv /\ (Fits(img) => MemInv)
    BY DEF IInv, WatchInv
  <2>2. TypeOK' /\ WatchInv' /\ PathInv' /\ (Fits(img) => MemInv)'
    BY <2>1, NextType, NextWatch, NextPath, NextMem
  <2> QED BY <2>2 DEF IInv, WatchInv
<1> QED BY <1>1, <1>2, PTL DEF Spec

\* Nothing the loader runs on or reads from is overwritten while it is needed, by the
\* probabilities either, and no copy or store leaves RAM.
THEOREM VitalMemorySafe == Spec => []NothingVitalLost
BY ImageSafe, PTL

\* After "Auto reboot in 5 sec" the watchdog runs and has no more than that left,
\* whatever the handlers had set it to before.
THEOREM RebootWithinFive == Spec => []RebootIn5
BY WatchdogCovers, PTL

-----------------------------------------------------------------------------
(* The end of a boot. *)

\* How many more steps the loader can take, at p with image im and its copy index at n:
\* the passes left of each loop and the steps around them.
Steps(p, im, n) ==
  LET passes(of) == IF n < of THEN of - n ELSE 0
      body == im.bodyLen + im.outLen + im.dtbLen
  IN  CASE p = "head" -> body + im.len + 12
        [] p = "copy" -> body + passes(im.len + 1) + 10
        [] p = "start" -> body + 9
        [] p = "main" -> body + 8
        [] p = "legacy" -> im.bodyLen + 3
        [] p = "lcopy" -> passes(im.bodyLen) + 2
        [] p = "fit" -> im.outLen + im.dtbLen + 7
        [] p = "caches" -> im.outLen + im.dtbLen + 6
        [] p = "lzma" -> im.outLen + im.dtbLen + 5
        [] p = "decode" -> passes(im.outLen) + im.dtbLen + 4
        [] p = "cleanup" -> im.dtbLen + 3
        [] p = "dtb" -> passes(im.dtbLen) + 2
        [] p = "enter" -> 1
        [] OTHER -> 0

StepsLeft == Steps(pc, img, i)

AtWork == Running \cup {"head", "copy", "start"}

LEMMA StepsDrop ==
  ASSUME NEW im \in Images, NEW n \in Nat, NEW m \in Nat
  PROVE  /\ Steps("copy", im, 0) < Steps("head", im, n)
         /\ n < im.len => Steps("copy", im, n + 1) < Steps("copy", im, n)
         /\ Steps("start", im, m) < Steps("copy", im, n)
         /\ Steps("main", im, m) < Steps("start", im, n)
         /\ Steps("legacy", im, m) < Steps("main", im, n)
         /\ Steps("fit", im, m) < Steps("main", im, n)
         /\ Steps("lcopy", im, m) < Steps("legacy", im, n)
         /\ n < im.bodyLen => Steps("lcopy", im, n + 1) < Steps("lcopy", im, n)
         /\ Steps("enter", im, m) < Steps("lcopy", im, n)
         /\ Steps("caches", im, m) < Steps("fit", im, n)
         /\ Steps("cleanup", im, m) < Steps("fit", im, n)
         /\ Steps("lzma", im, m) < Steps("caches", im, n)
         /\ Steps("decode", im, m) < Steps("lzma", im, n)
         /\ Steps("cleanup", im, m) < Steps("lzma", im, n)
         /\ n < im.outLen => Steps("decode", im, n + 1) < Steps("decode", im, n)
         /\ Steps("cleanup", im, m) < Steps("decode", im, n)
         /\ Steps("dtb", im, m) < Steps("cleanup", im, n)
         /\ n < im.dtbLen => Steps("dtb", im, n + 1) < Steps("dtb", im, n)
         /\ Steps("enter", im, m) < Steps("dtb", im, n)
         /\ \A p \in AtWork : Steps(p, im, n) \in Nat /\ Steps(p, im, n) > 0
         /\ \A p : p \notin AtWork => Steps(p, im, n) = 0
<1> DEFINE l == im.len
           b == im.bodyLen
           o == im.outLen
           d == im.dtbLen
           passes(of, k) == IF k < of THEN of - k ELSE 0
<1>1. l \in Nat /\ b \in Nat /\ o \in Nat /\ d \in Nat
  BY Layout DEF ImageOK
<1>2. \A k \in Nat :
        /\ Steps("head", im, k) = b + o + d + l + 12
        /\ Steps("copy", im, k) = b + o + d + passes(l + 1, k) + 10
        /\ Steps("start", im, k) = b + o + d + 9
        /\ Steps("main", im, k) = b + o + d + 8
        /\ Steps("legacy", im, k) = b + 3
        /\ Steps("lcopy", im, k) = passes(b, k) + 2
  BY DEF Steps
<1>3. \A k \in Nat :
        /\ Steps("fit", im, k) = o + d + 7
        /\ Steps("caches", im, k) = o + d + 6
        /\ Steps("lzma", im, k) = o + d + 5
        /\ Steps("decode", im, k) = passes(o, k) + d + 4
        /\ Steps("cleanup", im, k) = d + 3
        /\ Steps("dtb", im, k) = passes(d, k) + 2
        /\ Steps("enter", im, k) = 1
  BY DEF Steps
<1>4. \A p : p \notin AtWork => Steps(p, im, n) = 0
  BY DEF Steps, AtWork, Running
<1>5. \A of, k \in Nat :
        /\ passes(of, k) \in Nat /\ passes(of, k) <= of /\ passes(of, 0) = of
        /\ k < of => passes(of, k + 1) < passes(of, k)
  OBVIOUS
<1> HIDE DEF l, b, o, d, passes
<1>6. l + 1 \in Nat /\ n + 1 \in Nat
  BY <1>1
<1>7. /\ passes(l + 1, n) \in Nat /\ passes(b, n) \in Nat /\ passes(o, n) \in Nat
      /\ passes(d, n) \in Nat
      /\ passes(b, m) <= b /\ passes(o, m) <= o /\ passes(d, m) <= d
      /\ passes(b, m) \in Nat /\ passes(o, m) \in Nat /\ passes(d, m) \in Nat
      /\ passes(l + 1, 0) = l + 1
  BY <1>1, <1>5, <1>6
<1>8. /\ passes(l + 1, n + 1) \in Nat /\ passes(b, n + 1) \in Nat
      /\ passes(o, n + 1) \in Nat /\ passes(d, n + 1) \in Nat
      /\ n < l + 1 => passes(l + 1, n + 1) < passes(l + 1, n)
      /\ n < b => passes(b, n + 1) < passes(b, n)
      /\ n < o => passes(o, n + 1) < passes(o, n)
      /\ n < d => passes(d, n + 1) < passes(d, n)
  BY <1>1, <1>5, <1>6
<1>9. /\ Steps("copy", im, 0) < Steps("head", im, n)
      /\ n < l => Steps("copy", im, n + 1) < Steps("copy", im, n)
      /\ Steps("start", im, m) < Steps("copy", im, n)
      /\ Steps("main", im, m) < Steps("start", im, n)
      /\ Steps("legacy", im, m) < Steps("main", im, n)
      /\ Steps("fit", im, m) < Steps("main", im, n)
  BY <1>1, <1>2, <1>3, <1>6, <1>7, <1>8
<1>10. /\ Steps("lcopy", im, m) < Steps("legacy", im, n)
       /\ n < b => Steps("lcopy", im, n + 1) < Steps("lcopy", im, n)
       /\ Steps("enter", im, m) < Steps("lcopy", im, n)
       /\ Steps("caches", im, m) < Steps("fit", im, n)
       /\ Steps("cleanup", im, m) < Steps("fit", im, n)
       /\ Steps("lzma", im, m) < Steps("caches", im, n)
  BY <1>1, <1>2, <1>3, <1>6, <1>7, <1>8
<1>11. /\ Steps("decode", im, m) < Steps("lzma", im, n)
       /\ Steps("cleanup", im, m) < Steps("lzma", im, n)
       /\ n < o => Steps("decode", im, n + 1) < Steps("decode", im, n)
       /\ Steps("cleanup", im, m) < Steps("decode", im, n)
       /\ Steps("dtb", im, m) < Steps("cleanup", im, n)
       /\ n < d => Steps("dtb", im, n + 1) < Steps("dtb", im, n)
       /\ Steps("enter", im, m) < Steps("dtb", im, n)
  BY <1>1, <1>3, <1>6, <1>7, <1>8
<1>12. \A p \in AtWork : Steps(p, im, n) \in Nat /\ Steps(p, im, n) > 0
  <2>1. \A p \in {"head", "copy", "start", "main", "legacy", "lcopy"} :
          Steps(p, im, n) \in Nat /\ Steps(p, im, n) > 0
    BY <1>1, <1>2, <1>7
  <2>2. \A p \in {"fit", "caches", "lzma", "decode", "cleanup", "dtb", "enter"} :
          Steps(p, im, n) \in Nat /\ Steps(p, im, n) > 0
    BY <1>1, <1>3, <1>7
  <2> QED BY <2>1, <2>2 DEF AtWork, Running
<1> QED BY <1>4, <1>9, <1>10, <1>11, <1>12 DEF l, b, o, d

\* A store goes on, or it is the loader's last step.
LEMMA StoreGoes ==
  ASSUME NEW a, NEW v, NEW next, Store(a, v, next) PROVE pc' \in {next, "wild", "abort"}
BY DEF Store

LEMMA MoveGoes ==
  ASSUME NEW from, NEW to, NEW next, Move(from, to, next) PROVE pc' \in {next, "wild", "abort"}
BY StoreGoes DEF Move

\* Each of the loader's steps is one less.
LEMMA LoaderShortens ==
  ASSUME TypeOK, LoaderStep PROVE StepsLeft' < StepsLeft
<1>1. img \in Images /\ i \in Nat /\ 0 \in Nat
  BY DEF TypeOK
<1>2. pc \in AtWork /\ img' = img
  BY DEF LoaderStep, HeadWatchdog, HeadCopy, Start, LoaderMain, LegacyCheck, LegacyCopy,
     LegacyDone, FitCheck, EnableCaches, LzmaBegin, LzmaDecode, LzmaError, LzmaDone,
     FitCleanup, DtbCopy, FitDone, Enter, boot, AtWork, Running
<1>3. i' \in Nat
  BY LoaderType DEF TypeOK
<1>4. ASSUME pc' \in {"spin", "fault", "abort", "wild", "kernel"} PROVE StepsLeft' < StepsLeft
  <2>1. pc' \notin AtWork
    BY <1>4 DEF AtWork, Running
  <2>2. StepsLeft' = 0 /\ StepsLeft > 0
    BY <1>1, <1>2, <1>3, <2>1, StepsDrop DEF StepsLeft
  <2> QED BY <2>2
<1>5. CASE HeadWatchdog
  <2>1. pc = "head" /\ pc' = "copy" /\ i' = 0
    BY <1>5 DEF HeadWatchdog
  <2> QED BY <1>1, <1>2, <2>1, StepsDrop DEF StepsLeft
<1>6. CASE HeadCopy
  <2>1. pc = "copy" /\ i' = i + 1 /\ (pc' = "start" \/ (pc' = "copy" /\ i < img.len))
    <3>1. img.len \in Nat
      BY <1>1, Layout DEF ImageOK
    <3> QED BY <1>1, <1>6, <3>1 DEF HeadCopy, CopyGoesOn
  <2> QED BY <1>1, <1>2, <1>3, <2>1, StepsDrop DEF StepsLeft
<1>7. CASE Start
  <2>1. pc = "start" /\ pc' = "main"
    BY <1>7 DEF Start
  <2> QED BY <1>1, <1>2, <1>3, <2>1, StepsDrop DEF StepsLeft
<1>8. CASE LoaderMain
  <2>1. pc = "main" /\ pc' \in {"spin", "legacy", "fit"}
    BY <1>8 DEF LoaderMain, Fail
  <2> QED BY <1>1, <1>2, <1>3, <1>4, <2>1, StepsDrop DEF StepsLeft
<1>9. CASE LegacyCheck
  <2>1. pc = "legacy" /\ pc' \in {"spin", "lcopy"}
    BY <1>9 DEF LegacyCheck, Fail
  <2> QED BY <1>1, <1>2, <1>3, <1>4, <2>1, StepsDrop DEF StepsLeft
<1>10. CASE LegacyCopy
  <2>1. /\ pc = "lcopy" /\ i < img.bodyLen /\ i' = i + 1
        /\ pc' \in {"lcopy", "wild", "abort"}
    BY <1>10, MoveGoes DEF LegacyCopy
  <2> QED BY <1>1, <1>2, <1>4, <2>1, StepsDrop DEF StepsLeft
<1>11. CASE LegacyDone
  <2>1. pc = "lcopy" /\ pc' = "enter"
    BY <1>11 DEF LegacyDone
  <2> QED BY <1>1, <1>2, <1>3, <2>1, StepsDrop DEF StepsLeft
<1>12. CASE FitCheck
  <2>1. pc = "fit" /\ pc' \in {"spin", "caches", "cleanup"}
    BY <1>12 DEF FitCheck, Fail
  <2> QED BY <1>1, <1>2, <1>3, <1>4, <2>1, StepsDrop DEF StepsLeft
<1>13. CASE EnableCaches
  <2>1. pc = "caches" /\ pc' = "lzma"
    BY <1>13 DEF EnableCaches
  <2> QED BY <1>1, <1>2, <1>3, <2>1, StepsDrop DEF StepsLeft
<1>14. CASE LzmaBegin
  <2>1. pc = "lzma" /\ pc' \in {"cleanup", "decode", "wild", "abort"}
    BY <1>14 DEF LzmaBegin
  <2> QED BY <1>1, <1>2, <1>3, <1>4, <2>1, StepsDrop DEF StepsLeft
<1>15. CASE LzmaDecode
  <2>1. /\ pc = "decode" /\ i < img.outLen /\ i' = i + 1
        /\ pc' \in {"decode", "wild", "abort"}
    BY <1>15, StoreGoes DEF LzmaDecode
  <2> QED BY <1>1, <1>2, <1>4, <2>1, StepsDrop DEF StepsLeft
<1>16. CASE LzmaError \/ LzmaDone
  <2>1. pc = "decode" /\ pc' = "cleanup"
    BY <1>16 DEF LzmaError, LzmaDone
  <2> QED BY <1>1, <1>2, <1>3, <2>1, StepsDrop DEF StepsLeft
<1>17. CASE FitCleanup
  <2>1. pc = "cleanup" /\ pc' = "dtb"
    BY <1>17 DEF FitCleanup
  <2> QED BY <1>1, <1>2, <1>3, <2>1, StepsDrop DEF StepsLeft
<1>18. CASE DtbCopy
  <2>1. /\ pc = "dtb" /\ i < img.dtbLen /\ i' = i + 1
        /\ pc' \in {"dtb", "wild", "abort"}
    BY <1>18, MoveGoes DEF DtbCopy
  <2> QED BY <1>1, <1>2, <1>4, <2>1, StepsDrop DEF StepsLeft
<1>19. CASE FitDone
  <2>1. pc = "dtb" /\ pc' = "enter"
    BY <1>19 DEF FitDone
  <2> QED BY <1>1, <1>2, <1>3, <2>1, StepsDrop DEF StepsLeft
<1>20. CASE Enter
  BY <1>4, <1>20 DEF Enter
<1> QED
  BY <1>5, <1>6, <1>7, <1>8, <1>9, <1>10, <1>11, <1>12, <1>13, <1>14, <1>15, <1>16, <1>17,
     <1>18, <1>19, <1>20 DEF LoaderStep

\* Nothing around it lengthens the boot, but a new one.
LEMMA EnvironmentShortens ==
  ASSUME TypeOK, TypeOK', Environment, pc' # "head" PROVE StepsLeft' <= StepsLeft
<1>1. img \in Images /\ i \in Nat /\ img' \in Images /\ i' \in Nat
  BY DEF TypeOK
<1>2. StepsLeft \in Nat
  <2>1. CASE pc \in AtWork
    BY <1>1, <2>1, StepsDrop DEF StepsLeft
  <2>2. CASE pc \notin AtWork
    BY <1>1, <2>2, StepsDrop DEF StepsLeft
  <2> QED BY <2>1, <2>2
<1>3. CASE pc' \notin AtWork
  <2>1. StepsLeft' = 0
    BY <1>1, <1>3, StepsDrop DEF StepsLeft
  <2> QED BY <1>2, <2>1
<1>4. CASE UNCHANGED <<pc, img, i>>
  BY <1>2, <1>4 DEF StepsLeft
<1>5. pc' \notin AtWork \/ UNCHANGED <<pc, img, i>>
  BY DEF Environment, RouterBOOT, Tick, Bite, Off, Exception, KernelTakesOver, KernelCrashes,
     ResetCpu, LinuxReboots, boot, AtWork, Running
<1> QED BY <1>3, <1>4, <1>5

\* No boot goes on for ever: each step of head.S, start.S and loader_main with its handlers
\* brings its end closer, and nothing else puts it off but the next boot. Where it has
\* stopped short of Linux the watchdog is running (HangArmed); what BootResolves asks
\* besides is that the processor and the watchdog's clock go on.
THEOREM BootShortens ==
  Spec => /\ [](StepsLeft \in Nat)
          /\ [][/\ LoaderStep => StepsLeft' < StepsLeft
                /\ pc' # "head" => StepsLeft' <= StepsLeft]_vars
<1>1. ASSUME TypeOK PROVE StepsLeft \in Nat
  <2>1. img \in Images /\ i \in Nat
    BY <1>1 DEF TypeOK
  <2>2. CASE pc \in AtWork
    BY <2>1, <2>2, StepsDrop DEF StepsLeft
  <2>3. CASE pc \notin AtWork
    BY <2>1, <2>3, StepsDrop DEF StepsLeft
  <2> QED BY <2>2, <2>3
<1>2. TypeOK /\ TypeOK' /\ [Next]_vars =>
        [/\ LoaderStep => StepsLeft' < StepsLeft
         /\ pc' # "head" => StepsLeft' <= StepsLeft]_vars
  <2> SUFFICES ASSUME TypeOK, TypeOK', Next
               PROVE  /\ LoaderStep => StepsLeft' < StepsLeft
                      /\ pc' # "head" => StepsLeft' <= StepsLeft
    OBVIOUS
  <2>1. StepsLeft \in Nat
    BY <1>1
  <2>2. StepsLeft' \in Nat
    <3>1. img' \in Images /\ i' \in Nat
      BY DEF TypeOK
    <3>2. CASE pc' \in AtWork
      BY <3>1, <3>2, StepsDrop DEF StepsLeft
    <3>3. CASE pc' \notin AtWork
      BY <3>1, <3>3, StepsDrop DEF StepsLeft
    <3> QED BY <3>2, <3>3
  <2>3. LoaderStep => StepsLeft' < StepsLeft
    BY LoaderShortens
  <2>4. ASSUME pc' # "head" PROVE StepsLeft' <= StepsLeft
    <3>1. CASE LoaderStep
      BY <2>1, <2>2, <2>3, <3>1
    <3>2. CASE Environment
      BY <2>4, <3>2, EnvironmentShortens
    <3> QED BY <3>1, <3>2 DEF Next
  <2> QED BY <2>3, <2>4
<1> QED BY <1>1, <1>2, TypeCorrect, PTL DEF Spec
=============================================================================
