------------------------------- MODULE Loader -------------------------------
(***************************************************************************)
(* One boot, from RouterBOOT's jump to the head loader (src/head.S) over   *)
(* start.S and loader_main with its two image handlers (src/loader.c) to   *)
(* the jump into the kernel, and every way a boot can stop short of that.  *)
(*                                                                         *)
(* Memory is an array of coarse cells, each holding a tag that says what   *)
(* was last written there, so that the specification can tell whether the  *)
(* loader overwrites something it still needs.  Building blocks of their   *)
(* own (the device-tree walk, the LZMA decoder, cache maintenance) appear  *)
(* here only through their results.                                        *)
(***************************************************************************)
EXTENDS Watchdog

CONSTANTS
  RamTop,        \* number of memory cells
  TEXT_BASE,     \* cell of CONFIG_SYS_TEXT_BASE: loader code, .data
  PAGE_TABLE,    \* cell of page_table (cpu.c): TEXT_BASE + 40M
  HeadPayload,   \* cell of _payload_data_begin where RouterBOOT put it
  U32,           \* modulus of the u32 arithmetic, in cells
  IPQ_ARCH, OtherArch,
  Images         \* kernel images the loader may have been built with

(***************************************************************************)
(* An image: kind is the class of its magic word, len its length; hdr is   *)
(* what fdt_check_header returns on it, props the properties fdt_get_prop  *)
(* finds.  The kernel body is bodyLen cells from cell bodyAt; when it is   *)
(* compressed, lzma is what lzma_gogogo makes of it, outLen its            *)
(* uncompressed size and reads[k] the input cell being consumed when       *)
(* output cell k is produced; its lc and lp make the probabilities take    *)
(* probsLen cells at workspace.                                            *)
(***************************************************************************)
FitProps == {"description", "load", "entry", "data", "compression", "dtb"}

ImageOK(im) ==
  /\ im.kind \in {"LEGACY", "FIT", "UNKNOWN"}
  /\ im.len \in Nat \ {0}
  /\ im.hdr \in -6 .. 0
  /\ im.props \subseteq FitProps
  /\ im.load \in Nat /\ im.ep \in Nat
  /\ im.bodyAt \in Nat /\ im.bodyLen \in Nat /\ im.outLen \in Nat
  /\ im.reads \in [0 .. im.outLen - 1 -> Nat]
  /\ im.lzma \in {"ok", "props", "data"} /\ im.probsLen \in Nat
  /\ im.dtbAt \in Nat /\ im.dtbLen \in Nat

ASSUME LoaderAssumption ==
  /\ RamTop \in Nat /\ TEXT_BASE \in Nat \ {0} /\ PAGE_TABLE \in Nat
  /\ HeadPayload \in Nat /\ U32 \in Nat \ {0}
  /\ IPQ_ARCH # OtherArch
  /\ \A im \in Images :
       /\ ImageOK(im) /\ im.len < U32 /\ im.bodyLen < U32
       \* RouterBOOT loads the ELF file clear of the place it relocates to
       /\ HeadPayload + im.len < TEXT_BASE - 1
       /\ TEXT_BASE + im.len + 2 < PAGE_TABLE
       /\ PAGE_TABLE < RamTop

VARIABLES
  pc,            \* where the CPU is
  mem,           \* contents of the memory cells
  cr,            \* bits set in SCTLR: subset of {"I", "C", "M"}
  img,           \* the image this boot's loader carries
  r_arch,        \* ARCH as RouterBOOT passed it in r1
  kernel_entry, kernel_p1, kernel_p2,
  ret,           \* return value of the image handler
  lz,            \* return value of lzma_gogogo, which the handler drops
  i              \* index of the copy loop being executed

vars == <<wdt, pc, mem, cr, img, r_arch, kernel_entry, kernel_p1, kernel_p2,
          ret, lz, i>>

-----------------------------------------------------------------------------
(* Memory layout: src/loader.lds, src/loader2.lds, src/start.S, src/cpu.c *)

Loc == 0 .. RamTop - 1

HDR       == 2                        \* the legacy header: magic, the rest
STACK     == TEXT_BASE - 1            \* grows down from TEXT_BASE
ImageBase == TEXT_BASE + 1            \* _kernel_data_start
Bss(im)   == ImageBase + im.len       \* _bss_start
WorkspaceOnBss(im) == Bss(im)  \* a mutated form: loader.lds without the gap
Workspace(im) == Bss(im) + 1          \* workspace

\* What the running loader cannot lose.
Vital(im) ==
  {STACK, TEXT_BASE, Bss(im)} \cup (IF "M" \in cr THEN {PAGE_TABLE} ELSE {})

\* Junk is whatever this boot did not put there.
Junk         == <<"junk", 0>>
Code         == <<"code", 0>>
BssCell      == <<"bss", 0>>
Table        == <<"table", 0>>
Probs        == <<"probs", 0>>
Img(k)       == <<"img", k>>
Kernel(k)    == <<"kernel", k>>
Tags         == {"junk", "code", "bss", "table", "probs", "img", "kernel"}

\* What the RAM holds where the kernel body belongs, once it is in place.
Body(im, k) == IF im.kind = "LEGACY" THEN Img(HDR + k) ELSE Kernel(k)
PlacedLen(im) == IF im.kind = "LEGACY" THEN im.bodyLen ELSE im.outLen

\* The loader.bin that head.S copies: code, then the image.
Payload(k) == IF k = 0 THEN Code ELSE Img(k - 1)

\* A step that stores v at a and goes on at `next', unless the store hits no
\* RAM ("abort": a data abort) or something the loader is running on.
Store(a, v, next) ==
  IF a \in Loc
  THEN /\ mem' = [mem EXCEPT ![a] = v]
       /\ pc' = IF a \in Vital(img) THEN "wild" ELSE next
  ELSE mem' = mem /\ pc' = "abort"

Read(a) == IF a \in Loc THEN mem[a] ELSE Junk

\* A load followed by such a store.
Move(from, to, next) ==
  IF from \in Loc THEN Store(to, mem[from], next) ELSE mem' = mem /\ pc' = "abort"

-----------------------------------------------------------------------------
(* RouterBOOT and the SoC (external). *)

regs == <<kernel_entry, kernel_p1, kernel_p2>>
results == <<ret, lz>>
boot == <<img, r_arch>>

\* The SoC has been reset: RouterBOOT puts the ELF file in RAM and jumps to
\* the head loader.  What earlier boots left in RAM is junk to this one, the
\* loader's variables included: they keep their values.
RouterBOOT ==
  /\ pc = "off" /\ pc' = "head"
  /\ img' \in Images
  /\ r_arch' \in {IPQ_ARCH, OtherArch}
  /\ cr' \in {{}, {"I"}}
  /\ wdt' \in WatchdogHandedOver(wdt.cpu)
  /\ mem' = [a \in Loc |-> IF a - HeadPayload \in 0 .. img'.len
                           THEN Payload(a - HeadPayload) ELSE Junk]
  /\ UNCHANGED <<regs, results, i>>

Off ==
  /\ pc' = "off" /\ wdt' = WatchdogReset(wdt.cpu) /\ cr' = {}
  /\ UNCHANGED <<mem, boot, regs, results, i>>

Tick == pc # "off" /\ Countdown /\ UNCHANGED <<pc, mem, cr, boot, regs, results, i>>

Bite == pc # "off" /\ Expired /\ Off

-----------------------------------------------------------------------------
(* head.S and start.S *)

\* relocate_code up to its copy loop: the watchdog is set up again.
HeadWatchdog ==
  /\ pc = "head" /\ pc' = "copy"
  /\ WatchdogResetup
  /\ i' = 0
  /\ UNCHANGED <<mem, cr, boot, regs, results>>

CopyGoesOnShort(next) == next < img.len

\* "cmp r0, r2; blo copy_loop": is the source pointer below the payload's end?
CopyGoesOn(next) == next < img.len + 1

\* One pass of copy_loop; the test comes after the copy.
HeadCopy ==
  /\ pc = "copy"
  /\ mem' = [mem EXCEPT ![TEXT_BASE + i] = Read(HeadPayload + i)]
  /\ i' = i + 1
  /\ pc' = IF CopyGoesOn(i + 1) THEN "copy" ELSE "start"
  /\ UNCHANGED <<wdt, cr, boot, regs, results>>

StartKeepsBss ==
  /\ pc = "start" /\ pc' = "main"
  /\ UNCHANGED <<wdt, mem, cr, boot, regs, results, i>>

\* start.S: the vectors now point at its dead loop, .bss is cleared.
Start ==
  /\ pc = "start" /\ pc' = "main"
  /\ mem' = [mem EXCEPT ![Bss(img)] = BssCell]
  /\ kernel_entry' = 0 /\ kernel_p2' = 0
  /\ UNCHANGED <<wdt, cr, boot, kernel_p1, results, i>>

-----------------------------------------------------------------------------
(* loader_main *)

FailQuietly(r) == ret' = r /\ pc' = "spin" /\ UNCHANGED wdt

\* "Auto reboot in 5 sec": arm the watchdog, loop for ever.
Fail(r) == ret' = r /\ pc' = "spin" /\ WatchdogSetup(5)

\* The magic word, if the image's first cell got here.
Magic == IF mem[ImageBase] = Img(0) THEN img.kind ELSE "UNKNOWN"

LoaderMain ==
  /\ pc = "main"
  /\ kernel_p1' = r_arch
  /\ \/ r_arch # IPQ_ARCH /\ Fail(-100)
     \/ r_arch = IPQ_ARCH /\ Magic = "UNKNOWN" /\ Fail(-100)
     \/ /\ r_arch = IPQ_ARCH /\ Magic # "UNKNOWN"
        /\ pc' = IF Magic = "LEGACY" THEN "legacy" ELSE "fit"
        /\ ret' = -100
        /\ UNCHANGED wdt
  /\ lz' = 0 /\ i' = 0
  /\ UNCHANGED <<mem, cr, boot, kernel_entry, kernel_p2>>

\* Caches and MMU off (the steps of it are in module Caches).
CleanupBeforeLinux == cr' = cr \ {"I", "C", "M"}

\* cleanup_before_linux, then kernel_entry(kernel_p0, kernel_p1, kernel_p2).
Enter ==
  /\ pc = "enter" /\ pc' = "kernel"
  /\ CleanupBeforeLinux
  /\ UNCHANGED <<wdt, mem, boot, regs, results, i>>

\* Should the kernel return: reset_cpu.  On IPQ4XXX dropping PS_HOLD resets
\* the SoC at once, on IPQ806X the watchdog is left to bite.
ResetCpu ==
  /\ pc = "kernel"
  /\ \/ wdt.cpu = "IPQ4XXX" /\ Off
     \/ /\ wdt.cpu = "IPQ806X" /\ pc' = "spin"
        /\ wdt' = [wdt EXCEPT !.en = TRUE, !.route = TRUE, !.left = 0]
        /\ UNCHANGED <<mem, cr, boot, regs, results, i>>

-----------------------------------------------------------------------------
(* handle_legacy_header *)

\* kern_image_len - sizeof(legacy_image_header_t), both u32.
LegacyRoom ==
  IF img.len >= HDR THEN img.len - HDR ELSE img.len - HDR + U32

LegacyCheck ==
  /\ pc = "legacy"
  /\ \/ LegacyRoom < img.bodyLen /\ Fail(-99)
     \/ LegacyRoom >= img.bodyLen /\ pc' = "lcopy" /\ UNCHANGED <<wdt, ret>>
  /\ UNCHANGED <<mem, cr, boot, regs, lz, i>>

\* my_memcpy(ih_load, header + sizeof header, ih_size), a cell at a time.
LegacyCopy ==
  /\ pc = "lcopy" /\ i < img.bodyLen
  /\ Move(ImageBase + HDR + i, img.load + i, "lcopy")
  /\ i' = i + 1
  /\ UNCHANGED <<wdt, cr, boot, regs, results>>

LegacyDone ==
  /\ pc = "lcopy" /\ i >= img.bodyLen
  /\ kernel_entry' = img.ep /\ ret' = 0 /\ pc' = "enter"
  /\ UNCHANGED <<wdt, mem, cr, boot, kernel_p1, kernel_p2, lz, i>>

-----------------------------------------------------------------------------
(* handle_fit_header *)

PropOrder == <<"description", "load", "entry", "data", "compression", "dtb">>

\* The handler's return value when the j-th lookup fails.
PropError(j) == -99 + j

\* The property at whose lookup the handler gives up, if any.
FirstMissing(im) ==
  {j \in 1 .. 6 : /\ PropOrder[j] \notin im.props
                  /\ \A k \in 1 .. j - 1 : PropOrder[k] \in im.props}

\* dst < src: the kernel goes below the image it comes from.
LoadBelowImage(im) == im.load < ImageBase + im.bodyAt

FitCheck ==
  /\ pc = "fit"
  /\ \/ img.hdr # 0 /\ Fail(-99)
     \/ img.hdr = 0 /\ \E j \in FirstMissing(img) : Fail(PropError(j))
     \/ /\ img.hdr = 0 /\ FirstMissing(img) = {}
        /\ img.bodyLen >= img.len /\ Fail(-99)
     \/ /\ img.hdr = 0 /\ FirstMissing(img) = {} /\ img.bodyLen < img.len
        /\ WatchdogSetup(30)
        /\ pc' = IF LoadBelowImage(img) THEN "caches" ELSE "cleanup"
        /\ UNCHANGED ret
  /\ UNCHANGED <<mem, cr, boot, regs, lz, i>>

\* enable_caches: the page table is written, MMU and caches go on.
EnableCaches ==
  /\ pc = "caches" /\ pc' = "lzma"
  /\ mem' = [mem EXCEPT ![PAGE_TABLE] = Table]
  /\ cr' = {"I", "C", "M"}
  /\ UNCHANGED <<wdt, boot, regs, results, i>>

\* Where LzmaDecode sets up its probabilities, lowest first.  Nothing in the code
\* compares their number with the room there is.
ProbsCells == Workspace(img) .. Workspace(img) + img.probsLen - 1

\* lzma_init_props, then the probabilities.  As with any store, those that hit what
\* the loader is running on, or no RAM, are its last; what is vital lies in RAM.
LzmaBegin ==
  /\ pc = "lzma"
  /\ IF img.lzma = "props"
     THEN lz' = -1 /\ pc' = "cleanup" /\ UNCHANGED mem
     ELSE /\ mem' = [a \in Loc |-> IF a \in ProbsCells THEN Probs ELSE mem[a]]
          /\ pc' = IF ProbsCells \cap Vital(img) # {} THEN "wild"
                   ELSE IF ProbsCells \subseteq Loc THEN "decode" ELSE "abort"
          /\ UNCHANGED lz
  /\ i' = 0
  /\ UNCHANGED <<wdt, cr, boot, regs, ret>>

\* Is the compressed data that output cell k comes from still in place?
InputIntact(k) ==
  LET n == img.bodyAt + img.reads[k] IN Read(ImageBase + n) = Img(n)

\* LzmaDecode produces the next cell of the kernel.
LzmaDecode ==
  /\ pc = "decode" /\ i < img.outLen
  /\ Store(img.load + i, IF InputIntact(i) THEN Kernel(i) ELSE Junk, "decode")
  /\ i' = i + 1
  /\ UNCHANGED <<wdt, cr, boot, regs, results>>

\* LzmaDecode finds the stream damaged; lzma_decompress prints where.  (Should that
\* read no RAM, it is an Exception.)
LzmaError ==
  /\ pc = "decode"
  /\ img.lzma = "data" \/ (i < img.outLen /\ ~InputIntact(i))
  /\ lz' = -2 /\ pc' = "cleanup"
  /\ UNCHANGED <<wdt, mem, cr, boot, regs, ret, i>>

LzmaDone ==
  /\ pc = "decode" /\ i >= img.outLen /\ img.lzma = "ok"
  /\ pc' = "cleanup"
  /\ UNCHANGED <<wdt, mem, cr, boot, regs, results, i>>

\* The caches go off again, whatever lzma_gogogo returned.
FitCleanup ==
  /\ pc = "cleanup" /\ pc' = "dtb"
  /\ CleanupBeforeLinux
  /\ i' = 0
  /\ UNCHANGED <<wdt, mem, boot, regs, results>>

\* my_memcpy(workspace, dtb_data, dtb_body_len).
DtbCopy ==
  /\ pc = "dtb" /\ i < img.dtbLen
  /\ Move(ImageBase + img.dtbAt + i, Workspace(img) + i, "dtb")
  /\ i' = i + 1
  /\ UNCHANGED <<wdt, cr, boot, regs, results>>

FitDone ==
  /\ pc = "dtb" /\ i >= img.dtbLen
  /\ kernel_entry' = img.ep /\ kernel_p2' = Workspace(img)
  /\ ret' = 0 /\ pc' = "enter"
  /\ UNCHANGED <<wdt, mem, cr, boot, kernel_p1, lz, i>>

-----------------------------------------------------------------------------
(* What else may happen. *)

\* States in which loader_main runs with its own vector table installed.
Running == {"main", "legacy", "lcopy", "fit", "caches", "lzma", "decode",
            "cleanup", "dtb", "enter"}

\* Any exception while the loader runs ends in vector_table_stub's loop.
Exception ==
  /\ pc \in Running /\ pc' = "fault"
  /\ UNCHANGED <<wdt, mem, cr, boot, regs, results, i>>

\* The first n cells of the kernel body, of the device tree, are in place.
BodyPlaced(n) == \A k \in 0 .. n - 1 : Read(img.load + k) = Body(img, k)
DtbPlaced(n) ==
  \A k \in 0 .. n - 1 : Read(Workspace(img) + k) = Img(img.dtbAt + k)

\* Everything the kernel needs is where it is told to find it.
Placed ==
  /\ BodyPlaced(PlacedLen(img))
  /\ img.kind = "FIT" => DtbPlaced(img.dtbLen)

\* The kernel (external): a sound one may take over, watchdog included, and
\* may later reboot; any may crash before it has vectors of its own.
KernelTakesOver ==
  /\ pc = "kernel" /\ Placed /\ pc' = "linux"
  /\ wdt' = WatchdogReset(wdt.cpu)
  /\ UNCHANGED <<mem, cr, boot, regs, results, i>>

KernelCrashes ==
  /\ pc = "kernel"
  /\ pc' = IF mem[TEXT_BASE] = Code THEN "fault" ELSE "wild"
  /\ UNCHANGED <<wdt, mem, cr, boot, regs, results, i>>

LinuxReboots == pc = "linux" /\ Off

-----------------------------------------------------------------------------
Init ==
  /\ pc = "off" /\ cr = {}
  /\ \E cpu \in CPU_TYPES : wdt = WatchdogReset(cpu)
  /\ mem = [a \in Loc |-> Junk]
  /\ img \in Images /\ r_arch = IPQ_ARCH
  /\ kernel_entry = RamTop /\ kernel_p1 = IPQ_ARCH /\ kernel_p2 = RamTop
  /\ ret = 0 /\ lz = 0 /\ i = 0

\* The loader's own instructions.
LoaderStep ==
  \/ HeadWatchdog \/ HeadCopy \/ Start \/ LoaderMain
  \/ LegacyCheck \/ LegacyCopy \/ LegacyDone
  \/ FitCheck \/ EnableCaches \/ LzmaBegin \/ LzmaDecode \/ LzmaError
  \/ LzmaDone \/ FitCleanup \/ DtbCopy \/ FitDone
  \/ Enter

Environment ==
  \/ RouterBOOT \/ Tick \/ Bite \/ Exception
  \/ KernelTakesOver \/ KernelCrashes \/ ResetCpu \/ LinuxReboots

Next == LoaderStep \/ Environment

\* The CPU executes instructions and the watchdog's clock runs.  Nothing is
\* asked of RouterBOOT, of exceptions or of the kernel.
Fairness == WF_vars(LoaderStep) /\ WF_vars(Tick) /\ WF_vars(Bite)

Spec == Init /\ [][Next]_vars
FairSpec == Spec /\ Fairness

-----------------------------------------------------------------------------
TypeOK ==
  /\ WatchdogTypeOK
  /\ pc \in Running \cup {"off", "head", "copy", "start", "kernel", "linux",
                          "spin", "fault", "abort", "wild"}
  /\ mem \in [Loc -> Tags \X Nat]
  /\ cr \subseteq {"I", "C", "M"}
  /\ img \in Images /\ r_arch \in {IPQ_ARCH, OtherArch}
  /\ kernel_entry \in Nat /\ kernel_p2 \in Nat
  /\ kernel_p1 \in {IPQ_ARCH, OtherArch}
  /\ ret \in -100 .. 0 /\ lz \in -2 .. 0 /\ i \in Nat

\* The images the loader's memory map has room for.  Nothing in the code checks
\* this: handle_fit_header never looks at the uncompressed size, and LzmaDecode
\* never at the room for its probabilities.
FitsLegacy(im) ==
  im.kind = "LEGACY" /\ im.len >= HDR /\ im.load + im.bodyLen <= STACK

FitsFit(im) ==
  /\ im.kind = "FIT" /\ im.lzma = "ok"
  /\ im.load + im.outLen <= STACK
  /\ im.bodyAt + im.bodyLen <= im.len
  /\ \A k \in 0 .. im.outLen - 1 : im.reads[k] < im.bodyLen
  /\ Workspace(im) + im.probsLen <= PAGE_TABLE
  /\ im.dtbAt + im.dtbLen <= im.len
  /\ Workspace(im) + im.dtbLen <= RamTop

Fits(im) == FitsLegacy(im) \/ FitsFit(im)

\* When the kernel of an image that fits is entered, its whole body is at its
\* load address and, for a FIT image, its device tree at workspace: no copy
\* loop stopped short, and nothing written later (the probabilities, the page
\* table, the device tree) landed on it.
KernelPlaced == pc = "kernel" /\ Fits(img) => Placed

\* Loading an image that fits never overwrites the loader's own code, stack
\* or .bss, nor the page table while the MMU walks it, be it with the kernel, the
\* device tree or the probabilities, and nothing is written to, or copied from,
\* where there is no RAM.
NothingVitalLost == Fits(img) => pc \notin {"wild", "abort"}

\* What loader_main hands the kernel: caches and MMU off, the ARCH number the
\* loader was built for, the entry point of this boot's image, and a parameter
\* that is this boot's device tree (FIT) or zero (legacy), whatever earlier
\* boots left in RAM.
EntryContract ==
  pc = "kernel" =>
    /\ cr = {}
    /\ kernel_p1 = IPQ_ARCH
    /\ kernel_entry = img.ep
    /\ kernel_p2 = IF img.kind = "FIT" THEN Workspace(img) ELSE 0

\* From the head loader's first call until the kernel takes the watchdog over
\* (or some overwritten code runs), it is running and will reset the SoC: every dead loop in between, the
\* exception vectors' included, is left by a reset.
HangArmed == pc \notin {"off", "head", "linux", "wild"} => Armed

\* The dead loop after "Auto reboot in 5 sec" lasts at most that long, however
\* much time the watchdog had left before.
RebootIn5 == pc = "spin" => wdt.left <= Ticks(5)

\* Every boot ends with a running kernel or with another boot; no hang is left
\* to somebody with a power switch.  (Overwritten code may do anything.)
BootResolves == pc = "head" ~> pc \in {"linux", "off", "wild"}

\* What handle_legacy_header copies is part of the image it was given.
LegacySizeChecked == pc = "lcopy" => HDR + img.bodyLen <= img.len

\* No kernel is entered unless it was put in place.
StartedIsPlaced == pc = "kernel" => Placed

-----------------------------------------------------------------------------
(* The inductive invariant behind these properties. *)

\* Which image handler runs, and what it has handed over so far.
PathInv ==
  /\ pc \in {"legacy", "lcopy"} => img.kind = "LEGACY"
  /\ pc \in {"fit", "caches", "lzma", "decode", "cleanup", "dtb"} => img.kind = "FIT"
  /\ pc \in {"enter", "kernel"} => img.kind \in {"LEGACY", "FIT"}
  /\ pc \in (Running \ {"main"}) \cup {"kernel"} => kernel_p1 = IPQ_ARCH
  /\ pc \in Running \ {"enter"} => kernel_p2 = 0
  /\ pc \in {"enter", "kernel"} =>
       /\ kernel_entry = img.ep
       /\ kernel_p2 = IF img.kind = "FIT" THEN Workspace(img) ELSE 0
  /\ pc \in {"dtb", "kernel"} => cr = {}

\* The first n cells of loader.bin are where head.S copies it to.
Copied(n) == \A k \in 0 .. n - 1 : mem[TEXT_BASE + k] = Payload(k)

\* What memory holds at each point, for an image that fits.
MemInv ==
  /\ pc \notin {"wild", "abort"}
  /\ pc \in {"head", "copy"} =>
       \A k \in 0 .. img.len : mem[HeadPayload + k] = Payload(k)
  /\ pc = "copy" => i <= img.len /\ Copied(i)
  /\ pc \in Running \cup {"start", "kernel"} => Copied(img.len + 1)
  /\ pc = "legacy" => i = 0
  /\ pc = "lcopy" => HDR + img.bodyLen <= img.len /\ BodyPlaced(i)
  /\ pc = "decode" => BodyPlaced(i)
  /\ pc \in {"cleanup", "dtb"} => BodyPlaced(img.outLen)
  /\ pc = "dtb" => DtbPlaced(i)
  /\ pc \in {"enter", "kernel"} => Placed

IInv ==
  /\ TypeOK /\ HangArmed /\ RebootIn5
  /\ PathInv
  /\ Fits(img) => MemInv
=============================================================================
