------------------------------ MODULE MCLoader ------------------------------
(***************************************************************************)
(* Instances of Loader for TLC.  Memory, in cells: the kernel's place and  *)
(* the head loader's payload from 0, the stack at 6, the loader at 7, its  *)
(* image at 8 .. 12, .bss at 13, workspace from 14, the page table at 17.  *)
(***************************************************************************)
EXTENDS Loader

MCFit ==
  [kind |-> "FIT", len |-> 5, hdr |-> 0, props |-> FitProps,
   load |-> 1, ep |-> 1, bodyAt |-> 1, bodyLen |-> 2, outLen |-> 3,
   reads |-> [k \in 0 .. 2 |-> IF k = 0 THEN 0 ELSE 1],
   lzma |-> "ok", probsLen |-> 3, dtbAt |-> 3, dtbLen |-> 2]

MCLegacy ==
  [MCFit EXCEPT !.kind = "LEGACY", !.load = 2, !.ep = 3, !.bodyLen = 3]

\* Images that are refused, or that the memory map has no room for.
MCRefused ==
  {[MCFit EXCEPT !.hdr = -2],
   [MCFit EXCEPT !.props = FitProps \ {"entry", "dtb"}],
   [MCFit EXCEPT !.bodyLen = 5],
   [MCFit EXCEPT !.kind = "UNKNOWN"],
   [MCLegacy EXCEPT !.bodyLen = 4]}

\* A load address above the image; compressed data that is damaged; with
\* properties lzma_init_props refuses; a kernel too large for its place; more
\* probabilities than there is room for below the page table; a device tree that
\* reaches behind the end of RAM.
MCLoadAbove == [MCFit EXCEPT !.load = 10]
MCDamaged   == [MCFit EXCEPT !.lzma = "data"]
MCBadProps  == [MCFit EXCEPT !.lzma = "props"]
MCTooLarge  == [MCFit EXCEPT !.outLen = 14, !.reads = [k \in 0 .. 13 |-> k \div 7]]

MCManyProbs == [MCFit EXCEPT !.probsLen = 4]
MCLongTree  == [MCFit EXCEPT !.dtbLen = 5]

\* A legacy image cut short inside its header.
MCShort == [MCLegacy EXCEPT !.len = 1, !.bodyLen = 4]

MCAll == {MCFit, MCLegacy, MCLoadAbove, MCDamaged, MCBadProps, MCTooLarge, MCManyProbs,
          MCLongTree, MCShort} \cup MCRefused

MCOnlyDamaged   == {MCDamaged, MCBadProps}
MCOnlyShort     == {MCLegacy, MCShort}
=============================================================================
