------------------------------ MODULE MCCaches ------------------------------
(***************************************************************************)
(* An instance of Caches for TLC: the kernel's place in section 0, stack,  *)
(* loader and compressed kernel in section 1, the page table in section 2. *)
(***************************************************************************)
EXTENDS Caches

MCClidr == [k \in 0 .. Levels - 1 |->
              CASE k = 0 -> INSTRUCTION_DATA [] k = 1 -> UNIFIED [] OTHER -> NO_CACHE]

MCBuilds == {[spills |-> TRUE, late |-> FALSE], [spills |-> FALSE, late |-> TRUE]}
=============================================================================
