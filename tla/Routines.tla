------------------------------- MODULE Routines -------------------------------
(***************************************************************************)
(* The routines that compute without talking to a device: copying memory,  *)
(* taking the LZMA properties apart, going over the caches, reading a      *)
(* format and laying out a number.  They share no state: in a behaviour,   *)
(* one begins and the others have come to their end.                       *)
(***************************************************************************)
EXTENDS Memcpy, LzmaProperties, SetWay, Printf, PrintNum

\* There may be nothing to copy, and what is 0.
ASSUME RoutinesAssumption ==
  /\ [dst |-> 0, src |-> 0, n |-> 0] \in Jobs /\ 0 \in Byte
  /\ 0 \in PropBytes /\ 0 \in Numbers /\ 0 \in Widths

-----------------------------------------------------------------------------
(* Each routine at its end: nothing to copy, no level with a cache, ... *)

CopyEnded ==
  /\ copying = "done" /\ job = [dst |-> 0, src |-> 0, n |-> 0] /\ dst = 0 /\ src = 0 /\ end = 0
  /\ before = [x \in Memory |-> 0] /\ mem = before

PropsEnded == dividing = "ok" /\ given = 0 /\ prop0 = 0 /\ pb = 0 /\ lp = 0 /\ lc = 0

None == [type |-> NoCache, lineSize |-> 0, associativity |-> 0, numSets |-> 0]
WalkEnded ==
  /\ walking = "done" /\ cpu = [l \in Levels |-> None] /\ level = 7 /\ way = 0 /\ set = 0
  /\ lines = {} /\ todo = {}

FormatEnded ==
  reading = "done" /\ format = <<>> /\ meant = Unmeant /\ fmt = 1 /\ out = <<>> /\ filled = 0

NumEnded ==
  /\ printing = "done" /\ u = 0 /\ base = 10 /\ negFlag = FALSE
  /\ length = 0 /\ ladjust = FALSE /\ padc = Space
  /\ A = 0 /\ buf = <<0>> /\ sum = 0 /\ weight = 10

routinesVars == <<copyVars, propsVars, walkVars, formatVars, numVars>>

RoutinesInit ==
  \/ PropsEnded /\ WalkEnded /\ FormatEnded /\ NumEnded /\ CopyInit
  \/ CopyEnded /\ WalkEnded /\ FormatEnded /\ NumEnded /\ PropsInit
  \/ CopyEnded /\ PropsEnded /\ FormatEnded /\ NumEnded /\ WalkInit
  \/ CopyEnded /\ PropsEnded /\ WalkEnded /\ NumEnded /\ FormatInit
  \/ CopyEnded /\ PropsEnded /\ WalkEnded /\ FormatEnded /\ NumInit

RoutinesNext ==
  \/ CopyNext /\ UNCHANGED <<propsVars, walkVars, formatVars, numVars>>
  \/ PropsNext /\ UNCHANGED <<copyVars, walkVars, formatVars, numVars>>
  \/ WalkNext /\ UNCHANGED <<copyVars, propsVars, formatVars, numVars>>
  \/ FormatNext /\ UNCHANGED <<copyVars, propsVars, walkVars, numVars>>
  \/ NumNext /\ UNCHANGED <<copyVars, propsVars, walkVars, formatVars>>

\* As WalkSpec: the processor goes on.
RoutinesSpec ==
  /\ RoutinesInit /\ [][RoutinesNext]_routinesVars
  /\ WF_walkVars(WalkNext)

\* Every variable has its type; pointers and indices stay where they should be.
RoutinesTypeOK == CopyTypeOK /\ PropsTypeOK /\ WalkTypeOK /\ FormatTypeOK /\ NumTypeOK
=============================================================================
