---------------------------- MODULE PlainMemory ----------------------------
(***************************************************************************)
(* What the loader's program takes memory to be: it finds in each line     *)
(* what it last stored there.  Switching caches on and off is no part of   *)
(* it.                                                                     *)
(***************************************************************************)
CONSTANTS Line, Word

VARIABLES
  stored,        \* what the program last stored in each line
  found          \* what it would find there now

Init == stored \in [Line -> Word] /\ found = stored

Store(l, w) ==
  /\ stored' = [stored EXCEPT ![l] = w]
  /\ found' = [found EXCEPT ![l] = w]

Next == \E l \in Line, w \in Word : Store(l, w)

Spec == Init /\ [][Next]_<<stored, found>>
=============================================================================
