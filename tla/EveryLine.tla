----------------------------- MODULE EveryLine -----------------------------
(***************************************************************************)
(* What a maintenance operation on all data caches promises: it goes over  *)
(* every line there is, in some order, and over nothing else.              *)
(***************************************************************************)
VARIABLES
  lines,         \* the lines there are
  todo           \* the lines it has not been on

vars == <<lines, todo>>

Init == todo = lines

Visit == \E l \in todo : todo' = todo \ {l} /\ UNCHANGED lines

\* In the end it has been on all of them.
Complete == <>(todo = {})

Spec == Init /\ [][Visit]_vars /\ Complete
=============================================================================
