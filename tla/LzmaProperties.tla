--------------------------- MODULE LzmaProperties ---------------------------
(***************************************************************************)
(* LzmaDecodeProperties (src/LzmaDecode.c): the first byte of the header   *)
(* is taken apart by repeated subtraction.                                 *)
(***************************************************************************)
EXTENDS Integers

CONSTANT PropBytes \* values of the first byte

ASSUME PropertiesAssumption == PropBytes \subseteq Nat

VARIABLES
  dividing,            \* "test", "pb", "lp", "ok", "error"
  given,         \* propsData[0]
  prop0, pb, lp, lc

propsVars == <<dividing, given, prop0, pb, lp, lc>>

\* The number of properties there are.
Limit == 9 * 5 * 5

Test ==
  /\ dividing = "test"
  /\ IF prop0 >= Limit THEN dividing' = "error" /\ UNCHANGED pb ELSE dividing' = "pb" /\ pb' = 0
  /\ UNCHANGED <<given, prop0, lp, lc>>

PbLoopLate ==
  /\ dividing = "pb"
  /\ IF prop0 > 9 * 5
       THEN pb' = pb + 1 /\ prop0' = prop0 - 9 * 5 /\ UNCHANGED <<dividing, lp>>
       ELSE dividing' = "lp" /\ lp' = 0 /\ UNCHANGED <<pb, prop0>>
  /\ UNCHANGED <<given, lc>>

\* for (pb = 0; prop0 >= 9 * 5; pb++, prop0 -= 9 * 5);
PbLoop ==
  /\ dividing = "pb"
  /\ IF prop0 >= 9 * 5
       THEN pb' = pb + 1 /\ prop0' = prop0 - 9 * 5 /\ UNCHANGED <<dividing, lp>>
       ELSE dividing' = "lp" /\ lp' = 0 /\ UNCHANGED <<pb, prop0>>
  /\ UNCHANGED <<given, lc>>

\* for (lp = 0; prop0 >= 9; lp++, prop0 -= 9);
LpLoop ==
  /\ dividing = "lp"
  /\ IF prop0 >= 9
       THEN lp' = lp + 1 /\ prop0' = prop0 - 9 /\ UNCHANGED <<dividing, lc>>
       ELSE dividing' = "ok" /\ lc' = prop0 /\ UNCHANGED <<lp, prop0>>
  /\ UNCHANGED <<given, pb>>

PropsInit ==
  /\ dividing = "test" /\ given \in PropBytes /\ prop0 = given
  /\ pb = 0 /\ lp = 0 /\ lc = 0

PropsNext == Test \/ PbLoop \/ LpLoop

PropsSpec == PropsInit /\ [][PropsNext]_propsVars

-----------------------------------------------------------------------------
PropsTypeOK ==
  /\ dividing \in {"test", "pb", "lp", "ok", "error"}
  /\ given \in PropBytes
  /\ prop0 \in 0 .. given
  /\ pb \in 0 .. 4 /\ lp \in 0 .. 4 /\ lc \in 0 .. 8

\* The subtractions compute what the divisions in the comment beside them would,
\* and refuse the bytes for which those would make pb too large.
AsCommented ==
  LET remainder == given \div 9 IN
    /\ dividing = "ok" => lc = given % 9 /\ pb = remainder \div 5 /\ lp = remainder % 5
    /\ dividing = "error" => remainder \div 5 > 4
=============================================================================
