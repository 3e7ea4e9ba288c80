------------------------------- MODULE PrintNum -------------------------------
(***************************************************************************)
(* Numbers as text (src/printf.c): my_dec2str, which divides by ten with   *)
(* shifts and additions, my_hex2str, and the layout of PrintNum.           *)
(*                                                                         *)
(* A character is a number: a digit stands for itself.                     *)
(***************************************************************************)
EXTENDS Powers, Sequences, SequencesExt

CONSTANTS
  Numbers, Widths,
  Word           \* 2^32

\* Words have at most 32 bits.
ASSUME PrintNumAssumption ==
  /\ Word \in Nat \ {0} /\ (Word - 1) \div 65536 < 65536
  /\ Numbers \subseteq 0 .. Word - 1 /\ Widths \subseteq Nat

Space == -1
Minus == -2

VARIABLES
  printing,            \* "start", "loop", "layout", "done"
  u, base, negFlag, length, ladjust, padc,   \* arguments of PrintNum
  A,             \* what is left of the number
  buf,
  sum, weight    \* history: what the digits in buf come to, and the next one's weight

args == <<u, base, negFlag, length, ladjust, padc>>
numVars == <<printing, args, A, buf, sum, weight>>

\* Q of my_dec2str.
Approx(a) ==
  LET q1 == ((a \div 2) + a) \div 2
      q2 == (q1 \div 16) + q1
      q3 == (q2 \div 256) + q2
  IN  ((q3 \div 65536) + q3) \div 8

\* R and N: one correction where Q is one too small; for base 16, a mask and a shift.
Digit ==
  IF base = 16 THEN A % 16
  ELSE LET r == A - 10 * Approx(A) IN IF r > 9 THEN A - 10 * (Approx(A) + 1) ELSE r

Rest ==
  IF base = 16 THEN A \div 16
  ELSE LET q == Approx(A) IN IF A - 10 * q > 9 THEN q + 1 ELSE q

Put(d) == buf' = Append(buf, d) /\ sum' = sum + d * weight /\ weight' = weight * base

\* The early returns: numbers of one digit, and ten.
Start ==
  /\ printing = "start" /\ UNCHANGED args
  /\ \/ A < base /\ Put(A) /\ A' = 0 /\ printing' = "layout"
     \/ base = 10 /\ A = 10
        /\ buf' = <<0, 1>> /\ sum' = 10 /\ weight' = 100 /\ A' = 0 /\ printing' = "layout"
     \/ A >= base /\ ~(base = 10 /\ A = 10) /\ printing' = "loop" /\ UNCHANGED <<A, buf, sum, weight>>

\* while(A > 0)
Loop ==
  /\ printing = "loop" /\ UNCHANGED args
  /\ \/ A > 0 /\ Put(Digit) /\ A' = Rest /\ UNCHANGED printing
     \/ A = 0 /\ printing' = "layout" /\ UNCHANGED <<A, buf, sum, weight>>

Repeat(ch, n) == [k \in 1 .. (IF n > 0 THEN n ELSE 0) |-> ch]

LayoutPlain ==
  LET signed == IF negFlag THEN Append(buf, Minus) ELSE buf
      pad == Repeat(IF ladjust THEN Space ELSE padc, length - Len(signed))
  IN  IF ladjust THEN Reverse(signed) \o pad ELSE Reverse(signed \o pad)

\* PrintNum behind the digits: sign, padding, and the reversal of all or of the number.
Layout ==
  LET signed == IF negFlag THEN Append(buf, Minus) ELSE buf
      pad == Repeat(IF ladjust THEN Space ELSE padc, length - Len(signed))
  IN  IF ladjust THEN Reverse(signed) \o pad
      ELSE IF negFlag /\ padc = 0 THEN Reverse(buf \o pad \o <<Minus>>)
      ELSE Reverse(signed \o pad)

Arrange ==
  /\ printing = "layout" /\ buf' = Layout /\ printing' = "done"
  /\ UNCHANGED <<args, A, sum, weight>>

NumInit ==
  /\ printing = "start" /\ u \in Numbers /\ base \in {10, 16} /\ negFlag \in BOOLEAN
  /\ (base = 16 => ~negFlag)
  /\ length \in Widths /\ ladjust \in BOOLEAN /\ padc \in {Space, 0}
  /\ A = u /\ buf = <<>> /\ sum = 0 /\ weight = 1

NumNext == Start \/ Loop \/ Arrange
NumSpec == NumInit /\ [][NumNext]_numVars

-----------------------------------------------------------------------------
\* The text of a number as C has it: flags '-' and '0', a least width.
AsInC(text) ==
  \E n \in 1 .. Len(text) : \E digits \in {SubSeq(text, k, k + n - 1) : k \in 1 .. Len(text) - n + 1} :
    LET sign == IF negFlag THEN <<Minus>> ELSE <<>>
        room == length - n - Len(sign)
    IN  /\ \A k \in 1 .. n : digits[k] \in 0 .. base - 1
        /\ Value(digits, base) = u /\ (digits[1] = 0 => u = 0 /\ n = 1)
        /\ text = IF ladjust THEN sign \o digits \o Repeat(Space, room)
                  ELSE IF padc = 0 THEN sign \o Repeat(0, room) \o digits
                  ELSE Repeat(Space, room) \o sign \o digits

NumTypeOK ==
  /\ printing \in {"start", "loop", "layout", "done"}
  /\ u \in Numbers /\ base \in {10, 16} /\ negFlag \in BOOLEAN
  /\ length \in Widths /\ ladjust \in BOOLEAN /\ padc \in {Space, 0}
  /\ A \in 0 .. Word - 1 /\ buf \in Seq(Int) /\ sum \in Nat /\ weight \in Nat \ {0}

\* What is printed reads as C prescribes for the flags, the width and the sign.
ReadsAsInC == printing = "done" => AsInC(buf)

\* The loops end: each pass leaves less.
EachPassLess == [][printing = "loop" /\ printing' = "loop" => A' < A]_numVars
=============================================================================
