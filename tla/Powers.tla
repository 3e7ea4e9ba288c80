------------------------------- MODULE Powers -------------------------------
(* Numbers in places: powers of two, which a shift multiplies or divides by, and what *)
(* a row of digits comes to.                                                          *)
EXTENDS Integers, Sequences

Pow2[n \in Nat] == IF n = 0 THEN 1 ELSE 2 * Pow2[n - 1]

\* Bit k of a word.
BitOf(x, k) == (x \div Pow2[k]) % 2

\* The values of the beginnings of some digits, the highest first, in base b: each digit
\* makes what stands before it b times as much.
Values(digits, b) ==
  LET value[k \in 0 .. Len(digits)] == IF k = 0 THEN 0 ELSE b * value[k - 1] + digits[k]
  IN  value
Value(digits, b) == Values(digits, b)[Len(digits)]
=============================================================================
