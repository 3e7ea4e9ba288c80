-------------------------------- MODULE Lz77 --------------------------------
(***************************************************************************)
(* What an LZMA stream denotes: a text that grows, symbol by symbol, by a  *)
(* literal byte or by a repetition of what stands some distance back, and  *)
(* the four distances used last, the latest first.  The repetition may     *)
(* run into the text it makes, and is cut off where the text is full.      *)
(***************************************************************************)
EXTENDS Integers, Sequences

CONSTANTS
  Bytes,         \* values of a byte
  Sizes,         \* sizes a header may announce
  Lengths        \* lengths of a match

VARIABLES
  text,          \* the text so far
  recent,        \* the distances used last
  limit,         \* the announced size
  ended          \* whether decoding has come to an end

Ranks == 0 .. 3

Room == ~ended /\ Len(text) < limit

Literal ==
  /\ Room
  /\ \E b \in Bytes : text' = Append(text, b)
  /\ UNCHANGED <<recent, limit, ended>>

\* n more bytes, each a copy of the one d before it.
Repeat(d, n) ==
  /\ Room /\ d \in 1 .. Len(text)
  /\ text' \in Seq(Bytes)
  /\ Len(text') = IF Len(text) + n <= limit THEN Len(text) + n ELSE limit
  /\ \A k \in 1 .. Len(text) : text'[k] = text[k]
  /\ \A k \in Len(text) + 1 .. Len(text') : text'[k] = text'[k - d]
  /\ UNCHANGED <<limit, ended>>

\* A match at a new distance, which the oldest one makes room for.
Match ==
  \E d \in 1 .. Len(text), n \in Lengths :
    /\ Repeat(d, n)
    /\ recent' = [i \in Ranks |-> IF i = 0 THEN d ELSE recent[i - 1]]

\* A match at one of the last distances, which comes to the front.
Rep(r) ==
  /\ \E n \in Lengths : Repeat(recent[r], n)
  /\ recent' = [i \in Ranks |-> IF i = 0 THEN recent[r]
                                ELSE IF i <= r THEN recent[i - 1] ELSE recent[i]]

\* One byte at the last distance.
ShortRep == Repeat(recent[0], 1) /\ UNCHANGED recent

End == ~ended /\ ended' = TRUE /\ UNCHANGED <<text, recent, limit>>

Init ==
  /\ text = << >> /\ recent = [i \in Ranks |-> 1]
  /\ limit \in Sizes /\ ended = FALSE

Next == Literal \/ Match \/ (\E r \in Ranks : Rep(r)) \/ ShortRep \/ End

Spec == Init /\ [][Next]_<<text, recent, limit, ended>>
=============================================================================
