----------------------------- MODULE RangeCoder -----------------------------
(***************************************************************************)
(* The range decoder under the LZMA decoder (the RC_ and Bit macros of     *)
(* src/LzmaDecode.c), from the header that lzma.c takes off the data to    *)
(* the last bit, or to the bytes shown after an error.  Which bit is asked *)
(* for next, under which probability, and when the symbol loop objects to  *)
(* what it reads is up to that loop (module LzmaDecode), arbitrary here.   *)
(*                                                                         *)
(* The widths are parameters: the code has Byte = 2^8, Top = 2^24,         *)
(* Total = 2^11, Unit = 2^5, Header = 13, First = 5 and ErrorDump = 16.    *)
(***************************************************************************)
EXTENDS Integers

CONSTANTS
  Byte,          \* values of a byte
  Top,           \* kTopValue
  Total,         \* kBitModelTotal
  Unit,          \* 2^kNumMoveBits
  Header,        \* bytes lzma_init_props takes
  First,         \* bytes RC_INIT2 takes
  ErrorDump,     \* bytes lzma_decompress shows after an error
  Data,          \* the compressed data: its size, and the room behind it in RAM
  Probs          \* the probabilities' indices

Word == Byte * Top

\* The sizes fit together: the least interval a bit can leave, times a byte,
\* is normal again.  The data is of any size, shorter than its header included:
\* handle_fit_header passes on what the FIT gives.
ASSUME RangeCoderAssumption ==
  /\ Byte \in Nat /\ Byte >= 2 /\ Top \in Nat /\ Total \in Nat /\ Unit \in Nat
  /\ Unit >= 2 /\ Total >= 2 * Unit /\ Top >= Total
  /\ (Top \div Total) * (Unit - 1) * Byte >= Top
  /\ (Top \div 2) * Byte >= Top
  /\ Header \in Nat /\ First \in Nat \ {0} /\ ErrorDump \in Nat
  /\ Data \subseteq [size : 0 .. Word - 1, room : Nat]

VARIABLES
  pc,            \* "header", "init", "bit": next bit, "split": normalised, "done";
                 \* "dumped": gave up on an error, "abort": read outside RAM
  n,             \* bytes of header or RC_INIT2 taken so far
  size, room,    \* _lzma_datasize, and the bytes of RAM behind the data
  taken,         \* history: bytes taken off the data
  left,          \* lzma_datasize; then BufferLim - Buffer, modulo Word
  range, code,   \* Range, Code
  p,             \* the probabilities
  sound,         \* history: neither RC_INIT2 nor the halving of an odd Range
                 \* has put Code outside Range
  number,        \* history: the number the bytes spell, from those of RC_INIT2 on
  low            \* history: the least number an encoder of the bits read could
                 \* have written (it has as many digits as number)

encoded == <<number, low>>
vars == <<pc, n, size, room, taken, left, range, code, p, sound, encoded>>

\* One more byte b at the end of Code.
Shifted(b) == (code * Byte + b) % Word

-----------------------------------------------------------------------------
InRam == taken < size + room

\* A data abort: the vector table hangs the CPU.
Abort == pc' = "abort" /\ UNCHANGED <<n, size, room, taken, left, range, code, p, sound, encoded>>

\* lzma_get_byte, for the properties and the size in the header.
GetByte ==
  /\ pc = "header" /\ n < Header
  /\ \/ ~InRam /\ Abort
     \/ /\ InRam
        /\ n' = n + 1 /\ taken' = taken + 1
        /\ left' = (left - 1) % Word
        /\ UNCHANGED <<pc, size, room, range, code, p, sound, encoded>>

\* LzmaDecodeProperties refuses what they say.
PropsRefused ==
  /\ pc = "header" /\ n = Header
  /\ pc' = "done"
  /\ UNCHANGED <<n, size, room, taken, left, range, code, p, sound, encoded>>

\* The probabilities are reset.
StartDecode ==
  /\ pc = "header" /\ n = Header
  /\ pc' = "init" /\ n' = 0
  /\ code' = 0 /\ range' = Word - 1
  /\ p' = [c \in Probs |-> Total \div 2]
  /\ UNCHANGED <<size, room, taken, left, sound, encoded>>

NoTest == TRUE

\* RC_TEST: is Buffer at BufferLim?
Test == left # 0

\* LZMA_RESULT_DATA_ERROR.  lzma_decompress then shows the first bytes behind the
\* header, for an error leaves ip at 0, without a look at the size.
DataError ==
  /\ pc' = IF Header + ErrorDump <= size + room THEN "dumped" ELSE "abort"
  /\ UNCHANGED <<n, size, room, taken, left, range, code, p, sound, encoded>>

InitByte ==
  /\ pc = "init" /\ n < First
  /\ \/ ~Test /\ DataError
     \/ Test /\ ~InRam /\ Abort
     \/ /\ Test /\ InRam
        /\ \E b \in 0 .. Byte - 1 : code' = Shifted(b)
        /\ n' = n + 1 /\ taken' = taken + 1 /\ left' = (left - 1) % Word
        /\ UNCHANGED <<pc, size, room, range, p, sound, encoded>>

InitDone ==
  /\ pc = "init" /\ n = First
  /\ pc' = "bit" /\ sound' = (code < range)
  /\ number' = code /\ low' = 0
  /\ UNCHANGED <<n, size, room, taken, left, range, code, p>>

\* RC_NORMALIZE, once before each bit and once at the end.
NeedsByte == range < Top

Normalize ==
  /\ pc = "bit"
  /\ \/ ~NeedsByte /\ pc' = "split" /\ UNCHANGED <<n, size, room, taken, left, range, code, p, sound, encoded>>
     \/ NeedsByte /\ ~Test /\ DataError
     \/ NeedsByte /\ Test /\ ~InRam /\ Abort
     \/ /\ NeedsByte /\ Test /\ InRam /\ pc' = "split"
        /\ range' = (range * Byte) % Word
        /\ \E b \in 0 .. Byte - 1 : code' = Shifted(b) /\ number' = number * Byte + b
        /\ low' = low * Byte
        /\ taken' = taken + 1 /\ left' = (left - 1) % Word
        /\ UNCHANGED <<n, size, room, p, sound>>

\* IfBit0
Bound(c) == (range \div Total) * p[c]

RaisedTooFast(x) == x + (Total - x) \div (Unit \div 2)
LoweredRoundUp(x) == x - (x + Unit - 1) \div Unit
Raised(x) == x + (Total - x) \div Unit
Lowered(x) == x - x \div Unit

UpdateBit0(c) ==
  /\ code < Bound(c)
  /\ range' = Bound(c) /\ code' = code /\ low' = low
  /\ p' = [p EXCEPT ![c] = Raised(@)]

Bit1KeepsCode(c) ==
  /\ code >= Bound(c)
  /\ range' = range - Bound(c) /\ code' = code /\ low' = low + Bound(c)
  /\ p' = [p EXCEPT ![c] = Lowered(@)]

UpdateBit1(c) ==
  /\ code >= Bound(c)
  /\ range' = range - Bound(c) /\ code' = code - Bound(c) /\ low' = low + Bound(c)
  /\ p' = [p EXCEPT ![c] = Lowered(@)]

\* RC_GET_BIT2, after its normalisation.
Bit ==
  /\ pc = "split" /\ pc' = "bit"
  /\ \E c \in Probs : UpdateBit0(c) \/ UpdateBit1(c)
  /\ UNCHANGED <<n, size, room, taken, left, sound, number>>

\* A direct bit of a distance: one half of the range.
DirectBit ==
  /\ pc = "split" /\ pc' = "bit"
  /\ range' = range \div 2
  /\ IF code >= range \div 2
     THEN code' = code - range \div 2 /\ low' = low + range \div 2
     ELSE UNCHANGED <<code, low>>
  /\ sound' = (sound /\ code' < range')
  /\ UNCHANGED <<n, size, room, taken, left, p, number>>

\* The symbol loop objects to a repeated match at the start or to a distance.
SymbolError == pc = "bit" /\ DataError

\* The symbol loop is through; this was the last RC_NORMALIZE.
LastNormalize ==
  /\ pc = "split" /\ pc' = "done"
  /\ UNCHANGED <<n, size, room, taken, left, range, code, p, sound, encoded>>

Init ==
  /\ pc = "header" /\ n = 0 /\ taken = 0
  /\ \E d \in Data : size = d.size /\ room = d.room /\ left = d.size
  /\ range = 0 /\ code = 0 /\ sound = FALSE /\ number = 0 /\ low = 0
  /\ p = [c \in Probs |-> 0]

Next ==
  GetByte \/ PropsRefused \/ StartDecode \/ InitByte \/ InitDone \/ Normalize
    \/ Bit \/ DirectBit \/ SymbolError \/ LastNormalize

Spec == Init /\ [][Next]_vars

-----------------------------------------------------------------------------
TypeOK ==
  /\ pc \in {"header", "init", "bit", "split", "done", "dumped", "abort"}
  /\ n \in 0 .. Header + First
  /\ size \in 0 .. Word - 1 /\ room \in Nat
  /\ taken \in 0 .. size + room /\ left \in 0 .. Word - 1
  /\ range \in 0 .. Word - 1 /\ code \in 0 .. Word - 1
  /\ p \in [Probs -> 0 .. Total]
  /\ sound \in BOOLEAN /\ number \in Nat /\ low \in Nat

\* Data that holds its header is never decoded past its end: every byte of RC_INIT2
\* and of RC_NORMALIZE is one that BufferLim, computed from what lzma_get_byte left of
\* the size, still allows.  And only the bytes shown after an error can then lie outside
\* RAM.  Nothing protects data shorter than its header: lzma_get_byte does not look at
\* the size, and BufferLim lies behind Buffer for good.
InputInside ==
  size >= Header =>
    /\ taken <= size
    /\ pc = "abort" => size + room < Header + ErrorDump

\* "check kernel@1->data size for adequate value" (loader.c:147): after this
\* check, nothing behind the data is decoded.
BodySizeChecked == taken <= size

\* A probability adapts towards 0 or 1 but stops a step short of both, however
\* long the run of equal bits.
ProbInside == pc \in {"bit", "split"} => \A c \in Probs : p[c] \in Unit - 1 .. Total - (Unit - 1)

\* One byte is always enough: after RC_NORMALIZE the range is normal again, and
\* has room for both values of any bit.
OneByteEnough ==
  pc = "split" => range >= Top /\ \A c \in Probs : 0 < Bound(c) /\ Bound(c) < range

\* Code stays below Range, so that no shift of Code loses bits: RC_INIT2 and the
\* halving of an odd Range are the only places where a stream can leave it.
CodeInside == sound /\ pc \in {"bit", "split"} => code < range

\* The bits are those of the stream: however many were read, the number the bytes
\* spell lies in the interval that an encoder of these bits is left with.  The decoder
\* forgets both and keeps only their difference, of four bytes.
BitsOfStream == sound /\ pc \in {"bit", "split"} => low <= number /\ number < low + range

IInv ==
  /\ TypeOK /\ InputInside /\ ProbInside /\ OneByteEnough /\ CodeInside
  /\ size >= Header => taken + left = size
  /\ sound /\ pc \in {"bit", "split"} => number = low + code
  /\ pc = "header" => n <= Header /\ taken = n
  /\ pc = "init" => range = Word - 1 /\ n <= First
                    /\ \A c \in Probs : p[c] = Total \div 2
  /\ pc = "bit" => range * Byte >= Top
=============================================================================
