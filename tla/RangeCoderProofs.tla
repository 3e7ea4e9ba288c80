-------------------------- MODULE RangeCoderProofs --------------------------
(***************************************************************************)
(* Proofs about RangeCoder, for all widths that fit together as            *)
(* RangeCoderAssumption asks.                                              *)
(***************************************************************************)
EXTENDS RangeCoder, TLAPS

-----------------------------------------------------------------------------
(* Arithmetic. *)

\* Division with remainder.
LEMMA DivMod ==
  ASSUME NEW a \in Nat, NEW d \in Nat, d > 0
  PROVE  /\ a \div d \in Nat /\ a % d \in 0 .. d - 1
         /\ a = d * (a \div d) + (a % d)
BY SMT

\* Multiplication is monotone.
LEMMA MulMono ==
  ASSUME NEW a \in Nat, NEW b \in Nat, NEW c \in Nat, a <= b
  PROVE  a * c <= b * c /\ c * a <= c * b /\ a * c \in Nat
BY SMT

\* Multiplication distributes over subtraction.
LEMMA Distrib ==
  ASSUME NEW a \in Int, NEW b \in Int, NEW c \in Int
  PROVE  a * (b - c) = a * b - a * c
BY SMT

\* A byte at the end of a sum.
LEMMA Spread ==
  ASSUME NEW a \in Nat, NEW b \in Nat, NEW c \in Nat, NEW w \in Nat
  PROVE  (a + b) * w + c = a * w + (b * w + c)
BY SMT

\* A number below the modulus is its own remainder.
LEMMA ModSmall ==
  ASSUME NEW a \in Nat, NEW d \in Nat, a < d
  PROVE  a % d = a
BY SMT

\* Taking a Unit-th off what lies above Unit - 1 leaves it there.
LEMMA Shrink ==
  ASSUME NEW x \in Nat, x >= Unit - 1
  PROVE  x - x \div Unit \in Nat /\ x - x \div Unit >= Unit - 1 /\ x \div Unit \in Nat
<1>1. Unit \in Nat /\ Unit >= 2
  BY RangeCoderAssumption
<1>2. PICK k \in Nat : k = x \div Unit
  BY <1>1, DivMod
<1>3. PICK r \in 0 .. Unit - 1 : x = Unit * k + r
  <2>1. x = Unit * (x \div Unit) + (x % Unit) /\ x % Unit \in 0 .. Unit - 1
    BY <1>1, DivMod
  <2> QED BY <1>2, <2>1
<1>4. CASE k = 0
  BY <1>1, <1>2, <1>3, <1>4
<1>5. CASE k >= 1
  <2>1. Unit - 1 \in Nat /\ 1 * (Unit - 1) <= k * (Unit - 1)
    BY <1>1, <1>5, MulMono
  <2>2. x - k = k * (Unit - 1) + r
    BY <1>1, <1>3
  <2> QED BY <1>1, <1>2, <1>3, <2>1, <2>2
<1> QED BY <1>4, <1>5

\* Bounds of the words.
LEMMA Widths ==
  /\ Byte \in Nat /\ Top \in Nat /\ Total \in Nat /\ Unit \in Nat /\ Word \in Nat
  /\ Byte >= 2 /\ Unit >= 2 /\ Total >= 2 * Unit /\ Top >= Total
  /\ Word >= 2 * Top
<1>1. /\ Byte \in Nat /\ Top \in Nat /\ Total \in Nat /\ Unit \in Nat
      /\ Byte >= 2 /\ Unit >= 2 /\ Total >= 2 * Unit /\ Top >= Total
  BY RangeCoderAssumption
<1>2. 2 * Top <= Byte * Top /\ Byte * Top \in Nat
  BY <1>1, MulMono
<1> QED BY <1>1, <1>2 DEF Word

\* Both parts of a normal range are large enough for one byte to restore it.
LEMMA Split ==
  ASSUME NEW r \in Nat, r >= Top, NEW q \in Unit - 1 .. Total - (Unit - 1)
  PROVE  /\ (r \div Total) * q \in Nat
         /\ 0 < (r \div Total) * q /\ (r \div Total) * q < r
         /\ ((r \div Total) * q) * Byte >= Top
         /\ (r - (r \div Total) * q) * Byte >= Top
<1> DEFINE t == Top \div Total
           s == r \div Total
           m == Unit - 1
<1>1. /\ t \in Nat /\ s \in Nat /\ m \in Nat /\ q \in Nat /\ Total - q \in Nat
      /\ m >= 1 /\ q >= m /\ Total - q >= m
  BY Widths, DivMod
<1>2. s * Total <= r
  <2>1. r % Total >= 0 /\ r = Total * s + (r % Total)
    BY Widths, DivMod
  <2> QED BY <1>1, <2>1, Widths
<1>3. t <= s
  <2>1. Top = Total * t + (Top % Total) /\ Top % Total \in 0 .. Total - 1
    BY Widths, DivMod
  <2>2. r = Total * s + (r % Total) /\ r % Total \in 0 .. Total - 1
    BY Widths, DivMod
  <2>3. ASSUME s + 1 <= t PROVE FALSE
    <3>1. Total * (s + 1) <= Total * t
      BY <1>1, <2>3, Widths, MulMono
    <3>2. Total * (s + 1) = Total * s + Total
      BY <1>1, Widths
    <3> QED BY <1>1, <2>1, <2>2, <3>1, <3>2, Widths
  <2> QED BY <1>1, <2>3
<1> HIDE DEF t, s, m
<1>4. t * m <= s * q /\ t * m <= s * (Total - q)
  <2>1. t * m <= s * m
    BY <1>1, <1>3, MulMono
  <2>2. s * m <= s * q /\ s * m <= s * (Total - q)
    BY <1>1, MulMono
  <2>3. t * m \in Nat /\ s * m \in Nat /\ s * q \in Nat /\ s * (Total - q) \in Nat
    BY <1>1, MulMono
  <2> QED BY <2>1, <2>2, <2>3
<1>5. t * m * Byte >= Top /\ Top > 0
  BY RangeCoderAssumption, Widths DEF t, m
<1>6. t * m \in Nat /\ s * q \in Nat /\ s * (Total - q) \in Nat
  BY <1>1, MulMono
<1>7. s * (Total - q) = s * Total - s * q
  BY <1>1, Widths, Distrib
<1>8. s * (Total - q) <= r - s * q
  BY <1>1, <1>2, <1>6, <1>7, Widths
<1>9. t * m > 0
  BY <1>5, <1>6, Widths
<1>10. (t * m) * Byte <= (s * q) * Byte
  BY <1>4, <1>6, Widths, MulMono
<1>11. (t * m) * Byte <= (r - s * q) * Byte
  <2>1. r - s * q \in Nat /\ t * m <= r - s * q
    BY <1>4, <1>6, <1>8
  <2> QED BY <1>6, <2>1, Widths, MulMono
<1>12. s * q > 0 /\ s * q < r
  BY <1>4, <1>6, <1>8, <1>9
<1>13. (s * q) * Byte \in Nat /\ (r - s * q) * Byte \in Int /\ (t * m) * Byte \in Nat
  BY <1>6, Widths
<1>14. /\ s * q \in Nat /\ 0 < s * q /\ s * q < r
       /\ (s * q) * Byte >= Top /\ (r - s * q) * Byte >= Top
  BY <1>5, <1>6, <1>10, <1>11, <1>12, <1>13, Widths
<1> QED BY <1>14 DEF s

-----------------------------------------------------------------------------
(* The invariant. *)

\* A shifted-in byte keeps Code a word, and inside the range if it was.
LEMMA ShiftedIn ==
  ASSUME TypeOK, NEW b \in 0 .. Byte - 1
  PROVE  /\ Shifted(b) \in 0 .. Word - 1
         /\ code < range /\ range < Top =>
              Shifted(b) < range * Byte /\ Shifted(b) = code * Byte + b
<1>1. code \in Nat /\ range \in Nat /\ b \in Nat /\ b < Byte
  BY Widths DEF TypeOK
<1>2. code * Byte \in Nat /\ range * Byte \in Nat
  BY <1>1, Widths, MulMono
<1>3. Shifted(b) \in 0 .. Word - 1
  BY <1>1, <1>2, Widths, DivMod DEF Shifted
<1>4. ASSUME code < range, range < Top PROVE Shifted(b) < range * Byte /\ Shifted(b) = code * Byte + b
  <2>1. (code + 1) * Byte <= range * Byte /\ range * Byte <= Top * Byte
    BY <1>1, <1>4, Widths, MulMono
  <2>2. (code + 1) * Byte = code * Byte + Byte /\ Top * Byte = Word
    BY <1>1, Widths DEF Word
  <2>3. code * Byte + b < range * Byte /\ code * Byte + b < Word /\ code * Byte + b \in Nat
    BY <1>1, <1>2, <2>1, <2>2, Widths
  <2> QED BY <2>3, Widths, ModSmall DEF Shifted
<1> QED BY <1>3, <1>4

\* Taking one off what is left of the data stays a word, and does not wrap while
\* anything is left.
LEMMA OneLess ==
  ASSUME NEW l \in 0 .. Word - 1
  PROVE  (l - 1) % Word \in 0 .. Word - 1 /\ (l > 0 => (l - 1) % Word = l - 1)
<1>1. Word \in Nat /\ Word > 0
  BY Widths, RangeCoderAssumption
<1>2. CASE l > 0
  <2>1. l - 1 \in Nat /\ l - 1 < Word
    BY <1>1, <1>2
  <2>2. (l - 1) % Word = l - 1
    BY <1>1, <2>1, ModSmall
  <2> QED BY <1>1, <1>2, <2>1, <2>2
<1>3. CASE l = 0
  <2>1. (l - 1) % Word \in 0 .. Word - 1
    BY <1>1, <1>3
  <2> QED BY <1>3, <2>1
<1> QED BY <1>1, <1>2, <1>3

\* The initial states satisfy the invariant.
LEMMA InitInv == Init => IInv
<1> SUFFICES ASSUME Init PROVE IInv
  OBVIOUS
<1>1. Header \in Nat /\ First \in Nat
  BY RangeCoderAssumption
<1>2. size \in 0 .. Word - 1 /\ room \in Nat /\ left = size
  BY RangeCoderAssumption DEF Init
<1>3. TypeOK
  <2>1. p \in [Probs -> 0 .. Total]
    BY Widths DEF Init
  <2>2. 0 \in 0 .. Header + First /\ 0 \in 0 .. Word - 1 /\ 0 \in 0 .. size + room
    BY <1>1, <1>2, Widths
  <2>3. number \in Nat /\ low \in Nat
    BY DEF Init
  <2> QED BY <1>2, <2>1, <2>2, <2>3 DEF Init, TypeOK
<1>4. taken <= size /\ taken + left = size
  BY <1>2, Widths DEF Init
<1> QED
  BY <1>1, <1>3, <1>4 DEF Init, IInv, InputInside, ProbInside, OneByteEnough, CodeInside

\* Giving up keeps the invariant.
LEMMA HaltInv ==
  ASSUME IInv, pc' \in {"done", "dumped", "abort"},
         pc' = "abort" /\ size >= Header => size + room < Header + ErrorDump,
         UNCHANGED <<n, size, room, taken, left, range, code, p, sound, encoded>>
  PROVE  IInv'
<1>1. UNCHANGED <<n, size, room, taken, left, range, code, p, sound, number, low>>
  BY DEF encoded
<1>2. TypeOK'
  BY <1>1 DEF IInv, TypeOK
<1> QED BY <1>1, <1>2 DEF IInv, InputInside, ProbInside, OneByteEnough, CodeInside

\* So does the end after an error, whether RAM lasts for the bytes shown or not.
LEMMA DataErrorInv == IInv /\ DataError => IInv'
<1> SUFFICES ASSUME IInv, DataError PROVE IInv'
  OBVIOUS
<1>1. pc' = IF Header + ErrorDump <= size + room THEN "dumped" ELSE "abort"
  BY DEF DataError
<1>2. Header \in Nat /\ ErrorDump \in Nat /\ size \in Nat /\ room \in Nat
  BY RangeCoderAssumption, Widths DEF IInv, TypeOK
<1>3. pc' = "abort" => size + room < Header + ErrorDump
  BY <1>1, <1>2
<1> QED BY <1>1, <1>3, HaltInv DEF DataError

\* While lzma_get_byte has data, and while RC_TEST finds some, RAM lasts.
LEMMA AbortInv ==
  ASSUME IInv, ~InRam, Abort, (pc = "header" /\ n < Header) \/ Test
  PROVE  IInv'
<1>1. /\ size \in Nat /\ room \in Nat /\ taken \in Nat /\ left \in Nat /\ Header \in Nat
      /\ taken >= size + room
  BY RangeCoderAssumption, Widths DEF IInv, TypeOK, InRam
<1>2. ASSUME size >= Header PROVE FALSE
  <2>1. taken + left = size
    BY <1>2 DEF IInv
  <2>2. left = 0 /\ taken = size
    BY <1>1, <2>1
  <2>3. pc = "header" /\ n < Header
    BY <2>2 DEF Test
  <2>4. taken = n /\ n \in Nat
    BY <2>3 DEF IInv, TypeOK
  <2> QED BY <1>1, <1>2, <2>2, <2>3, <2>4
<1> QED BY <1>2, HaltInv DEF Abort

\* Taking a byte of the header keeps the invariant.
LEMMA GetByteInv == IInv /\ GetByte => IInv'
<1> SUFFICES ASSUME IInv, GetByte PROVE IInv'
  OBVIOUS
<1>1. CASE ~InRam /\ Abort
  BY <1>1, AbortInv DEF GetByte
<1>2. CASE ~(~InRam /\ Abort)
  <2>1. /\ pc = "header" /\ pc' = "header" /\ n < Header /\ n' = n + 1 /\ taken' = taken + 1
        /\ left' = (left - 1) % Word /\ InRam
        /\ UNCHANGED <<size, room, range, code, p, sound, number, low>>
    BY <1>2 DEF GetByte, encoded
  <2>2. /\ taken = n /\ n \in Nat /\ left \in 0 .. Word - 1 /\ Header \in Nat /\ First \in Nat
        /\ size \in Nat /\ room \in Nat /\ taken \in Nat /\ taken < size + room
    BY <2>1, RangeCoderAssumption, Widths DEF IInv, TypeOK, InRam
  <2>3. left' \in 0 .. Word - 1
    BY <2>1, <2>2, OneLess
  <2>4. size >= Header => taken' + left' = size /\ taken' <= size
    <3>1. ASSUME size >= Header PROVE left > 0 /\ taken + left = size
      <4>1. taken + left = size
        BY <3>1 DEF IInv
      <4> QED BY <2>1, <2>2, <3>1, <4>1, Widths
    <3>2. ASSUME size >= Header PROVE left' = left - 1
      BY <2>1, <2>2, <3>1, <3>2, OneLess
    <3> QED BY <2>1, <2>2, <3>1, <3>2, Widths
  <2>5. TypeOK'
    BY <2>1, <2>2, <2>3 DEF IInv, TypeOK
  <2> QED
    BY <2>1, <2>2, <2>3, <2>4, <2>5
       DEF IInv, InputInside, ProbInside, OneByteEnough, CodeInside
<1> QED BY <1>1, <1>2

\* Resetting the decoder keeps the invariant.
LEMMA StartDecodeInv == IInv /\ StartDecode => IInv'
<1> SUFFICES ASSUME IInv, StartDecode PROVE IInv'
  OBVIOUS
<1>1. /\ pc' = "init" /\ n' = 0 /\ code' = 0 /\ range' = Word - 1
      /\ p' = [c \in Probs |-> Total \div 2]
      /\ UNCHANGED <<size, room, taken, left, sound, number, low>>
  BY DEF StartDecode, encoded
<1>2. Total \div 2 \in 0 .. Total /\ First \in Nat /\ Header \in Nat
  BY Widths, RangeCoderAssumption
<1>3. p' \in [Probs -> 0 .. Total] /\ \A c \in Probs : p'[c] = Total \div 2
  BY <1>1, <1>2
<1>4. TypeOK'
  BY <1>1, <1>2, <1>3, Widths DEF IInv, TypeOK
<1> QED
  BY <1>1, <1>2, <1>3, <1>4
     DEF IInv, InputInside, ProbInside, OneByteEnough, CodeInside

\* A byte that RC_TEST lets through is one of the data, if the header was.
LEMMA TakeByte ==
  ASSUME IInv, Test, InRam, taken' = taken + 1, left' = (left - 1) % Word,
         UNCHANGED <<size, room>>
  PROVE  /\ left' \in 0 .. Word - 1 /\ taken' \in 0 .. size' + room'
         /\ size' >= Header => taken' <= size' /\ taken' + left' = size'
<1>1. /\ size \in Nat /\ room \in Nat /\ taken \in Nat /\ left \in 0 .. Word - 1 /\ left > 0
      /\ taken < size + room
  BY Widths DEF IInv, TypeOK, Test, InRam
<1>2. left' \in 0 .. Word - 1 /\ left' = left - 1
  BY <1>1, OneLess
<1>3. size >= Header => taken + left = size
  BY DEF IInv
<1> QED BY <1>1, <1>2, <1>3, Widths

\* So does each byte of RC_INIT2.
LEMMA InitByteInv == IInv /\ InitByte => IInv'
<1> SUFFICES ASSUME IInv, InitByte PROVE IInv'
  OBVIOUS
<1>1. CASE DataError
  BY <1>1, DataErrorInv
<1>2. CASE Test /\ ~InRam /\ Abort
  BY <1>2, AbortInv
<1>3. CASE ~DataError /\ ~(Test /\ ~InRam /\ Abort)
  <2>1. PICK b \in 0 .. Byte - 1 : code' = Shifted(b)
    BY <1>3 DEF InitByte
  <2>2. /\ pc = "init" /\ n < First /\ Test /\ InRam
        /\ n' = n + 1 /\ taken' = taken + 1 /\ left' = (left - 1) % Word
        /\ UNCHANGED <<pc, size, room, range, p, sound, number, low>>
    BY <1>3 DEF InitByte, encoded
  <2>3. /\ code' \in 0 .. Word - 1 /\ n \in Nat /\ First \in Nat /\ Header \in Nat
    BY <2>1, ShiftedIn, RangeCoderAssumption, Widths DEF IInv, TypeOK
  <2>4. /\ left' \in 0 .. Word - 1 /\ taken' \in 0 .. size' + room'
        /\ size' >= Header => taken' <= size' /\ taken' + left' = size'
    BY <2>2, TakeByte
  <2>5. TypeOK'
    BY <2>2, <2>3, <2>4 DEF IInv, TypeOK
  <2> QED
    BY <2>2, <2>3, <2>4, <2>5
       DEF IInv, InputInside, ProbInside, OneByteEnough, CodeInside
<1> QED BY <1>1, <1>2, <1>3

\* After RC_INIT2 the range is normal and the probabilities are even.
LEMMA InitDoneInv == IInv /\ InitDone => IInv'
<1> SUFFICES ASSUME IInv, InitDone PROVE IInv'
  OBVIOUS
<1>1. /\ pc = "init" /\ pc' = "bit" /\ sound' = (code < range)
      /\ number' = code /\ low' = 0
      /\ UNCHANGED <<n, size, room, taken, left, range, code, p>>
  BY DEF InitDone
<1>2. range = Word - 1 /\ \A c \in Probs : p[c] = Total \div 2
  BY <1>1 DEF IInv
<1>3. range \in Nat /\ range >= Top /\ range * 1 <= range * Byte /\ range * Byte \in Nat
  BY <1>2, Widths, MulMono
<1>4. Total \div 2 \in Unit - 1 .. Total - (Unit - 1)
  BY Widths
<1>5. TypeOK'
  <2>1. code \in Nat /\ number' \in Nat /\ low' \in Nat
    BY <1>1, Widths DEF IInv, TypeOK
  <2> QED BY <1>1, <2>1 DEF IInv, TypeOK
<1>6. range * Byte >= Top
  BY <1>3, Widths
<1>7. \A c \in Probs : p'[c] \in Unit - 1 .. Total - (Unit - 1)
  BY <1>1, <1>2, <1>4
<1>8. InputInside' /\ ProbInside' /\ (size' >= Header => taken' + left' = size')
  BY <1>1, <1>7 DEF IInv, InputInside, ProbInside
<1>9. CodeInside' /\ OneByteEnough'
  BY <1>1 DEF CodeInside, OneByteEnough
<1>10. number' = low' + code'
  BY <1>1, <1>5, Widths DEF TypeOK
<1> QED
  BY <1>1, <1>5, <1>6, <1>8, <1>9, <1>10 DEF IInv

\* RC_NORMALIZE restores the range with one byte.
LEMMA NormalizeInv == IInv /\ Normalize => IInv'
<1> SUFFICES ASSUME IInv, Normalize PROVE IInv'
  OBVIOUS
<1>0. pc = "bit" /\ TypeOK /\ range * Byte >= Top /\ range \in Nat /\ code \in Nat
  BY Widths DEF IInv, TypeOK, Normalize
<1>1. \A c \in Probs : p[c] \in Unit - 1 .. Total - (Unit - 1)
  BY <1>0 DEF IInv, ProbInside
<1>2. CASE DataError \/ (Test /\ ~InRam /\ Abort)
  BY <1>2, DataErrorInv, AbortInv
<1>3. CASE range >= Top /\ pc' = "split" /\ UNCHANGED <<n, size, room, taken, left, range, code, p, sound, number, low>>
  <2>1. \A c \in Probs : 0 < Bound(c) /\ Bound(c) < range
    BY <1>0, <1>1, <1>3, Split DEF Bound
  <2>2. \A c \in Probs : Bound(c)' = Bound(c)
    BY <1>3 DEF Bound
  <2>3. TypeOK'
    BY <1>0, <1>3 DEF TypeOK
  <2> QED
    BY <1>0, <1>1, <1>3, <2>1, <2>2, <2>3
       DEF IInv, InputInside, ProbInside, OneByteEnough, CodeInside
<1>4. CASE range < Top /\ ~(DataError \/ (Test /\ ~InRam /\ Abort))
  <2>0. NeedsByte
    BY <1>4 DEF NeedsByte
  <2>1. PICK b \in 0 .. Byte - 1 : code' = Shifted(b) /\ number' = number * Byte + b
    BY <1>4, <2>0, Zenon DEF Normalize
  <2>2. /\ Test /\ InRam /\ pc' = "split" /\ range' = (range * Byte) % Word
        /\ taken' = taken + 1 /\ left' = (left - 1) % Word /\ low' = low * Byte
        /\ UNCHANGED <<n, size, room, p, sound>>
    BY <1>4, <2>0, Zenon DEF Normalize
  <2>3. range * Byte \in Nat /\ range * Byte < Word
    <3>1. (range + 1) * Byte <= Top * Byte
      BY <1>0, <1>4, Widths, MulMono
    <3>2. (range + 1) * Byte = range * Byte + Byte /\ Top * Byte = Word /\ range * Byte \in Nat
      BY <1>0, Widths DEF Word
    <3> QED BY <3>1, <3>2, Widths
  <2>4. range' = range * Byte
    BY <2>2, <2>3, Widths, ModSmall
  <2>5. /\ code' \in 0 .. Word - 1
        /\ code < range => code' < range' /\ code' = code * Byte + b
    BY <1>0, <1>4, <2>1, <2>4, ShiftedIn
  <2>6. \A c \in Probs : 0 < Bound(c)' /\ Bound(c)' < range'
    <3>1. range' \in Nat /\ range' >= Top /\ p' = p
      BY <1>0, <2>2, <2>3, <2>4
    <3> QED BY <1>1, <3>1, Split DEF Bound
  <2>7. /\ left' \in 0 .. Word - 1 /\ taken' \in 0 .. size' + room'
        /\ size' >= Header => taken' <= size' /\ taken' + left' = size'
    BY <2>2, TakeByte
  <2>8. TypeOK'
    <3>1. number \in Nat /\ low \in Nat /\ b \in Nat
      BY <1>0, Widths DEF TypeOK
    <3>2. number' \in Nat /\ low' \in Nat
      BY <2>1, <2>2, <3>1, Widths, MulMono
    <3> QED BY <1>0, <2>2, <2>3, <2>4, <2>5, <2>7, <3>2, Widths DEF TypeOK
  <2>9. InputInside'
    BY <2>2, <2>7 DEF InputInside
  <2>10. ASSUME sound' PROVE number' = low' + code'
    <3>1. sound /\ code < range /\ number = low + code
      BY <1>0, <2>2, <2>10 DEF IInv, CodeInside
    <3>2. number' = (low + code) * Byte + b /\ low' = low * Byte /\ code' = code * Byte + b
      BY <2>1, <2>2, <2>5, <3>1
    <3>3. low \in Nat /\ code \in Nat /\ b \in Nat /\ Byte \in Nat
      BY <1>0, Widths DEF TypeOK
    <3> QED BY <3>2, <3>3, Spread
  <2> QED
    BY <1>0, <1>1, <2>2, <2>3, <2>4, <2>5, <2>6, <2>7, <2>8, <2>9, <2>10
       DEF IInv, ProbInside, OneByteEnough, CodeInside
<1> QED
  <2>1. CASE NeedsByte
    BY <1>0, <1>2, <1>4, <2>1, Widths DEF NeedsByte
  <2>2. CASE ~NeedsByte
    <3>1. pc' = "split" /\ UNCHANGED <<n, size, room, taken, left, range, code, p, sound, number, low>>
      BY <2>2 DEF Normalize, encoded
    <3>2. range >= Top
      BY <1>0, <2>2, Widths DEF NeedsByte
    <3> QED BY <1>3, <3>1, <3>2
  <2> QED BY <2>1, <2>2

\* Adapting a probability keeps it a step short of 0 and Total.
LEMMA Adapted ==
  ASSUME NEW x \in Unit - 1 .. Total - (Unit - 1)
  PROVE  /\ Raised(x) \in Unit - 1 .. Total - (Unit - 1)
         /\ Lowered(x) \in Unit - 1 .. Total - (Unit - 1)
<1>1. x \in Nat /\ Total - x \in Nat /\ x >= Unit - 1 /\ Total - x >= Unit - 1
  BY Widths
<1>2. /\ x - x \div Unit \in Nat /\ x - x \div Unit >= Unit - 1 /\ x \div Unit \in Nat
  BY <1>1, Shrink
<1>3. PICK y \in Nat : y = Total - x /\ y >= Unit - 1
  BY <1>1
<1>4. /\ y - y \div Unit \in Nat /\ y - y \div Unit >= Unit - 1 /\ y \div Unit \in Nat
  BY <1>3, Shrink
<1>5. Raised(x) \in Unit - 1 .. Total - (Unit - 1)
  BY <1>1, <1>3, <1>4, Widths DEF Raised
<1>6. Lowered(x) \in Unit - 1 .. Total - (Unit - 1)
  BY <1>1, <1>2, Widths DEF Lowered
<1> QED BY <1>5, <1>6

\* A bit leaves a range that one byte restores, and Code inside it.
LEMMA BitInv == IInv /\ Bit => IInv'
<1> SUFFICES ASSUME IInv, Bit PROVE IInv'
  OBVIOUS
<1>1. PICK c \in Probs : UpdateBit0(c) \/ UpdateBit1(c)
  BY DEF Bit
<1>2. pc = "split" /\ pc' = "bit" /\ UNCHANGED <<n, size, room, taken, left, sound, number>>
  BY DEF Bit
<1>3. /\ TypeOK /\ range \in Nat /\ range >= Top /\ range < Word /\ code \in Nat
      /\ low \in Nat /\ (sound => number = low + code)
      /\ \A d \in Probs : p[d] \in Unit - 1 .. Total - (Unit - 1)
  BY <1>2, Widths DEF IInv, TypeOK, ProbInside, OneByteEnough
<1>4. /\ Bound(c) \in Nat /\ 0 < Bound(c) /\ Bound(c) < range
      /\ Bound(c) * Byte >= Top /\ (range - Bound(c)) * Byte >= Top
  BY <1>1, <1>3, Split DEF Bound
<1>5. \A d \in Probs : p'[d] \in Unit - 1 .. Total - (Unit - 1)
  BY <1>1, <1>3, Adapted DEF UpdateBit0, UpdateBit1, TypeOK
<1>6. p' \in [Probs -> 0 .. Total]
  <2>1. DOMAIN p' = Probs /\ p' = [d \in Probs |-> p'[d]]
    BY <1>1, <1>3 DEF UpdateBit0, UpdateBit1, TypeOK
  <2>2. \A d \in Probs : p'[d] \in 0 .. Total
    BY <1>5, Widths
  <2> QED BY <2>1, <2>2
<1>7. CASE UpdateBit0(c)
  <2>1. range' = Bound(c) /\ code' = code /\ code < Bound(c) /\ low' = low
    BY <1>7 DEF UpdateBit0
  <2>2. TypeOK'
    BY <1>2, <1>3, <1>4, <1>6, <2>1, Widths DEF TypeOK
  <2> QED
    BY <1>2, <1>4, <1>5, <2>1, <2>2
       DEF IInv, InputInside, ProbInside, OneByteEnough, CodeInside
<1>8. CASE UpdateBit1(c)
  <2>1. range' = range - Bound(c) /\ code' = code - Bound(c) /\ code >= Bound(c)
        /\ low' = low + Bound(c)
    BY <1>8 DEF UpdateBit1
  <2>2. code < Word
    BY <1>3, Widths DEF TypeOK
  <2>3. TypeOK'
    BY <1>2, <1>3, <1>4, <1>6, <2>1, <2>2, Widths DEF TypeOK
  <2>4. sound => code < range
    BY <1>2 DEF IInv, CodeInside
  <2>5. low + code = (low + Bound(c)) + (code - Bound(c))
    BY <1>3, <1>4
  <2> QED
    BY <1>2, <1>3, <1>4, <1>5, <2>1, <2>3, <2>4, <2>5
       DEF IInv, InputInside, ProbInside, OneByteEnough, CodeInside
<1> QED BY <1>1, <1>7, <1>8

\* Half a normal range is restored by one byte too.
LEMMA DirectBitInv == IInv /\ DirectBit => IInv'
<1> SUFFICES ASSUME IInv, DirectBit PROVE IInv'
  OBVIOUS
<1>1. /\ pc = "split" /\ pc' = "bit" /\ range' = range \div 2
      /\ \/ code' = code /\ low' = low
         \/ /\ code >= range \div 2 /\ code' = code - range \div 2
            /\ low' = low + range \div 2
      /\ sound' = (sound /\ code' < range')
      /\ UNCHANGED <<n, size, room, taken, left, p, number>>
  BY Widths DEF DirectBit, IInv, TypeOK
<1>2. TypeOK /\ range \in Nat /\ range >= Top /\ range < Word /\ code \in Nat /\ code < Word
      /\ low \in Nat /\ (sound => number = low + code)
  BY <1>1, Widths DEF IInv, TypeOK, OneByteEnough
<1>3. range \div 2 \in Nat /\ range \div 2 <= range /\ Top \div 2 <= range \div 2 /\ Top \div 2 \in Nat
  BY <1>2, Widths
<1>4. (Top \div 2) * Byte <= (range \div 2) * Byte /\ (range \div 2) * Byte \in Nat
  BY <1>3, Widths, MulMono
<1>5. (range \div 2) * Byte >= Top
  BY <1>3, <1>4, Widths, RangeCoderAssumption
<1>6. code' \in 0 .. Word - 1
  BY <1>1, <1>2, <1>3, Widths
<1>7. sound' \in BOOLEAN
  BY <1>1
<1>8. TypeOK'
  <2>1. low' \in Nat
    BY <1>1, <1>2, <1>3
  <2> QED BY <1>1, <1>2, <1>3, <1>6, <1>7, <2>1, Widths DEF TypeOK
<1>9. CodeInside'
  BY <1>1 DEF CodeInside
<1>10. ASSUME sound' PROVE number' = low' + code'
  <2>1. number = low + code /\ number' = number
    BY <1>1, <1>2, <1>10
  <2>2. low + code = (low + range \div 2) + (code - range \div 2)
    BY <1>2, <1>3
  <2> QED BY <1>1, <2>1, <2>2
<1> QED
  BY <1>1, <1>5, <1>8, <1>9, <1>10 DEF IInv, InputInside, ProbInside, OneByteEnough

\* The last normalisation, and properties refused, end it all.
LEMMA LastInv == IInv /\ (PropsRefused \/ LastNormalize) => IInv'
<1> SUFFICES ASSUME IInv, PropsRefused \/ LastNormalize PROVE IInv'
  OBVIOUS
<1>1. pc' = "done" /\ UNCHANGED <<n, size, room, taken, left, range, code, p, sound, encoded>>
  BY DEF PropsRefused, LastNormalize
<1> QED BY <1>1, HaltInv

\* So does an error of the symbol loop.
LEMMA SymbolErrorInv == IInv /\ SymbolError => IInv'
BY DataErrorInv DEF SymbolError

-----------------------------------------------------------------------------
(* The theorems. *)

\* The invariant of the range decoder is inductive.
THEOREM Inductive == Spec => []IInv
<1>1. IInv /\ [Next]_vars => IInv'
  <2> SUFFICES ASSUME IInv, [Next]_vars PROVE IInv'
    OBVIOUS
  <2>1. CASE UNCHANGED vars
    <3>1. UNCHANGED <<pc, n, size, room, taken, left, range, code, p, sound, number, low>>
      BY <2>1 DEF vars, encoded
    <3>2. \A c \in Probs : Bound(c)' = Bound(c)
      BY <3>1 DEF Bound
    <3>3. TypeOK'
      BY <3>1 DEF IInv, TypeOK
    <3> QED
      BY <3>1, <3>2, <3>3 DEF IInv, InputInside, ProbInside, OneByteEnough, CodeInside
  <2> QED
    BY <2>1, GetByteInv, StartDecodeInv, InitByteInv, InitDoneInv, NormalizeInv, BitInv,
       DirectBitInv, SymbolErrorInv, LastInv DEF Next
<1> QED BY InitInv, <1>1, PTL DEF Spec

\* Data of any size: if it holds the header, the decoder takes no byte behind it, and
\* only the bytes shown after an error can lie outside RAM.
THEOREM ReadsInside == Spec => []InputInside
<1>1. IInv => InputInside
  BY DEF IInv
<1> QED BY <1>1, Inductive, PTL

\* The adaptive probabilities keep their distance from 0 and Total, and one byte
\* per bit is always enough to make the range normal again.
THEOREM RangeStaysNormal == Spec => [](ProbInside /\ OneByteEnough)
<1>1. IInv => ProbInside /\ OneByteEnough
  BY DEF IInv
<1> QED BY <1>1, Inductive, PTL

\* Code stays below Range unless the stream starts or is halved outside it.
THEOREM CodeStaysInside == Spec => []CodeInside
<1>1. IInv => CodeInside
  BY DEF IInv
<1> QED BY <1>1, Inductive, PTL

\* The number that the bytes spell lies in the interval an encoder has that was given
\* the bits decoded so far: the decoder reads the bits that were written.
THEOREM BitsRight == Spec => []BitsOfStream
<1>1. ASSUME IInv PROVE BitsOfStream
  <2>1. low \in Nat /\ code \in Nat /\ range \in Nat
    BY <1>1, Widths DEF IInv, TypeOK
  <2>2. sound /\ pc \in {"bit", "split"} => number = low + code /\ code < range
    BY <1>1 DEF IInv, CodeInside
  <2> QED BY <2>1, <2>2 DEF BitsOfStream
<1> QED BY <1>1, Inductive, PTL

\* Range, Code and the probabilities keep to their widths.
THEOREM TypeCorrect == Spec => []TypeOK
<1>1. IInv => TypeOK
  BY DEF IInv
<1> QED BY <1>1, Inductive, PTL

\* However long a run of equal bits, no probability comes closer to 0 or Total than
\* Unit - 1.
THEOREM ProbabilitiesInside == Spec => []ProbInside
<1>1. IInv => ProbInside
  BY DEF IInv
<1> QED BY <1>1, Inductive, PTL
=============================================================================
