-------------------------- MODULE LzmaDecodeProofs --------------------------
(***************************************************************************)
(* Proofs about LzmaDecode, for every width, size and length: its          *)
(* invariant, that it never reads or writes outside the output, and that   *)
(* it implements Lz77.                                                     *)
(***************************************************************************)
EXTENDS LzmaDecode, TLAPS

-----------------------------------------------------------------------------
(* Sequences and constants. *)

\* What Append does.
LEMMA Appended ==
  ASSUME NEW S, NEW s \in Seq(S), NEW e \in S
  PROVE  /\ Append(s, e) \in Seq(S) /\ Len(s) \in Nat
         /\ Len(Append(s, e)) = Len(s) + 1
         /\ \A k \in 1 .. Len(s) : Append(s, e)[k] = s[k]
         /\ Append(s, e)[Len(s) + 1] = e
OBVIOUS

\* The elements of a sequence.
LEMMA Element ==
  ASSUME NEW S, NEW s \in Seq(S), NEW k \in 1 .. Len(s)
  PROVE  s[k] \in S
OBVIOUS

\* The constants are numbers.
LEMMA Numbers ==
  /\ Wrap \in Nat /\ Wrap >= 2 /\ MinLen \in Nat /\ MinLen >= 1
  /\ MaxLen \in Nat /\ MaxLen >= MinLen /\ 0 \in Bytes
  /\ \A z \in Sizes : z \in Nat /\ z < Wrap
BY LzmaDecodeAssumption

\* The byte at a distance that has been checked.
LEMMA BackIn ==
  ASSUME out \in Seq(Bytes), NEW d \in 1 .. nowPos
  PROVE  Back(d) \in Bytes /\ nowPos - d + 1 \in 1 .. nowPos
<1>1. nowPos \in Nat
  BY DEF nowPos
<1>2. nowPos - d + 1 \in 1 .. nowPos
  BY <1>1
<1> QED BY <1>2, Element DEF Back, nowPos

-----------------------------------------------------------------------------
(* The invariant. *)

\* Returning keeps the invariant, from wherever the last symbol is complete.
LEMMA ReturnInv ==
  ASSUME IInv, NEW r \in {0, -1, -2}, Return(r)
  PROVE  IInv'
<1>1. /\ pc' = "done" /\ ret' = r
      /\ UNCHANGED <<outSize, out, rep, state, previousByte, len, text, recent>>
  BY DEF Return
<1>2. TypeOK'
  BY <1>1 DEF IInv, TypeOK
<1>3. nowPos' = nowPos
  BY <1>1 DEF nowPos
<1> QED
  BY <1>1, <1>2, <1>3
     DEF IInv, ReadsInside, WritesInside, PreviousInv, CopyInv, SyncInv, RepInv, InLoop

\* The initial states satisfy the invariant.
LEMMA InitInv == Init => IInv
<1> SUFFICES ASSUME Init PROVE IInv
  OBVIOUS
<1>1. out \in Seq(Bytes) /\ nowPos = 0
  BY DEF Init, nowPos
<1>2. outSize \in Nat /\ rep \in [Ranks -> 1 .. Wrap - 1]
  BY Numbers DEF Init
<1>3. TypeOK
  BY <1>1, <1>2, Numbers DEF Init, TypeOK
<1> QED
  BY <1>1, <1>2, <1>3
     DEF Init, IInv, ReadsInside, WritesInside, PreviousInv, CopyInv, SyncInv, RepInv, InLoop

\* A symbol that adds the one byte b to the output keeps it.
LEMMA OneByteInv ==
  ASSUME IInv, InLoop, NEW b \in Bytes, NEW s \in 0 .. 11,
         pc' = pc, previousByte' = b, out' = Append(out, b), state' = s,
         text' = out', recent' = rep, UNCHANGED <<ret, outSize, rep, len>>
  PROVE  IInv'
<1>1. /\ out \in Seq(Bytes) /\ nowPos \in Nat /\ outSize \in Nat /\ nowPos < outSize
      /\ pc = "loop" /\ TypeOK
  BY Numbers DEF IInv, TypeOK, InLoop, nowPos
<1>2. out' \in Seq(Bytes) /\ nowPos' = nowPos + 1 /\ out'[nowPos'] = b
  BY <1>1, Appended DEF nowPos
<1>3. TypeOK'
  BY <1>1, <1>2 DEF TypeOK
<1>4. \A k \in Ranks : rep'[k] \in Nat /\ rep'[k] \in 1 .. nowPos'
  <2> SUFFICES ASSUME NEW k \in Ranks PROVE rep[k] \in Nat /\ rep[k] \in 1 .. nowPos + 1
    BY <1>2
  <2>1. rep[k] \in 1 .. Wrap - 1 /\ (rep[k] = 1 \/ rep[k] <= nowPos)
    BY <1>1 DEF IInv, TypeOK, RepInv
  <2> QED BY <1>1, <2>1, Numbers
<1>5. ReadsInside' /\ RepInv'
  BY <1>1, <1>2, <1>4 DEF ReadsInside, RepInv, InLoop
<1>6. WritesInside' /\ PreviousInv'
  BY <1>1, <1>2 DEF WritesInside, PreviousInv
<1>7. CopyInv' /\ SyncInv'
  BY <1>1 DEF CopyInv, SyncInv
<1> QED BY <1>3, <1>5, <1>6, <1>7 DEF IInv

\* Literals.
LEMMA LiteralInv == IInv /\ DecodeLiteral => IInv'
<1> SUFFICES ASSUME IInv, DecodeLiteral PROVE IInv'
  OBVIOUS
<1>1. PICK b \in Bytes : previousByte' = b /\ out' = Append(out, b)
  BY DEF DecodeLiteral
<1>2. AfterLiteral(state) \in 0 .. 11
  BY DEF IInv, TypeOK, AfterLiteral
<1> QED BY <1>1, <1>2, OneByteInv DEF DecodeLiteral

\* Short repetitions.
LEMMA ShortRepInv == IInv /\ DecodeShortRep => IInv'
<1> SUFFICES ASSUME IInv, DecodeShortRep PROVE IInv'
  OBVIOUS
<1>1. CASE nowPos = 0
  BY <1>1, ReturnInv DEF DecodeShortRep
<1>2. CASE nowPos # 0
  <2>1. rep[0] \in 1 .. nowPos /\ out \in Seq(Bytes) /\ 0 \in Ranks
    <3>1. out \in Seq(Bytes) /\ nowPos \in Nat /\ 0 \in Ranks
      BY DEF IInv, TypeOK, nowPos, Ranks
    <3> QED BY <1>2, <3>1 DEF IInv, ReadsInside, DecodeShortRep
  <2>2. Back(rep[0]) \in Bytes
    BY <2>1, BackIn
  <2>3. (IF state < NumLitStates THEN 9 ELSE 11) \in 0 .. 11
    OBVIOUS
  <2> QED BY <1>2, <2>2, <2>3, OneByteInv DEF DecodeShortRep
<1> QED BY <1>1, <1>2

\* How the four distances look after a match begins.
Front(k) == [i \in Ranks |-> IF i = 0 THEN rep[k] ELSE IF i <= k THEN rep[i - 1] ELSE rep[i]]
Pushed(d) == [i \in Ranks |-> IF i = 0 THEN d ELSE rep[i - 1]]

\* The assignments of the code bring rep[k] to the front.
LEMMA RotatedIsFront ==
  ASSUME TypeOK, NEW k \in Ranks
  PROVE  Rotated(k) = Front(k)
<1>1. \A i \in Ranks : Rotated(k)[i] = Front(k)[i]
  <2>1. CASE k = 0
    BY <2>1 DEF Rotated, Front, Ranks, TypeOK
  <2>2. CASE k = 1
    BY <2>2 DEF Rotated, Front, Ranks, TypeOK
  <2>3. CASE k = 2
    BY <2>3 DEF Rotated, Front, Ranks, TypeOK
  <2>4. CASE k = 3
    BY <2>4 DEF Rotated, Front, Ranks, TypeOK
  <2> QED BY <2>1, <2>2, <2>3, <2>4 DEF Ranks
<1>2. Rotated(k) = [i \in Ranks |-> Rotated(k)[i]]
  BY DEF Rotated, TypeOK
<1>3. Front(k) = [i \in Ranks |-> Front(k)[i]]
  BY DEF Front
<1> QED BY <1>1, <1>2, <1>3

\* Checking a distance and entering the copy loop.
LEMMA CopyEntryInv ==
  ASSUME IInv, InLoop, NEW r \in [Ranks -> 1 .. Wrap - 1], NEW s \in 0 .. 11, Copy(r, s),
         \/ \E k \in Ranks : r = Front(k)
         \/ r = Pushed(r[0]),
         \A k \in Ranks : r[k] = 1 \/ r[k] <= nowPos \/ r[k] = r[0]
  PROVE  IInv'
<1>1. CASE TooFar(r[0])
  BY <1>1, ReturnInv DEF Copy
<1>2. CASE ~TooFar(r[0])
  <2>1. /\ pc' = "copy" /\ rep' = r /\ state' = s /\ len' \in Lengths
        /\ UNCHANGED <<ret, outSize, out, previousByte, text, recent>>
    BY <1>2 DEF Copy
  <2>2. /\ TypeOK /\ pc = "loop" /\ nowPos \in Nat /\ outSize \in Nat /\ nowPos < outSize
        /\ text = out /\ recent = rep /\ nowPos' = nowPos
    BY <2>1, Numbers DEF IInv, TypeOK, InLoop, nowPos, SyncInv
  <2>3. r[0] \in 1 .. nowPos
    BY <1>2, <2>2, Numbers DEF TooFar, Ranks
  <2>4. \A k \in Ranks : r[k] \in 1 .. nowPos
    BY <2>2, <2>3, Numbers
  <2>5. len' \in 1 .. MaxLen /\ len' \in Nat
    BY <2>1, Numbers DEF Lengths
  <2>6. TypeOK'
    BY <2>1, <2>2, <2>5, Numbers DEF TypeOK
  <2>7. ReadsInside' /\ WritesInside' /\ RepInv' /\ SyncInv'
    BY <2>1, <2>2, <2>3, <2>4 DEF ReadsInside, WritesInside, RepInv, SyncInv, InLoop
  <2>8. PreviousInv'
    BY <2>1, <2>2 DEF IInv, PreviousInv
  <2>9. CopyInv'
    <3>1. Len(text') = nowPos /\ Len(text') = nowPos' /\ text' = out'
      BY <2>1, <2>2 DEF nowPos
    <3>2. len' + (nowPos' - Len(text')) \in Lengths
      BY <2>1, <2>2, <2>5, <3>1
    <3>3. \/ \E k \in Ranks : rep' = [i \in Ranks |-> IF i = 0 THEN recent'[k]
                                     ELSE IF i <= k THEN recent'[i - 1] ELSE recent'[i]]
          \/ rep' = [i \in Ranks |-> IF i = 0 THEN rep'[0] ELSE recent'[i - 1]]
      BY <2>1, <2>2 DEF Front, Pushed
    <3> QED BY <2>1, <2>2, <2>3, <2>5, <3>1, <3>2, <3>3 DEF CopyInv
  <2> QED BY <2>6, <2>7, <2>8, <2>9 DEF IInv
<1> QED BY <1>1, <1>2

\* Repeated matches.
LEMMA DecodeRepInv == IInv /\ DecodeRep => IInv'
<1> SUFFICES ASSUME IInv, DecodeRep PROVE IInv'
  OBVIOUS
<1>1. PICK k \in Ranks : Copy(Rotated(k), IF state < NumLitStates THEN 8 ELSE 11)
  BY DEF DecodeRep
<1>2. Rotated(k) = Front(k) /\ pc = "loop" /\ InLoop
  BY RotatedIsFront DEF IInv, DecodeRep, InLoop
<1>3. \A i \in Ranks : Front(k)[i] = IF i = 0 THEN rep[k] ELSE IF i <= k THEN rep[i - 1] ELSE rep[i]
  BY DEF Front
<1>4. \A i \in Ranks : \E j \in Ranks : Front(k)[i] = rep[j]
  BY <1>3 DEF Ranks
<1>5. Front(k) \in [Ranks -> 1 .. Wrap - 1]
  <2>1. \A i \in Ranks : Front(k)[i] \in 1 .. Wrap - 1
    BY <1>4 DEF IInv, TypeOK
  <2>2. Front(k) = [i \in Ranks |-> Front(k)[i]]
    BY DEF Front
  <2> QED BY <2>1, <2>2
<1>6. \A i \in Ranks : Front(k)[i] = 1 \/ Front(k)[i] <= nowPos
  BY <1>2, <1>4 DEF IInv, RepInv
<1>7. (IF state < NumLitStates THEN 8 ELSE 11) \in 0 .. 11
  OBVIOUS
<1> QED BY <1>1, <1>2, <1>5, <1>6, <1>7, CopyEntryInv

\* Matches at a new distance, and the end marker.
LEMMA DecodeMatchInv == IInv /\ DecodeMatch => IInv'
<1> SUFFICES ASSUME IInv, DecodeMatch PROVE IInv'
  OBVIOUS
<1>1. PICK x \in 0 .. Wrap - 1 :
        LET d == (x + 1) % Wrap IN
          \/ Marker(d) /\ EndMarker
          \/ /\ ~Marker(d)
             /\ Copy([i \in Ranks |-> IF i = 0 THEN d ELSE rep[i - 1]],
                     IF state < NumLitStates THEN 7 ELSE 10)
  BY DEF DecodeMatch
<1>2. PICK d \in 0 .. Wrap - 1 : d = (x + 1) % Wrap
  BY Numbers
<1>3. CASE Marker(d) /\ EndMarker
  <2>1. /\ pc' = "last" /\ pc = "loop"
        /\ UNCHANGED <<ret, outSize, out, rep, state, previousByte, len, text, recent>>
    BY <1>3 DEF EndMarker, DecodeMatch, InLoop
  <2>2. TypeOK' /\ nowPos' = nowPos
    BY <2>1 DEF IInv, TypeOK, nowPos
  <2> QED
    BY <2>1, <2>2
       DEF IInv, ReadsInside, WritesInside, PreviousInv, CopyInv, SyncInv, RepInv, InLoop
<1>4. CASE ~Marker(d) /\ Copy(Pushed(d), IF state < NumLitStates THEN 7 ELSE 10)
  <2>1. d \in 1 .. Wrap - 1 /\ InLoop /\ pc = "loop"
    BY <1>2, <1>4, Numbers DEF Marker, DecodeMatch, InLoop
  <2>2. Pushed(d)[0] = d /\ \A i \in Ranks : i # 0 => i - 1 \in Ranks /\ Pushed(d)[i] = rep[i - 1]
    BY DEF Pushed, Ranks
  <2>3. Pushed(d) \in [Ranks -> 1 .. Wrap - 1]
    <3>1. \A i \in Ranks : Pushed(d)[i] \in 1 .. Wrap - 1
      BY <2>1, <2>2 DEF IInv, TypeOK
    <3>2. Pushed(d) = [i \in Ranks |-> Pushed(d)[i]]
      BY DEF Pushed
    <3> QED BY <3>1, <3>2
  <2>4. \A i \in Ranks : Pushed(d)[i] = 1 \/ Pushed(d)[i] <= nowPos \/ Pushed(d)[i] = Pushed(d)[0]
    BY <2>1, <2>2 DEF IInv, RepInv
  <2>5. (IF state < NumLitStates THEN 7 ELSE 10) \in 0 .. 11
    OBVIOUS
  <2> QED BY <1>4, <2>1, <2>2, <2>3, <2>4, <2>5, CopyEntryInv
<1> QED BY <1>1, <1>2, <1>3, <1>4 DEF Pushed

\* One byte of a match.
LEMMA CopyByteFacts ==
  ASSUME IInv, CopyByte
  PROVE  /\ out \in Seq(Bytes) /\ nowPos \in Nat /\ outSize \in Nat /\ nowPos < outSize
         /\ rep[0] \in 1 .. nowPos /\ previousByte' = out[nowPos - rep[0] + 1]
         /\ previousByte' \in Bytes /\ out' = Append(out, previousByte')
         /\ out' \in Seq(Bytes) /\ nowPos' = nowPos + 1 /\ out'[nowPos'] = previousByte'
         /\ \A k \in 1 .. nowPos : out'[k] = out[k]
         /\ len' = len - 1 /\ len \in 1 .. MaxLen /\ pc = "copy"
         /\ UNCHANGED <<ret, outSize, rep, state>>
         /\ Len(text) \in Nat /\ Len(text) <= nowPos
<1>1. /\ pc = "copy" /\ previousByte' = Back(rep[0]) /\ out' = Append(out, previousByte')
      /\ len' = len - 1 /\ UNCHANGED <<ret, outSize, rep, state>>
  BY DEF CopyByte
<1>2. /\ out \in Seq(Bytes) /\ text \in Seq(Bytes) /\ nowPos \in Nat /\ outSize \in Nat
      /\ nowPos < outSize /\ rep[0] \in 1 .. nowPos /\ len \in 1 .. MaxLen
      /\ Len(text) \in Nat /\ Len(text) <= nowPos
  BY <1>1, Numbers DEF IInv, TypeOK, ReadsInside, WritesInside, CopyInv, nowPos
<1>3. previousByte' \in Bytes
  BY <1>1, <1>2, BackIn
<1>4. /\ out' \in Seq(Bytes) /\ nowPos' = nowPos + 1 /\ out'[nowPos'] = previousByte'
      /\ \A k \in 1 .. nowPos : out'[k] = out[k]
  BY <1>1, <1>2, <1>3, Appended DEF nowPos
<1> QED BY <1>1, <1>2, <1>3, <1>4 DEF Back

\* The copies made so far, one more included.
LEMMA CopiesSoFar ==
  ASSUME IInv, CopyByte
  PROVE  /\ rep[0] \in 1 .. Len(text)
         /\ \A k \in 1 .. Len(text) : out'[k] = text[k]
         /\ \A k \in Len(text) + 1 .. nowPos' : out'[k] = out'[k - rep[0]]
<1>1. /\ rep[0] \in 1 .. Len(text)
      /\ \A k \in 1 .. Len(text) : out[k] = text[k]
      /\ \A k \in Len(text) + 1 .. nowPos : out[k] = out[k - rep[0]]
  <2>1. CopyInv /\ pc = "copy"
    BY CopyByteFacts DEF IInv
  <2> QED BY <2>1 DEF CopyInv
<1>2. \A k \in 1 .. Len(text) : out'[k] = text[k]
  BY <1>1, CopyByteFacts
<1>3. ASSUME NEW k \in Len(text) + 1 .. nowPos' PROVE out'[k] = out'[k - rep[0]]
  <2>1. /\ k \in Nat /\ k - rep[0] \in 1 .. nowPos /\ nowPos \in Nat /\ k <= nowPos + 1
        /\ rep[0] \in Nat
    <3>1. /\ Len(text) \in Nat /\ nowPos \in Nat /\ nowPos' = nowPos + 1
          /\ rep[0] \in 1 .. Len(text) /\ Len(text) <= nowPos /\ k \in Len(text) + 1 .. nowPos'
      BY <1>1, CopyByteFacts
    <3> HIDE DEF nowPos
    <3> QED BY <3>1
  <2>2. out'[k - rep[0]] = out[k - rep[0]]
    BY <2>1, CopyByteFacts
  <2>3. CASE k <= nowPos
    BY <1>1, <2>1, <2>2, <2>3, CopyByteFacts
  <2>4. CASE k = nowPos + 1
    <3>1. out'[k] = out[nowPos - rep[0] + 1]
      BY <2>4, CopyByteFacts
    <3>2. nowPos - rep[0] + 1 = k - rep[0]
      BY <2>1, <2>4
    <3> QED BY <2>2, <3>1, <3>2
  <2> QED BY <2>1, <2>3, <2>4
<1> QED BY <1>1, <1>2, <1>3

LEMMA CopyByteInv == IInv /\ CopyByte => IInv'
<1> SUFFICES ASSUME IInv, CopyByte PROVE IInv'
  OBVIOUS
<1>1. \A k \in Ranks : rep'[k] \in 1 .. nowPos'
  <2> SUFFICES ASSUME NEW k \in Ranks PROVE rep[k] \in 1 .. nowPos'
    BY CopyByteFacts
  <2>1. rep[k] \in 1 .. Wrap - 1 /\ rep[k] <= nowPos
    BY CopyByteFacts DEF IInv, TypeOK, RepInv
  <2> QED BY <2>1, CopyByteFacts, Numbers
<1>2. len' \in 0 .. MaxLen
  BY CopyByteFacts, Numbers
<1>3. PreviousInv'
  BY CopyByteFacts DEF PreviousInv
<1>4. CASE More
  <2>1. /\ pc' = "copy" /\ UNCHANGED <<text, recent>> /\ len' # 0 /\ nowPos' < outSize'
        /\ outSize' = outSize
    BY <1>4 DEF CopyByte, More
  <2>2. TypeOK'
    BY <1>2, <2>1, CopyByteFacts DEF IInv, TypeOK
  <2>3. ReadsInside' /\ WritesInside' /\ RepInv' /\ SyncInv'
    <3>1. 0 \in Ranks /\ nowPos' \in Nat /\ outSize \in Nat
      BY CopyByteFacts DEF Ranks
    <3>2. ReadsInside'
      BY <1>1, <2>1, <3>1 DEF ReadsInside, InLoop
    <3>3. WritesInside'
      BY <2>1, <3>1 DEF WritesInside
    <3>4. RepInv'
      BY <1>1, <2>1, <3>1 DEF RepInv
    <3>5. SyncInv'
      BY <2>1 DEF SyncInv
    <3> QED BY <3>2, <3>3, <3>4, <3>5
  <2>4. len' \in 1 .. MaxLen
    BY <1>2, <2>1
  <2>5. len' + (nowPos' - Len(text')) = len + (nowPos - Len(text))
    BY <2>1, CopyByteFacts
  <2>6. CopyInv'
    <3>1. /\ rep' = rep /\ text' = text /\ recent' = recent /\ outSize' = outSize
          /\ nowPos' = nowPos + 1 /\ Len(text) \in Nat /\ nowPos \in Nat /\ Len(text) <= nowPos
      BY <2>1, CopyByteFacts
    <3>2. CopyInv /\ pc = "copy"
      BY CopyByteFacts DEF IInv
    <3>3. len' \in 1 .. MaxLen /\ len' + (nowPos' - Len(text')) \in Lengths
      BY <2>4, <2>5, <3>2 DEF CopyInv
    <3>4. rep'[0] \in 1 .. Len(text') /\ Len(text') < outSize' /\ Len(text') <= nowPos'
      BY <3>1, <3>2 DEF CopyInv
    <3>5. /\ \A k \in 1 .. Len(text') : out'[k] = text'[k]
          /\ \A k \in Len(text') + 1 .. nowPos' : out'[k] = out'[k - rep'[0]]
      BY <3>1, CopiesSoFar
    <3>6. \/ \E k \in Ranks : rep' = [i \in Ranks |-> IF i = 0 THEN recent'[k]
                                     ELSE IF i <= k THEN recent'[i - 1] ELSE recent'[i]]
          \/ rep' = [i \in Ranks |-> IF i = 0 THEN rep'[0] ELSE recent'[i - 1]]
      BY <3>1, <3>2 DEF CopyInv
    <3> QED BY <3>3, <3>4, <3>5, <3>6 DEF CopyInv
  <2> QED BY <1>3, <2>2, <2>3, <2>6 DEF IInv
<1>5. CASE ~More
  <2>1. pc' = "loop" /\ text' = out' /\ recent' = rep
    BY <1>5 DEF CopyByte
  <2>2. TypeOK'
    BY <1>2, <2>1, CopyByteFacts DEF IInv, TypeOK
  <2>3. ReadsInside' /\ WritesInside' /\ RepInv' /\ SyncInv' /\ CopyInv'
    BY <1>1, <2>1, CopyByteFacts
       DEF ReadsInside, WritesInside, RepInv, SyncInv, CopyInv, InLoop
  <2> QED BY <1>3, <2>2, <2>3 DEF IInv
<1> QED BY <1>4, <1>5

\* What is before the first symbol and after the last.
LEMMA OuterInv == IInv /\ (InitProps \/ Start \/ InputEnds \/ LoopEnds \/ LastNormalize) => IInv'
<1> SUFFICES ASSUME IInv, InitProps \/ Start \/ InputEnds \/ LoopEnds \/ LastNormalize
             PROVE  IInv'
  OBVIOUS
<1>1. CASE \E r \in {0, -1, -2} : Return(r)
  BY <1>1, ReturnInv
<1>2. CASE /\ pc' \in {"init", "last"} /\ (pc' = "init" => pc = "start") /\ (pc' = "last" => pc = "loop")
           /\ UNCHANGED <<ret, outSize, out, rep, state, previousByte, len, text, recent>>
  <2>1. TypeOK' /\ nowPos' = nowPos
    BY <1>2 DEF IInv, TypeOK, nowPos
  <2> QED
    BY <1>2, <2>1
       DEF IInv, ReadsInside, WritesInside, PreviousInv, CopyInv, SyncInv, RepInv, InLoop
<1>3. CASE Start
  <2>1. /\ pc' = "loop" /\ out' = << >> /\ rep' = [i \in Ranks |-> 1] /\ state' = 0
        /\ previousByte' = 0 /\ len' = 0 /\ text' = << >> /\ recent' = rep'
        /\ UNCHANGED <<ret, outSize>>
    BY <1>3 DEF Start
  <2>2. out' \in Seq(Bytes) /\ nowPos' = 0
    BY <2>1 DEF nowPos
  <2>3. rep' \in [Ranks -> 1 .. Wrap - 1] /\ \A k \in Ranks : rep'[k] = 1
    BY <2>1, Numbers
  <2>4. outSize' \in Nat /\ 0 \in 0 .. MaxLen
    BY <2>1, Numbers DEF IInv, TypeOK
  <2>5. TypeOK'
    BY <2>1, <2>2, <2>3, <2>4, Numbers DEF IInv, TypeOK
  <2>6. ReadsInside' /\ WritesInside'
    BY <2>1, <2>2, <2>4 DEF ReadsInside, WritesInside, InLoop, NumLitStates
  <2>7. PreviousInv' /\ CopyInv'
    BY <2>1, <2>2 DEF PreviousInv, CopyInv
  <2>8. SyncInv' /\ RepInv'
    <3>1. RepInv'
      BY <2>1, <2>3 DEF RepInv
    <3>2. pc' # "start" /\ pc' # "init" /\ text' = out' /\ recent' = rep'
      BY <2>1
    <3>3. SyncInv'
      BY <3>2 DEF SyncInv
    <3> QED BY <3>1, <3>3
  <2> QED BY <2>5, <2>6, <2>7, <2>8 DEF IInv
<1> QED BY <1>1, <1>2, <1>3 DEF InitProps, InputEnds, LoopEnds, LastNormalize

-----------------------------------------------------------------------------
(* The theorems. *)

\* The invariant of the decoder is inductive.
THEOREM Inductive == Spec => []IInv
<1>1. IInv /\ [Next]_vars => IInv'
  <2> SUFFICES ASSUME IInv, [Next]_vars PROVE IInv'
    OBVIOUS
  <2>1. CASE UNCHANGED vars
    <3>1. UNCHANGED <<pc, ret, outSize, out, rep, state, previousByte, len, text, recent>>
      BY <2>1 DEF vars
    <3>2. TypeOK' /\ nowPos' = nowPos
      BY <3>1 DEF IInv, TypeOK, nowPos
    <3>3. ReadsInside' /\ WritesInside' /\ PreviousInv' /\ SyncInv' /\ RepInv'
      BY <3>1, <3>2 DEF IInv, ReadsInside, WritesInside, PreviousInv, SyncInv, RepInv, InLoop
    <3>4. CopyInv'
      BY <3>1, <3>2 DEF IInv, CopyInv
    <3> QED BY <3>2, <3>3, <3>4 DEF IInv
  <2> QED
    BY <2>1, OuterInv, LiteralInv, ShortRepInv, DecodeRepInv, DecodeMatchInv, CopyByteInv DEF Next
<1> QED BY InitInv, <1>1, PTL DEF Spec

\* No stream makes the decoder read output that has not been written.
THEOREM NoWildReads == Spec => []ReadsInside
<1>1. IInv => ReadsInside
  BY DEF IInv
<1> QED BY <1>1, Inductive, PTL

\* No stream makes the decoder write outside the announced size.
THEOREM NoWildWrites == Spec => []WritesInside
<1>1. IInv => WritesInside
  BY DEF IInv
<1> QED BY <1>1, Inductive, PTL

-----------------------------------------------------------------------------
(* The refinement of Lz77. *)

\* A byte at the end of the output that completes a symbol.
LEMMA LiteralRefines ==
  ASSUME IInv, DecodeLiteral
  PROVE  Lz!Literal
<1>1. pc = "loop" /\ nowPos < outSize /\ text = out /\ recent = rep /\ pc' = "loop"
  BY DEF IInv, SyncInv, DecodeLiteral, InLoop
<1>2. Lz!Room
  BY <1>1 DEF Lz!Room, nowPos
<1> QED BY <1>1, <1>2 DEF DecodeLiteral, Lz!Literal

\* A copy of one byte.
LEMMA ShortRepRefines ==
  ASSUME IInv, DecodeShortRep
  PROVE  Lz!ShortRep \/ Lz!End
<1>0. pc = "loop" /\ nowPos < outSize /\ text = out /\ recent = rep
  BY DEF IInv, SyncInv, DecodeShortRep, InLoop
<1>1. CASE nowPos = 0
  BY <1>0, <1>1 DEF DecodeShortRep, Return, Lz!End
<1>2. CASE nowPos # 0
  <2>1. /\ previousByte' = Back(rep[0]) /\ out' = Append(out, previousByte') /\ pc' = pc
        /\ text' = out' /\ recent' = rep /\ UNCHANGED outSize
    BY <1>2 DEF DecodeShortRep
  <2>2. /\ rep[0] \in 1 .. nowPos /\ out \in Seq(Bytes) /\ nowPos \in Nat /\ outSize \in Nat
    <3>1. out \in Seq(Bytes) /\ nowPos \in Nat /\ 0 \in Ranks /\ outSize \in Nat
      BY Numbers DEF IInv, TypeOK, nowPos, Ranks
    <3> QED BY <1>2, <3>1 DEF IInv, ReadsInside, DecodeShortRep
  <2>3. /\ text' \in Seq(Bytes) /\ Len(text') = Len(text) + 1
        /\ \A k \in 1 .. Len(text) : text'[k] = text[k]
        /\ text'[Len(text) + 1] = out[nowPos - rep[0] + 1]
        /\ Len(text) = nowPos
    BY <1>0, <2>1, <2>2, BackIn, Appended DEF Back, nowPos
  <2>4. \A k \in Len(text) + 1 .. Len(text') : text'[k] = text'[k - rep[0]]
    <3> SUFFICES ASSUME NEW k \in Len(text) + 1 .. Len(text') PROVE text'[k] = text'[k - rep[0]]
      OBVIOUS
    <3>1. k = nowPos + 1 /\ nowPos - rep[0] + 1 = k - rep[0] /\ k - rep[0] \in 1 .. nowPos
      <4>1. /\ Len(text) = nowPos /\ Len(text') = nowPos + 1 /\ nowPos \in Nat
            /\ rep[0] \in 1 .. nowPos /\ k \in Len(text) + 1 .. Len(text')
        BY <2>2, <2>3
      <4> HIDE DEF nowPos
      <4> QED BY <4>1
    <3>2. text'[k] = out[k - rep[0]]
      BY <2>3, <3>1
    <3>3. text'[k - rep[0]] = text[k - rep[0]]
      BY <2>3, <3>1
    <3> QED BY <1>0, <3>2, <3>3
  <2>5. Lz!Repeat(recent[0], 1)
    BY <1>0, <2>1, <2>2, <2>3, <2>4 DEF Lz!Repeat, Lz!Room
  <2> QED BY <1>0, <2>1, <2>5 DEF Lz!ShortRep
<1> QED BY <1>1, <1>2

\* The last byte of a match completes it; those before it show nowhere.
LEMMA CopyByteRefines ==
  ASSUME IInv, CopyByte
  PROVE  \/ UNCHANGED <<text, recent, outSize, pc = "done">>
         \/ Lz!Match \/ \E r \in Ranks : Lz!Rep(r)
<1>1. CASE More
  BY <1>1, CopyByteFacts DEF CopyByte
<1>2. CASE ~More
  <2>1. pc' = "loop" /\ text' = out' /\ recent' = rep /\ (len' = 0 \/ nowPos' >= outSize')
    <3>1. pc' = "loop" /\ text' = out' /\ recent' = rep
      BY <1>2 DEF CopyByte
    <3>2. outSize' = outSize /\ outSize \in Nat /\ nowPos' \in Nat
      BY CopyByteFacts
    <3>3. len' = 0 \/ nowPos' >= outSize
      BY <1>2, <3>2 DEF More
    <3> QED BY <3>1, <3>2, <3>3
  <2> DEFINE n == len + (nowPos - Len(text))
  <2>2. n \in Lengths /\ n \in Nat /\ Len(text) < outSize
    BY CopyByteFacts, Numbers DEF IInv, CopyInv, Lengths
  <2>3. Len(text') = IF Len(text) + n <= outSize THEN Len(text) + n ELSE outSize
    <3>1. Len(text') = nowPos + 1 /\ outSize' = outSize
      BY <2>1, CopyByteFacts DEF nowPos
    <3>2. len \in Nat /\ len >= 1 /\ (len = 1 \/ nowPos + 1 >= outSize)
      BY <2>1, CopyByteFacts, Numbers
    <3>3. Len(text) \in Nat /\ nowPos \in Nat /\ outSize \in Nat /\ nowPos < outSize
      BY CopyByteFacts
    <3>4. Len(text) + n = nowPos + len /\ Len(text) + n \in Nat
      BY <3>2, <3>3
    <3> HIDE DEF n, nowPos
    <3>5. CASE len = 1
      BY <3>1, <3>3, <3>4, <3>5
    <3>6. CASE nowPos + 1 >= outSize
      BY <3>1, <3>2, <3>3, <3>4, <3>6
    <3> QED BY <3>2, <3>5, <3>6
  <2> HIDE DEF n
  <2>4. Lz!Repeat(rep[0], n)
    <3>1. Lz!Room
      BY <2>2, CopyByteFacts DEF Lz!Room
    <3>2. Len(text') = nowPos' /\ text' \in Seq(Bytes)
      BY <2>1, CopyByteFacts DEF nowPos
    <3>3. \A k \in 1 .. Len(text) : text'[k] = text[k]
      BY <2>1, CopiesSoFar
    <3>4. \A k \in Len(text) + 1 .. Len(text') : text'[k] = text'[k - rep[0]]
      BY <2>1, <3>2, CopiesSoFar
    <3>5. rep[0] \in 1 .. Len(text) /\ UNCHANGED <<outSize, pc = "done">>
      BY <2>1, CopyByteFacts, CopiesSoFar
    <3> QED BY <2>3, <3>1, <3>2, <3>3, <3>4, <3>5 DEF Lz!Repeat
  <2>5. CASE \E k \in Ranks : rep = [i \in Ranks |-> IF i = 0 THEN recent[k]
                                     ELSE IF i <= k THEN recent[i - 1] ELSE recent[i]]
    <3>1. PICK k \in Ranks : rep = [i \in Ranks |-> IF i = 0 THEN recent[k]
                                     ELSE IF i <= k THEN recent[i - 1] ELSE recent[i]]
      BY <2>5
    <3>2. rep[0] = recent[k]
      BY <3>1 DEF Ranks
    <3>3. Lz!Rep(k)
      BY <2>1, <2>2, <2>4, <3>1, <3>2 DEF Lz!Rep, Lz!Ranks, Ranks
    <3> QED BY <3>3
  <2>6. CASE rep = [i \in Ranks |-> IF i = 0 THEN rep[0] ELSE recent[i - 1]]
    <3>1. PICK d \in 1 .. Len(text) : d = rep[0]
      BY CopiesSoFar
    <3>2. recent' = [i \in Ranks |-> IF i = 0 THEN d ELSE recent[i - 1]]
      BY <2>1, <2>6, <3>1
    <3>3. Lz!Match
      BY <2>2, <2>4, <3>1, <3>2 DEF Lz!Match, Lz!Ranks, Ranks
    <3> QED BY <3>3
  <2> QED BY <2>5, <2>6, CopyByteFacts DEF IInv, CopyInv
<1> QED BY <1>1, <1>2

\* Nothing else shows, but that decoding has come to an end.
LEMMA SilentRefines ==
  ASSUME IInv, InitProps \/ Start \/ InputEnds \/ DecodeRep \/ DecodeMatch \/ LoopEnds \/ LastNormalize
  PROVE  UNCHANGED <<text, recent, outSize, pc = "done">> \/ Lz!End
<1>1. CASE \E r \in {0, -1, -2} : pc # "done" /\ Return(r)
  BY <1>1 DEF Return, Lz!End
<1>2. CASE pc # "done" /\ pc' # "done" /\ UNCHANGED <<text, recent, outSize>>
  BY <1>2
<1>3. CASE Start
  BY <1>3 DEF Start, IInv, SyncInv
<1>4. CASE \E r, s : InLoop /\ Copy(r, s)
  <2>1. PICK r : \E s : InLoop /\ Copy(r, s)
    BY <1>4
  <2>2. PICK s : InLoop /\ Copy(r, s)
    BY <2>1
  <2>3. pc = "loop"
    BY <2>2 DEF InLoop
  <2>4. CASE TooFar(r[0])
    BY <1>1, <2>2, <2>3, <2>4 DEF Copy
  <2>5. CASE ~TooFar(r[0])
    BY <1>2, <2>2, <2>3, <2>5 DEF Copy
  <2> QED BY <2>4, <2>5
<1>5. CASE DecodeRep
  BY <1>4, <1>5 DEF DecodeRep
<1>6. CASE DecodeMatch
  <2>1. CASE EndMarker
    BY <1>2, <1>6, <2>1 DEF EndMarker, DecodeMatch, InLoop
  <2>2. CASE ~EndMarker
    BY <1>4, <1>6, <2>2 DEF DecodeMatch
  <2> QED BY <2>1, <2>2
<1>7. CASE InitProps \/ InputEnds \/ LoopEnds \/ LastNormalize
  BY <1>1, <1>2, <1>7 DEF InitProps, InputEnds, LoopEnds, LastNormalize
<1> QED BY <1>3, <1>5, <1>6, <1>7

\* The decoder implements its specification: the output is the text that the
\* symbols denote, and rep0 .. rep3 are the distances used last.
THEOREM DecodesText == Spec => Decodes
<1>1. Init => Lz!Init
  BY DEF Init, Lz!Init, Lz!Ranks, Ranks
<1>2. IInv /\ [Next]_vars => [Lz!Next]_<<text, recent, outSize, pc = "done">>
  <2> SUFFICES ASSUME IInv, [Next]_vars
               PROVE  [Lz!Next]_<<text, recent, outSize, pc = "done">>
    OBVIOUS
  <2>1. CASE UNCHANGED vars
    BY <2>1 DEF vars
  <2>2. CASE DecodeLiteral
    BY <2>2, LiteralRefines DEF Lz!Next
  <2>3. CASE DecodeShortRep
    BY <2>3, ShortRepRefines DEF Lz!Next
  <2>4. CASE CopyByte
    BY <2>4, CopyByteRefines DEF Lz!Next, Lz!Ranks, Ranks
  <2>5. CASE InitProps \/ Start \/ InputEnds \/ DecodeRep \/ DecodeMatch \/ LoopEnds \/ LastNormalize
    BY <2>5, SilentRefines DEF Lz!Next
  <2> QED BY <2>1, <2>2, <2>3, <2>4, <2>5 DEF Next
<1> QED BY <1>1, <1>2, Inductive, PTL DEF Spec, Decodes, Lz!Spec

\* States, distances and lengths stay in their ranges for every stream.
THEOREM TypeCorrect == Spec => []TypeOK
<1>1. IInv => TypeOK
  BY DEF IInv
<1> QED BY <1>1, Inductive, PTL

-----------------------------------------------------------------------------
(* The end of decoding. *)

\* What lies before the decoder: two steps for each byte of output that is to come, and
\* a few around them.
Ahead ==
  CASE pc = "start" -> 2 * outSize + 6
    [] pc = "init" -> 2 * outSize + 5
    [] pc = "loop" -> 2 * (outSize - nowPos) + 4
    [] pc = "copy" -> 2 * (outSize - nowPos) + 3
    [] pc = "last" -> 2
    [] pc = "done" -> 0

LEMMA AheadIs ==
  ASSUME IInv
  PROVE  /\ outSize \in Nat /\ nowPos \in Nat /\ nowPos <= outSize
         /\ pc = "start" => Ahead = 2 * outSize + 6
         /\ pc = "init" => Ahead = 2 * outSize + 5
         /\ pc = "loop" => Ahead = 2 * (outSize - nowPos) + 4
         /\ pc = "copy" => Ahead = 2 * (outSize - nowPos) + 3
         /\ pc = "last" => Ahead = 2
         /\ pc = "done" => Ahead = 0
         /\ Ahead \in Nat /\ (pc # "done" => Ahead >= 2)
<1>1. outSize \in Nat /\ nowPos \in Nat /\ nowPos <= outSize
  BY Numbers DEF IInv, TypeOK, WritesInside, nowPos
<1>2. pc \in {"start", "init", "loop", "copy", "last", "done"}
  BY DEF IInv, TypeOK
<1>3. /\ pc = "start" => Ahead = 2 * outSize + 6
      /\ pc = "init" => Ahead = 2 * outSize + 5
      /\ pc = "loop" => Ahead = 2 * (outSize - nowPos) + 4
      /\ pc = "copy" => Ahead = 2 * (outSize - nowPos) + 3
      /\ pc = "last" => Ahead = 2
      /\ pc = "done" => Ahead = 0
  BY DEF Ahead
<1>4. Ahead \in Nat /\ (pc # "done" => Ahead >= 2)
  BY <1>1, <1>2, <1>3
<1> QED BY <1>1, <1>3, <1>4

\* A symbol that makes the output one byte longer.
LEMMA Longer ==
  ASSUME IInv, IInv', pc = "loop", pc' = "loop", outSize' = outSize, nowPos' = nowPos + 1
  PROVE  Ahead' < Ahead
<1>1. outSize \in Nat /\ nowPos \in Nat /\ Ahead = 2 * (outSize - nowPos) + 4
  BY AheadIs
<1>2. Ahead' = 2 * (outSize' - nowPos') + 4
  BY DEF Ahead
<1> QED BY <1>1, <1>2

\* A match that is begun has not made it longer yet.
LEMMA Begun ==
  ASSUME IInv, pc = "loop", pc' = "copy", UNCHANGED <<outSize, out>>
  PROVE  Ahead' < Ahead
<1>1. outSize \in Nat /\ nowPos \in Nat /\ Ahead = 2 * (outSize - nowPos) + 4
  BY AheadIs
<1>2. Ahead' = 2 * (outSize - nowPos) + 3
  BY DEF Ahead, nowPos
<1> QED BY <1>1, <1>2

\* The end: of the output, of the input, or a marker.
LEMMA EndNear ==
  ASSUME IInv, \/ pc # "done" /\ pc' = "done"
               \/ pc = "loop" /\ pc' = "last"
  PROVE  Ahead' < Ahead
<1>1. CASE pc # "done" /\ pc' = "done"
  <2>1. Ahead' = 0
    BY <1>1 DEF Ahead
  <2> QED BY <1>1, <2>1, AheadIs
<1>2. CASE pc = "loop" /\ pc' = "last"
  <2>1. Ahead' = 2
    BY <1>2 DEF Ahead
  <2>2. outSize \in Nat /\ nowPos \in Nat /\ nowPos <= outSize /\ Ahead = 2 * (outSize - nowPos) + 4
    BY <1>2, AheadIs
  <2> QED BY <2>1, <2>2
<1> QED BY <1>1, <1>2

\* Whatever the stream says, each symbol brings the end of LzmaDecode closer, as all but the
\* end marker make the output longer; for every size. All that Terminates asks besides is
\* that the processor goes on.
THEOREM DecodingShortens == Spec => [](Ahead \in Nat) /\ [][Ahead' < Ahead]_vars
<1>1. IInv => Ahead \in Nat
  BY AheadIs
<1>2. IInv /\ IInv' /\ [Next]_vars => [Ahead' < Ahead]_vars
  <2> SUFFICES ASSUME IInv, IInv', Next PROVE Ahead' < Ahead
    OBVIOUS
  <2>1. out \in Seq(Bytes) /\ out' \in Seq(Bytes)
    BY DEF IInv, TypeOK
  <2>2. CASE InitProps
    <3>1. CASE pc' = "done"
      BY <2>2, <3>1, EndNear DEF InitProps
    <3>2. CASE pc' # "done"
      <4>1. pc = "start" /\ pc' = "init" /\ outSize' = outSize
        BY <2>2, <3>2 DEF InitProps, Return
      <4>2. Ahead' = 2 * outSize + 5
        BY <4>1 DEF Ahead
      <4> QED BY <4>1, <4>2, AheadIs
    <3> QED BY <3>1, <3>2
  <2>3. CASE Start
    <3>1. pc = "init" /\ pc' = "loop" /\ outSize' = outSize /\ nowPos' = 0
      BY <2>3 DEF Start, nowPos
    <3>2. Ahead' = 2 * (outSize - 0) + 4
      BY <3>1 DEF Ahead
    <3> QED BY <3>1, <3>2, AheadIs
  <2>4. CASE InputEnds
    BY <2>4, EndNear DEF InputEnds, Return
  <2>5. CASE DecodeLiteral
    <3>1. pc = "loop" /\ pc' = "loop" /\ outSize' = outSize
      BY <2>5 DEF DecodeLiteral, InLoop
    <3>2. PICK b \in Bytes : out' = Append(out, b)
      BY <2>5 DEF DecodeLiteral
    <3>3. nowPos' = nowPos + 1
      BY <2>1, <3>2, Appended DEF nowPos
    <3> QED BY <3>1, <3>3, Longer
  <2>6. CASE DecodeShortRep
    <3>1. pc = "loop"
      BY <2>6 DEF DecodeShortRep, InLoop
    <3>2. CASE pc' = "done"
      BY <3>1, <3>2, EndNear
    <3>3. CASE pc' # "done"
      <4>1. pc' = "loop" /\ outSize' = outSize /\ out' = Append(out, previousByte')
        BY <2>6, <3>1, <3>3 DEF DecodeShortRep, Return
      <4>2. previousByte' \in Bytes
        BY DEF IInv, TypeOK
      <4>3. nowPos' = nowPos + 1
        BY <2>1, <4>1, <4>2, Appended DEF nowPos
      <4> QED BY <3>1, <4>1, <4>3, Longer
    <3> QED BY <3>2, <3>3
  <2>7. ASSUME NEW r, NEW s, pc = "loop", Copy(r, s) PROVE Ahead' < Ahead
    <3>1. CASE Return(-2)
      BY <2>7, <3>1, EndNear DEF Return
    <3>2. CASE pc' = "copy" /\ UNCHANGED <<outSize, out>>
      BY <2>7, <3>2, Begun
    <3> QED BY <2>7, <3>1, <3>2 DEF Copy
  <2>8. CASE DecodeRep
    <3>1. pc = "loop" /\ \E k \in Ranks : Copy(Rotated(k), IF state < NumLitStates THEN 8 ELSE 11)
      BY <2>8 DEF DecodeRep, InLoop
    <3> QED BY <2>7, <3>1
  <2>9. CASE DecodeMatch
    <3>1. pc = "loop" /\ (EndMarker \/ \E r, s : Copy(r, s))
      BY <2>9 DEF DecodeMatch, InLoop
    <3>2. CASE EndMarker
      BY <3>1, <3>2, EndNear DEF EndMarker
    <3> QED BY <2>7, <3>1, <3>2
  <2>10. CASE CopyByte
    <3>1. pc = "copy" /\ pc' \in {"copy", "loop"} /\ outSize' = outSize
          /\ out' = Append(out, previousByte')
      BY <2>10 DEF CopyByte
    <3>2. previousByte' \in Bytes
      BY DEF IInv, TypeOK
    <3>3. nowPos' = nowPos + 1
      BY <2>1, <3>1, <3>2, Appended DEF nowPos
    <3>4. outSize \in Nat /\ nowPos \in Nat /\ Ahead = 2 * (outSize - nowPos) + 3
      BY <3>1, AheadIs
    <3>5. \/ Ahead' = 2 * (outSize - (nowPos + 1)) + 3
          \/ Ahead' = 2 * (outSize - (nowPos + 1)) + 4
      BY <3>1, <3>3 DEF Ahead
    <3> QED BY <3>4, <3>5
  <2>11. CASE LoopEnds
    BY <2>11, EndNear DEF LoopEnds
  <2>12. CASE LastNormalize
    BY <2>12, EndNear DEF LastNormalize, Return
  <2> QED
    BY <2>2, <2>3, <2>4, <2>5, <2>6, <2>8, <2>9, <2>10, <2>11, <2>12 DEF Next
<1> QED BY <1>1, <1>2, Inductive, PTL DEF Spec
=============================================================================
