----------------------------- MODULE BitsProofs -----------------------------
(***************************************************************************)
(* Theorems about the bits of LZMA (LzmaBits, src/src/LzmaDecode.c): the   *)
(* places of the probabilities in their table, and the reading of a        *)
(* symbol, bit by bit.  What is known of powers of two, quotients and      *)
(* digits is in RoutinesProofs.                                            *)
(***************************************************************************)
EXTENDS LzmaBits, RoutinesProofs

-----------------------------------------------------------------------------
(* Numbers written with two digits. *)

LEMMA PairBelow ==
  ASSUME NEW w \in Nat \ {0}, NEW x \in Nat, NEW n \in Nat, NEW m \in Nat, x < n, m < w
  PROVE  x * w + m \in Nat /\ x * w + m < n * w
<1>1. (x + 1) * w <= n * w
  BY x + 1 <= n
<1>2. (x + 1) * w = x * w + w /\ x * w \in Nat /\ n * w \in Nat
  OBVIOUS
<1> QED BY <1>1, <1>2

LEMMA PairSame ==
  ASSUME NEW w \in Nat \ {0}, NEW x \in Nat, NEW z \in Nat, NEW m \in Nat, NEW k \in Nat,
         m < w, k < w, x * w + m = z * w + k
  PROVE  x = z /\ m = k
<1> DEFINE a == x * w + m
<1>1. a \in Nat /\ w * x <= a /\ a < w * x + w /\ w * z <= a /\ a < w * z + w
  <2>1. x * w \in Nat /\ z * w \in Nat /\ x * w = w * x /\ z * w = w * z
    OBVIOUS
  <2> QED BY <2>1
<1> HIDE DEF a
<1>2. a \div w = x /\ a \div w = z
  BY <1>1, QuotientIs
<1>3. x = z
  BY <1>2
<1>4. z * w \in Nat
  OBVIOUS
<1> QED BY <1>3, <1>4

-----------------------------------------------------------------------------
(* The slots of the distances. *)

Follow(slot) == (slot \div 2) - 1

LEMMA SlotNext ==
  ASSUME NEW s \in Nat, StartPosModelIndex <= s
  PROVE  /\ Follow(s) \in Nat \ {0} /\ Pow2[Follow(s)] \in Nat \ {0}
         /\ SlotBase(s) \in Nat \ {0}
         /\ SlotBase(s + 1) = SlotBase(s) + Pow2[Follow(s)]
         /\ SlotBase(s) + Pow2[Follow(s)] <= Pow2[Follow(s) + 2]
<1> DEFINE n == Follow(s)
           d == Pow2[n]
<1>1. n \in Nat \ {0} /\ s % 2 \in {0, 1}
      /\ (s % 2 = 0 => (s + 1) % 2 = 1 /\ (s + 1) \div 2 = s \div 2)
      /\ (s % 2 = 1 => (s + 1) % 2 = 0 /\ (s + 1) \div 2 = (s \div 2) + 1)
  BY DEF StartPosModelIndex, Follow
<1>2. d \in Nat \ {0} /\ Pow2[n + 1] = 2 * d /\ Pow2[n + 2] = 4 * d
  <2>1. n \in Nat /\ n + 1 \in Nat /\ (n + 1) + 1 = n + 2
    BY <1>1
  <2>2. d \in Nat \ {0} /\ Pow2[n + 1] = 2 * Pow2[n] /\ Pow2[(n + 1) + 1] = 2 * Pow2[n + 1]
    BY <2>1, Pow2Step
  <2> QED BY <2>1, <2>2
<1>3. SlotBase(s) = (2 + (s % 2)) * Pow2[n]
  BY DEF SlotBase, Follow
<1>4. SlotBase(s + 1) = (2 + ((s + 1) % 2)) * Pow2[((s + 1) \div 2) - 1]
  BY DEF SlotBase
<1>5. (s \div 2) - 1 = n /\ ((s \div 2) + 1) - 1 = n + 1
  BY DEF Follow
<1>6. CASE s % 2 = 0
  <2>1. SlotBase(s) = 2 * Pow2[n] /\ SlotBase(s + 1) = 3 * Pow2[n]
    BY <1>1, <1>3, <1>4, <1>5, <1>6
  <2> HIDE DEF n
  <2> QED BY <1>1, <1>2, <2>1 DEF n
<1>7. CASE s % 2 = 1
  <2>1. SlotBase(s) = 3 * Pow2[n] /\ SlotBase(s + 1) = 2 * Pow2[n + 1]
    BY <1>1, <1>3, <1>4, <1>5, <1>7
  <2> HIDE DEF n
  <2> QED BY <1>1, <1>2, <2>1 DEF n
<1> QED BY <1>1, <1>6, <1>7

\* The probabilities of one slot lie before those of the next.
LEMMA SlotsApart ==
  ASSUME NEW s \in Nat, StartPosModelIndex <= s, NEW t \in Nat, s < t
  PROVE  SlotBase(s) - s + Pow2[Follow(s)] - 1 <= SlotBase(t) - t
<1> DEFINE T == {w \in Nat : s < w /\ ~ (SlotBase(s) - s + Pow2[Follow(s)] - 1 <= SlotBase(w) - w)}
<1>1. SUFFICES ASSUME T # {} PROVE FALSE
  OBVIOUS
<1>2. PICK w \in T : \A y \in T : w <= y
  <2>1. T \in SUBSET Nat
    OBVIOUS
  <2> QED BY <1>1, <2>1, LeastNumber
<1> DEFINE v == w - 1
<1>3. v \in Nat /\ s <= v /\ v + 1 = w /\ StartPosModelIndex <= v /\ v \notin T
  BY <1>2 DEF StartPosModelIndex
<1>4. w \in Nat /\ ~ (SlotBase(s) - s + Pow2[Follow(s)] - 1 <= SlotBase(w) - w)
  BY <1>2
<1>5. s # v => SlotBase(s) - s + Pow2[Follow(s)] - 1 <= SlotBase(v) - v
  BY <1>3
<1> HIDE DEF v, T
<1>6. Pow2[Follow(v)] \in Nat \ {0} /\ SlotBase(v) \in Nat /\ SlotBase(w) = SlotBase(v) + Pow2[Follow(v)]
  BY <1>3, SlotNext
<1>7. Pow2[Follow(s)] \in Nat \ {0} /\ SlotBase(s) \in Nat
  BY SlotNext
<1>8. CASE s = v
  BY <1>3, <1>4, <1>6, <1>8
<1>9. CASE s # v
  BY <1>3, <1>4, <1>5, <1>6, <1>7, <1>9
<1> QED BY <1>8, <1>9

LEMMA FirstSlot == SlotBase(4) = 4
<1>1. 4 \div 2 = 2 /\ 4 % 2 = 0 /\ 2 - 1 = 1
  OBVIOUS
<1>2. Pow2[0] = 1 /\ 0 \in Nat /\ 0 + 1 = 1
  BY Pow2Is
<1>3. Pow2[1] = 2
  <2>1. Pow2[0 + 1] = 2 * Pow2[0]
    BY <1>2, Pow2Is
  <2> QED BY <1>2, <2>1
<1> QED BY <1>1, <1>3 DEF SlotBase

LEMMA FieldWidths ==
  /\ PosBits \in Nat \ {0} /\ LowBits \in Nat \ {0} /\ MidBits \in Nat \ {0} /\ HighBits \in Nat \ {0}
  /\ SlotBits \in Nat \ {0} /\ AlignBits \in Nat \ {0} /\ LitBits \in Nat \ {0} /\ MinLen \in Nat \ {0}
  /\ EndPosModelIndex \in Nat /\ EndPosModelIndex <= Pow2[SlotBits] /\ EndPosModelIndex % 2 = 0
  /\ Follow(EndPosModelIndex) > AlignBits /\ 4 <= EndPosModelIndex
<1>1. Pow2[SlotBits] \in Nat
  BY BitsAssumption, Pow2Step
<1> QED BY <1>1, BitsAssumption DEF Follow

\* Every distance is less than Wrap.
LEMMA SlotsEnd ==
  ASSUME NEW s \in Nat, StartPosModelIndex <= s, s < Pow2[SlotBits]
  PROVE  SlotBase(s) + Pow2[Follow(s)] <= Wrap /\ Wrap \in Nat \ {0}
<1> DEFINE h == Pow2[SlotBits - 1]
<1>1. SlotBits - 1 \in Nat /\ (SlotBits - 1) + 1 = SlotBits
  BY FieldWidths
<1>2. h \in Nat \ {0} /\ Pow2[SlotBits] = 2 * h
  BY <1>1, Pow2Step
<1>3. s \div 2 < h
  BY <1>2
<1> HIDE DEF h
<1>4. Follow(s) + 2 <= h /\ Follow(s) + 2 \in Nat
  BY <1>2, <1>3 DEF Follow, StartPosModelIndex
<1>5. Pow2[Follow(s) + 2] <= Pow2[h] /\ Pow2[h] \in Nat \ {0} /\ Pow2[Follow(s) + 2] \in Nat
  <2>1. Pow2[h] \in Nat \ {0} /\ Pow2[Follow(s) + 2] \in Nat
    BY <1>2, <1>4, Pow2Step
  <2>2. CASE Follow(s) + 2 = h
    BY <2>1, <2>2
  <2>3. CASE Follow(s) + 2 < h
    <3>1. Pow2[Follow(s) + 2] < Pow2[h]
      BY <1>2, <1>4, <2>3, Pow2Grows
    <3> QED BY <2>1, <3>1
  <2> QED BY <1>2, <1>4, <2>1, <2>2, <2>3
<1>6. SlotBase(s) + Pow2[Follow(s)] <= Pow2[Follow(s) + 2] /\ SlotBase(s) \in Nat /\ Pow2[Follow(s)] \in Nat
  BY SlotNext
<1> QED BY <1>5, <1>6 DEF Wrap, h

-----------------------------------------------------------------------------
(* The table of probabilities: one kind of bits after the other. *)

LEMMA Sizes ==
  /\ Pow2[PosBits] \in Nat \ {0} /\ Pow2[LowBits] \in Nat \ {0} /\ Pow2[MidBits] \in Nat \ {0}
  /\ Pow2[HighBits] \in Nat \ {0} /\ Pow2[SlotBits] \in Nat \ {0} /\ Pow2[AlignBits] \in Nat \ {0}
  /\ Pow2[LitBits] \in Nat \ {0} /\ LitSize \in Nat \ {0} /\ LitSize = 3 * Pow2[LitBits]
  /\ Pow2[PosBits] * Pow2[LowBits] \in Nat \ {0} /\ Pow2[PosBits] * Pow2[MidBits] \in Nat \ {0}
<1>1. /\ Pow2[PosBits] \in Nat \ {0} /\ Pow2[LowBits] \in Nat \ {0} /\ Pow2[MidBits] \in Nat \ {0}
      /\ Pow2[HighBits] \in Nat \ {0} /\ Pow2[SlotBits] \in Nat \ {0} /\ Pow2[AlignBits] \in Nat \ {0}
      /\ Pow2[LitBits] \in Nat \ {0}
  BY FieldWidths, Pow2Step
<1>2. ASSUME NEW a \in Nat \ {0}, NEW d \in Nat \ {0} PROVE a * d \in Nat \ {0}
  OBVIOUS
<1>3. Pow2[PosBits] * Pow2[LowBits] \in Nat \ {0} /\ Pow2[PosBits] * Pow2[MidBits] \in Nat \ {0}
  BY <1>1, <1>2
<1>4. LitSize = 3 * Pow2[LitBits] /\ LitSize \in Nat \ {0}
  BY <1>1 DEF LitSize
<1> QED BY <1>1, <1>3, <1>4

\* The slots' probabilities fill what lies between those of the slots and the aligned bits.
LEMMA SlotsFit ==
  /\ NumFullDistances - EndPosModelIndex \in Nat
  /\ \A s \in StartPosModelIndex .. EndPosModelIndex - 1 :
       /\ 0 <= SlotBase(s) - s
       /\ SlotBase(s) - s + Pow2[Follow(s)] - 1 <= NumFullDistances - EndPosModelIndex
<1> DEFINE e == EndPosModelIndex
<1>1. e \in Nat /\ 4 < e /\ e % 2 = 0 /\ Follow(e) \in Nat /\ (e \div 2) \in Nat /\ Follow(e) + 1 = e \div 2
  <2>1. e \in Nat /\ e % 2 = 0 /\ Follow(e) > AlignBits /\ AlignBits \in Nat \ {0}
    BY FieldWidths
  <2> QED BY <2>1 DEF Follow
<1>2. NumFullDistances = 2 * Pow2[Follow(e)] /\ Pow2[Follow(e)] \in Nat
  <2>1. Pow2[Follow(e) + 1] = 2 * Pow2[Follow(e)] /\ Pow2[Follow(e)] \in Nat
    BY <1>1, Pow2Step
  <2> QED BY <1>1, <2>1 DEF NumFullDistances
<1>3. SlotBase(e) = NumFullDistances
  <2>1. SlotBase(e) = (2 + 0) * Pow2[Follow(e)]
    BY <1>1 DEF SlotBase, Follow
  <2> QED BY <1>2, <2>1
<1>4. ASSUME NEW s \in StartPosModelIndex .. EndPosModelIndex - 1
      PROVE  /\ 0 <= SlotBase(s) - s
             /\ SlotBase(s) - s + Pow2[Follow(s)] - 1 <= NumFullDistances - EndPosModelIndex
  <2>1. s \in Nat /\ StartPosModelIndex <= s /\ s < e
    BY <1>1 DEF StartPosModelIndex
  <2>2. SlotBase(s) - s + Pow2[Follow(s)] - 1 <= SlotBase(e) - e
    BY <1>1, <2>1, SlotsApart
  <2>3. SlotBase(s) \in Nat /\ Pow2[Follow(s)] \in Nat \ {0}
    BY <2>1, SlotNext
  <2>4. 0 <= SlotBase(s) - s
    <3>1. CASE s = 4
      BY <3>1, FirstSlot
    <3>2. CASE 4 < s
      <4>1. SlotBase(4) - 4 + Pow2[Follow(4)] - 1 <= SlotBase(s) - s
        BY <2>1, <3>2, SlotsApart DEF StartPosModelIndex
      <4>2. Pow2[Follow(4)] \in Nat \ {0}
        BY SlotNext DEF StartPosModelIndex
      <4> QED BY <2>1, <2>3, <4>1, <4>2, FirstSlot
    <3> QED BY <2>1, <3>1, <3>2 DEF StartPosModelIndex
  <2> QED BY <1>3, <2>2, <2>4
<1>5. NumFullDistances - EndPosModelIndex \in Nat
  <2>1. 4 \in StartPosModelIndex .. EndPosModelIndex - 1
    BY <1>1 DEF StartPosModelIndex
  <2>2. Pow2[Follow(4)] \in Nat \ {0}
    BY SlotNext DEF StartPosModelIndex
  <2>3. SlotBase(4) - 4 + Pow2[Follow(4)] - 1 <= NumFullDistances - EndPosModelIndex
    BY <1>4, <2>1
  <2> QED BY <1>1, <1>2, <2>2, <2>3, FirstSlot
<1> QED BY <1>4, <1>5

Edge(i) ==
  CASE i = 0 -> IsMatch [] i = 1 -> IsRep [] i = 2 -> IsRepG0 [] i = 3 -> IsRepG1 [] i = 4 -> IsRepG2
    [] i = 5 -> IsRep0Long [] i = 6 -> PosSlot [] i = 7 -> SpecPos [] i = 8 -> Align
    [] i = 9 -> LenCoder [] i = 10 -> LenCoder + LenChoice2 [] i = 11 -> LenCoder + LenLow
    [] i = 12 -> LenCoder + LenMid [] i = 13 -> LenCoder + LenHigh
    [] i = 14 -> RepLenCoder [] i = 15 -> RepLenCoder + LenChoice2 [] i = 16 -> RepLenCoder + LenLow
    [] i = 17 -> RepLenCoder + LenMid [] i = 18 -> RepLenCoder + LenHigh
    [] i = 19 -> Literal [] i = 20 -> NumProbs(at)

Rank(r) ==
  CASE r.of = "IsMatch" -> 0 [] r.of = "IsRep" -> 1 [] r.of = "IsRepG0" -> 2 [] r.of = "IsRepG1" -> 3
    [] r.of = "IsRepG2" -> 4 [] r.of = "IsRep0Long" -> 5 [] r.of = "PosSlot" -> 6 [] r.of = "SpecPos" -> 7
    [] r.of = "Align" -> 8
    [] r.of = "LenChoice" -> 9 + 5 * r.x [] r.of = "LenChoice2" -> 10 + 5 * r.x
    [] r.of = "LenLow" -> 11 + 5 * r.x [] r.of = "LenMid" -> 12 + 5 * r.x [] r.of = "LenHigh" -> 13 + 5 * r.x
    [] r.of = "Literal" -> 19

LEMMA CodeLengths ==
  /\ LenChoice = 0 /\ LenChoice2 = 1 /\ LenLow = 2
  /\ LenMid = LenLow + Pow2[PosBits] * Pow2[LowBits]
  /\ LenHigh = LenMid + Pow2[PosBits] * Pow2[MidBits]
  /\ NumLenProbs = LenHigh + Pow2[HighBits]
  /\ LenMid \in Nat /\ LenHigh \in Nat /\ NumLenProbs \in Nat
<1> DEFINE a == Pow2[PosBits] * Pow2[LowBits]
           d == Pow2[PosBits] * Pow2[MidBits]
<1>1. a \in Nat /\ d \in Nat /\ Pow2[HighBits] \in Nat
  BY Sizes
<1>2. LenChoice = 0 /\ LenChoice2 = 1 /\ LenLow = 2 /\ LenMid = LenLow + a /\ LenHigh = LenMid + d /\ NumLenProbs = LenHigh + Pow2[HighBits]
  BY DEF LenChoice, LenChoice2, LenLow, LenMid, LenHigh, NumLenProbs
<1> HIDE DEF a, d
<1>3. LenMid \in Nat /\ LenHigh \in Nat /\ NumLenProbs \in Nat
  BY <1>1, <1>2
<1> QED BY <1>2, <1>3 DEF a, d

LEMMA Offsets ==
  /\ IsMatch = 0
  /\ IsRep = IsMatch + 12 * Pow2[PosBits] /\ IsRep \in Nat
  /\ IsRepG0 = IsRep + 12 /\ IsRepG0 \in Nat
  /\ IsRepG1 = IsRepG0 + 12 /\ IsRepG1 \in Nat
  /\ IsRepG2 = IsRepG1 + 12 /\ IsRepG2 \in Nat
  /\ IsRep0Long = IsRepG2 + 12 /\ IsRep0Long \in Nat
  /\ PosSlot = IsRep0Long + 12 * Pow2[PosBits] /\ PosSlot \in Nat
  /\ SpecPos = PosSlot + 4 * Pow2[SlotBits] /\ SpecPos \in Nat
  /\ Align = SpecPos + (NumFullDistances - EndPosModelIndex) /\ Align \in Nat
  /\ LenCoder = Align + Pow2[AlignBits] /\ LenCoder \in Nat
  /\ RepLenCoder = LenCoder + NumLenProbs /\ RepLenCoder \in Nat
  /\ Literal = RepLenCoder + NumLenProbs /\ Literal \in Nat
<1> DEFINE a == NumFullDistances - EndPosModelIndex
<1>1. Pow2[PosBits] \in Nat /\ Pow2[SlotBits] \in Nat /\ Pow2[AlignBits] \in Nat /\ a \in Nat /\ NumLenProbs \in Nat
  BY Sizes, SlotsFit, CodeLengths
<1>2. /\ IsMatch = 0 /\ IsRep = IsMatch + 12 * Pow2[PosBits] /\ IsRepG0 = IsRep + 12 /\ IsRepG1 = IsRepG0 + 12
      /\ IsRepG2 = IsRepG1 + 12 /\ IsRep0Long = IsRepG2 + 12
      /\ PosSlot = IsRep0Long + 12 * Pow2[PosBits] /\ SpecPos = PosSlot + 4 * Pow2[SlotBits]
  BY DEF IsMatch, IsRep, IsRepG0, IsRepG1, IsRepG2, IsRep0Long, PosSlot, SpecPos, NumStates, NumLenToPosStates
<1>3. /\ IsRep \in Nat /\ IsRepG0 \in Nat /\ IsRepG1 \in Nat /\ IsRepG2 \in Nat /\ IsRep0Long \in Nat
      /\ PosSlot \in Nat /\ SpecPos \in Nat
  BY <1>1, <1>2
<1>4. Align = SpecPos + a
  <2>1. NumFullDistances \in Int /\ EndPosModelIndex \in Int
    <3>1. EndPosModelIndex \in Nat
      BY FieldWidths
    <3>2. NumFullDistances \in Nat
      BY <3>1, Pow2Step DEF NumFullDistances
    <3> QED BY <3>1, <3>2
  <2> QED BY <1>3, <2>1 DEF Align
<1>5. LenCoder = Align + Pow2[AlignBits] /\ RepLenCoder = LenCoder + NumLenProbs /\ Literal = RepLenCoder + NumLenProbs
  BY DEF LenCoder, RepLenCoder, Literal
<1> HIDE DEF a
<1>6. Align \in Nat /\ LenCoder \in Nat /\ RepLenCoder \in Nat /\ Literal \in Nat
  BY <1>1, <1>3, <1>4, <1>5
<1> QED BY <1>2, <1>3, <1>4, <1>5, <1>6 DEF a

\* Where in the stream the symbol may be.
SettingOK ==
  /\ at.state \in 0 .. NumStates - 1
  /\ at.nowPos \in Nat /\ at.pb \in Nat /\ at.lp \in Nat /\ at.lc \in Nat
  /\ at.pb <= PosBits /\ at.lc <= LitBits

LEMMA TableEnds ==
  ASSUME SettingOK
  PROVE  /\ Pow2[at.lc + at.lp] \in Nat \ {0} /\ LitSize * Pow2[at.lc + at.lp] \in Nat
         /\ NumProbs(at) = Literal + LitSize * Pow2[at.lc + at.lp] /\ NumProbs(at) \in Nat
<1>1. at.lc + at.lp \in Nat
  BY DEF SettingOK
<1>2. Pow2[at.lc + at.lp] \in Nat \ {0} /\ LitSize \in Nat /\ Literal \in Nat
  BY <1>1, Pow2Step, Sizes, Offsets
<1>3. ASSUME NEW a \in Nat, NEW d \in Nat PROVE a * d \in Nat
  OBVIOUS
<1>4. LitSize * Pow2[at.lc + at.lp] \in Nat
  BY <1>2, <1>3
<1> QED BY <1>2, <1>4 DEF NumProbs

LEMMA EdgesAre ==
  /\ Edge(0) = IsMatch /\ Edge(1) = IsRep /\ Edge(2) = IsRepG0 /\ Edge(3) = IsRepG1
     /\ Edge(4) = IsRepG2
  /\ Edge(5) = IsRep0Long /\ Edge(6) = PosSlot /\ Edge(7) = SpecPos /\ Edge(8) = Align
  /\ Edge(9) = LenCoder /\ Edge(10) = LenCoder + LenChoice2 /\ Edge(11) = LenCoder + LenLow
     /\ Edge(12) = LenCoder + LenMid /\ Edge(13) = LenCoder + LenHigh
  /\ Edge(14) = RepLenCoder /\ Edge(15) = RepLenCoder + LenChoice2
     /\ Edge(16) = RepLenCoder + LenLow /\ Edge(17) = RepLenCoder + LenMid
     /\ Edge(18) = RepLenCoder + LenHigh
  /\ Edge(19) = Literal /\ Edge(20) = NumProbs(at)
<1>1. Edge(0) = IsMatch /\ Edge(1) = IsRep /\ Edge(2) = IsRepG0 /\ Edge(3) = IsRepG1
     /\ Edge(4) = IsRepG2
  BY DEF Edge
<1>2. Edge(5) = IsRep0Long /\ Edge(6) = PosSlot /\ Edge(7) = SpecPos /\ Edge(8) = Align
  BY DEF Edge
<1>3. Edge(9) = LenCoder /\ Edge(10) = LenCoder + LenChoice2 /\ Edge(11) = LenCoder + LenLow
     /\ Edge(12) = LenCoder + LenMid /\ Edge(13) = LenCoder + LenHigh
  BY DEF Edge
<1>4. Edge(14) = RepLenCoder /\ Edge(15) = RepLenCoder + LenChoice2
     /\ Edge(16) = RepLenCoder + LenLow /\ Edge(17) = RepLenCoder + LenMid
     /\ Edge(18) = RepLenCoder + LenHigh
  BY DEF Edge
<1>5. Edge(19) = Literal /\ Edge(20) = NumProbs(at)
  BY DEF Edge
<1> QED BY <1>1, <1>2, <1>3, <1>4, <1>5

LEMMA EdgesGrow ==
  ASSUME SettingOK, NEW i \in 0 .. 19
  PROVE  Edge(i) \in Nat /\ Edge(i + 1) \in Nat /\ Edge(i) <= Edge(i + 1)
<1> DEFINE a == Pow2[PosBits] * Pow2[LowBits]
           d == Pow2[PosBits] * Pow2[MidBits]
           z == LitSize * Pow2[at.lc + at.lp]
           f == NumFullDistances - EndPosModelIndex
<1>1. /\ a \in Nat /\ d \in Nat /\ z \in Nat /\ f \in Nat /\ Pow2[HighBits] \in Nat
      /\ Pow2[PosBits] \in Nat /\ Pow2[SlotBits] \in Nat /\ Pow2[AlignBits] \in Nat
  BY Sizes, TableEnds, SlotsFit
<1>2. /\ LenChoice = 0 /\ LenChoice2 = 1 /\ LenLow = 2 /\ LenMid = LenLow + a /\ LenHigh = LenMid + d
      /\ NumLenProbs = LenHigh + Pow2[HighBits]
      /\ LenMid \in Nat /\ LenHigh \in Nat /\ NumLenProbs \in Nat
  BY CodeLengths
<1>3. /\ IsMatch = 0
      /\ IsRep = IsMatch + 12 * Pow2[PosBits] /\ IsRep \in Nat
      /\ IsRepG0 = IsRep + 12 /\ IsRepG0 \in Nat
      /\ IsRepG1 = IsRepG0 + 12 /\ IsRepG1 \in Nat
      /\ IsRepG2 = IsRepG1 + 12 /\ IsRepG2 \in Nat
      /\ IsRep0Long = IsRepG2 + 12 /\ IsRep0Long \in Nat
      /\ PosSlot = IsRep0Long + 12 * Pow2[PosBits] /\ PosSlot \in Nat
      /\ SpecPos = PosSlot + 4 * Pow2[SlotBits] /\ SpecPos \in Nat
      /\ Align = SpecPos + f /\ Align \in Nat
      /\ LenCoder = Align + Pow2[AlignBits] /\ LenCoder \in Nat
      /\ RepLenCoder = LenCoder + NumLenProbs /\ RepLenCoder \in Nat
      /\ Literal = RepLenCoder + NumLenProbs /\ Literal \in Nat
  BY Offsets
<1>4. NumProbs(at) = Literal + z /\ NumProbs(at) \in Nat
  BY TableEnds
<1> HIDE DEF a, d, z, f
<1>5. /\ Edge(0) \in Nat /\ Edge(1) \in Nat /\ Edge(2) \in Nat /\ Edge(3) \in Nat
      /\ Edge(4) \in Nat /\ Edge(5) \in Nat /\ Edge(6) \in Nat /\ Edge(7) \in Nat
      /\ Edge(8) \in Nat /\ Edge(9) \in Nat
  BY <1>3, EdgesAre
<1>6. /\ Edge(10) \in Nat /\ Edge(11) \in Nat /\ Edge(12) \in Nat /\ Edge(13) \in Nat
      /\ Edge(14) \in Nat /\ Edge(15) \in Nat /\ Edge(16) \in Nat /\ Edge(17) \in Nat
      /\ Edge(18) \in Nat /\ Edge(19) \in Nat /\ Edge(20) \in Nat
  BY <1>2, <1>3, <1>4, EdgesAre
<1>7. Edge(0) <= Edge(1) /\ Edge(1) <= Edge(2) /\ Edge(2) <= Edge(3) /\ Edge(3) <= Edge(4)
  BY <1>1, <1>3, EdgesAre
<1>8. Edge(4) <= Edge(5) /\ Edge(5) <= Edge(6) /\ Edge(6) <= Edge(7) /\ Edge(7) <= Edge(8)
  BY <1>1, <1>3, EdgesAre
<1>9. Edge(8) <= Edge(9) /\ Edge(9) <= Edge(10) /\ Edge(10) <= Edge(11) /\ Edge(11) <= Edge(12)
  BY <1>1, <1>2, <1>3, EdgesAre
<1>10. Edge(12) <= Edge(13) /\ Edge(13) <= Edge(14) /\ Edge(14) <= Edge(15) /\ Edge(15) <= Edge(16)
  BY <1>1, <1>2, <1>3, EdgesAre
<1>11. Edge(16) <= Edge(17) /\ Edge(17) <= Edge(18) /\ Edge(18) <= Edge(19) /\ Edge(19) <= Edge(20)
  BY <1>1, <1>2, <1>3, <1>4, EdgesAre
<1>12. \/ (i = 0 /\ i + 1 = 1) \/ (i = 1 /\ i + 1 = 2) \/ (i = 2 /\ i + 1 = 3) \/ (i = 3 /\ i + 1 = 4)
       \/ (i = 4 /\ i + 1 = 5) \/ (i = 5 /\ i + 1 = 6) \/ (i = 6 /\ i + 1 = 7) \/ (i = 7 /\ i + 1 = 8)
       \/ (i = 8 /\ i + 1 = 9) \/ (i = 9 /\ i + 1 = 10) \/ (i = 10 /\ i + 1 = 11) \/ (i = 11 /\ i + 1 = 12)
       \/ (i = 12 /\ i + 1 = 13) \/ (i = 13 /\ i + 1 = 14) \/ (i = 14 /\ i + 1 = 15) \/ (i = 15 /\ i + 1 = 16)
       \/ (i = 16 /\ i + 1 = 17) \/ (i = 17 /\ i + 1 = 18) \/ (i = 18 /\ i + 1 = 19) \/ (i = 19 /\ i + 1 = 20)
  OBVIOUS
<1> QED BY <1>5, <1>6, <1>7, <1>8, <1>9, <1>10, <1>11, <1>12

LEMMA EdgesOrdered ==
  ASSUME SettingOK, NEW i \in 0 .. 19, NEW j \in 0 .. 19, i < j
  PROVE  Edge(i + 1) <= Edge(j)
<1> DEFINE T == {w \in 0 .. 19 : i < w /\ ~ (Edge(i + 1) <= Edge(w))}
<1>1. SUFFICES ASSUME T # {} PROVE FALSE
  OBVIOUS
<1>2. PICK w \in T : \A y \in T : w <= y
  <2>1. T \in SUBSET Nat
    OBVIOUS
  <2> QED BY <1>1, <2>1, LeastNumber
<1> DEFINE v == w - 1
<1>3. w \in 0 .. 19 /\ i < w /\ ~ (Edge(i + 1) <= Edge(w)) /\ v \in 0 .. 19 /\ i <= v /\ v + 1 = w /\ v \notin T
  BY <1>2
<1>4. i # v => Edge(i + 1) <= Edge(v)
  BY <1>3
<1> HIDE DEF v, T
<1>5. Edge(v) \in Nat /\ Edge(v + 1) \in Nat /\ Edge(v) <= Edge(v + 1) /\ Edge(i + 1) \in Nat
  BY <1>3, EdgesGrow
<1>6. CASE i = v
  BY <1>3, <1>5, <1>6
<1>7. CASE i # v
  <2>1. Edge(i + 1) <= Edge(v) /\ Edge(v) <= Edge(w) /\ Edge(w) \in Nat
    BY <1>3, <1>4, <1>5, <1>7
  <2> QED BY <1>3, <1>5, <2>1
<1> QED BY <1>6, <1>7

LEMMA TableInside ==
  ASSUME SettingOK, NEW i \in 0 .. 19 PROVE Edge(i + 1) <= NumProbs(at) /\ 0 <= Edge(i)
<1>1. Edge(20) = NumProbs(at) /\ Edge(19 + 1) = Edge(20)
  BY DEF Edge
<1>2. Edge(19) \in Nat /\ Edge(20) \in Nat /\ Edge(19) <= Edge(20) /\ Edge(i + 1) \in Nat /\ Edge(i) \in Nat
  BY <1>1, EdgesGrow
<1>3. CASE i = 19
  BY <1>1, <1>2, <1>3
<1>4. CASE i < 19
  <2>1. Edge(i + 1) <= Edge(19)
    BY <1>4, EdgesOrdered
  <2> QED BY <1>1, <1>2, <2>1
<1> QED BY <1>2, <1>3, <1>4

-----------------------------------------------------------------------------
(* The questions. *)

Asked(r) ==
  /\ r = Question(r.of, r.x, r.y, r.mi)
  /\ \/ /\ r.of \in {"IsMatch", "IsRep0Long"}
        /\ r.x \in 0 .. NumStates - 1 /\ r.y \in 0 .. Pow2[PosBits] - 1 /\ r.mi = 0
     \/ /\ r.of \in {"IsRep", "IsRepG0", "IsRepG1", "IsRepG2"}
        /\ r.x \in 0 .. NumStates - 1 /\ r.y = 0 /\ r.mi = 0
     \/ r.of \in {"LenChoice", "LenChoice2"} /\ r.x \in 0 .. 1 /\ r.y = 0 /\ r.mi = 0
     \/ /\ r.of = "LenLow"
        /\ r.x \in 0 .. 1 /\ r.y \in 0 .. Pow2[PosBits] - 1 /\ r.mi \in 1 .. Pow2[LowBits] - 1
     \/ /\ r.of = "LenMid"
        /\ r.x \in 0 .. 1 /\ r.y \in 0 .. Pow2[PosBits] - 1 /\ r.mi \in 1 .. Pow2[MidBits] - 1
     \/ r.of = "LenHigh" /\ r.x \in 0 .. 1 /\ r.y = 0 /\ r.mi \in 1 .. Pow2[HighBits] - 1
     \/ /\ r.of = "PosSlot"
        /\ r.x \in 0 .. NumLenToPosStates - 1 /\ r.y = 0 /\ r.mi \in 1 .. Pow2[SlotBits] - 1
     \/ /\ r.of = "SpecPos"
        /\ r.x \in StartPosModelIndex .. EndPosModelIndex - 1 /\ r.y = 0
        /\ r.mi \in 1 .. Pow2[Follow(r.x)] - 1
     \/ r.of = "Align" /\ r.x \in Nat /\ r.y = 0 /\ r.mi \in 1 .. Pow2[AlignBits] - 1
     \/ /\ r.of = "Literal"
        /\ r.x \in 0 .. Pow2[at.lc + at.lp] - 1 /\ r.y \in 0 .. 2 /\ r.mi \in 1 .. Pow2[LitBits] - 1

LEMMA InQuestions ==
  ASSUME NEW r, Asked(r), r.of # "Align" PROVE r \in Questions
<1>1. r = [of |-> r.of, x |-> r.x, y |-> r.y, mi |-> r.mi]
  BY DEF Asked, Question
<1>2. CASE r.of \in {"IsMatch", "IsRep0Long"} \/ r.of \in {"IsRep", "IsRepG0", "IsRepG1", "IsRepG2"}
  BY <1>1, <1>2 DEF Asked, Questions
<1>3. CASE r.of \in {"LenChoice", "LenChoice2", "LenLow", "LenMid", "LenHigh"}
  BY <1>1, <1>3 DEF Asked, Questions
<1>4. CASE r.of \in {"PosSlot", "Literal"}
  BY <1>1, <1>4 DEF Asked, Questions
<1>5. CASE r.of = "SpecPos"
  BY <1>1, <1>5 DEF Asked, Questions, Follow
<1> QED BY <1>2, <1>3, <1>4, <1>5 DEF Asked

LEMMA QuestionsAsked ==
  ASSUME NEW r \in Questions PROVE Asked(r) /\ r.of # "Align"
<1> DEFINE Shape == r = [of |-> r.of, x |-> r.x, y |-> r.y, mi |-> r.mi]
<1>1. CASE r \in [of : {"IsMatch", "IsRep0Long"}, x : 0 .. NumStates - 1, y : 0 .. Pow2[PosBits] - 1, mi : {0}]
  BY <1>1 DEF Asked, Question
<1>2. CASE r \in [of : {"IsRep", "IsRepG0", "IsRepG1", "IsRepG2"}, x : 0 .. NumStates - 1, y : {0}, mi : {0}]
  BY <1>2 DEF Asked, Question
<1>3. CASE r \in [of : {"LenChoice", "LenChoice2"}, x : 0 .. 1, y : {0}, mi : {0}]
  BY <1>3 DEF Asked, Question
<1>4. CASE r \in [of : {"LenLow"}, x : 0 .. 1, y : 0 .. Pow2[PosBits] - 1, mi : 1 .. Pow2[LowBits] - 1]
  BY <1>4 DEF Asked, Question
<1>5. CASE r \in [of : {"LenMid"}, x : 0 .. 1, y : 0 .. Pow2[PosBits] - 1, mi : 1 .. Pow2[MidBits] - 1]
  BY <1>5 DEF Asked, Question
<1>6. CASE r \in [of : {"LenHigh"}, x : 0 .. 1, y : {0}, mi : 1 .. Pow2[HighBits] - 1]
  BY <1>6 DEF Asked, Question
<1>7. CASE r \in [of : {"PosSlot"}, x : 0 .. NumLenToPosStates - 1, y : {0}, mi : 1 .. Pow2[SlotBits] - 1]
  BY <1>7 DEF Asked, Question
<1>8. CASE r \in UNION {[of : {"SpecPos"}, x : {slot}, y : {0}, mi : 1 .. Pow2[(slot \div 2) - 1] - 1] :
                    slot \in StartPosModelIndex .. EndPosModelIndex - 1}
  <2>1. PICK slot \in StartPosModelIndex .. EndPosModelIndex - 1 :
          r \in [of : {"SpecPos"}, x : {slot}, y : {0}, mi : 1 .. Pow2[(slot \div 2) - 1] - 1]
    BY <1>8
  <2> QED BY <2>1 DEF Asked, Question, Follow
<1>9. CASE r \in [of : {"Literal"}, x : 0 .. Pow2[at.lc + at.lp] - 1, y : 0 .. 2, mi : 1 .. Pow2[LitBits] - 1]
  BY <1>9 DEF Asked, Question
<1> QED BY <1>1, <1>2, <1>3, <1>4, <1>5, <1>6, <1>7, <1>8, <1>9 DEF Questions

\* Each kind of bits has its probabilities between its edges.
AtHome(r) ==
  Rank(r) \in 0 .. 19 /\ Place(r) \in Nat /\ Edge(Rank(r)) <= Place(r) /\ Place(r) < Edge(Rank(r) + 1)

LEMMA FlagsAtHome ==
  ASSUME NEW r, Asked(r), r.of \in {"IsRep", "IsRepG0", "IsRepG1", "IsRepG2"}
  PROVE  AtHome(r)
<1>1. r.x \in 0 .. 11
  BY DEF Asked, NumStates
<1>2. /\ IsRep \in Nat /\ IsRepG0 = IsRep + 12 /\ IsRepG0 \in Nat /\ IsRepG1 = IsRepG0 + 12 /\ IsRepG1 \in Nat
      /\ IsRepG2 = IsRepG1 + 12 /\ IsRepG2 \in Nat /\ IsRep0Long = IsRepG2 + 12 /\ IsRep0Long \in Nat
  BY Offsets
<1>3. CASE r.of = "IsRep"
  BY <1>1, <1>2, <1>3 DEF AtHome, Rank, Edge, Place
<1>4. CASE r.of = "IsRepG0"
  BY <1>1, <1>2, <1>4 DEF AtHome, Rank, Edge, Place
<1>5. CASE r.of = "IsRepG1"
  BY <1>1, <1>2, <1>5 DEF AtHome, Rank, Edge, Place
<1>6. CASE r.of = "IsRepG2"
  BY <1>1, <1>2, <1>6 DEF AtHome, Rank, Edge, Place
<1> QED BY <1>3, <1>4, <1>5, <1>6

LEMMA PosFlagsAtHome ==
  ASSUME NEW r, Asked(r), r.of \in {"IsMatch", "IsRep0Long"}
  PROVE  AtHome(r)
<1> DEFINE w == Pow2[PosBits]
           a == r.x * w + r.y
<1>1. r.x \in 0 .. 11 /\ r.y \in 0 .. w - 1 /\ w \in Nat \ {0}
  BY Sizes DEF Asked, NumStates
<1>2. a \in Nat /\ a < 12 * w
  <2>1. r.x \in Nat /\ r.x < 12 /\ r.y \in Nat /\ r.y < w
    BY <1>1
  <2> HIDE DEF w
  <2> QED BY <1>1, <2>1, PairBelow
<1>3. IsMatch = 0 /\ IsRep = IsMatch + 12 * w /\ IsRep0Long \in Nat /\ PosSlot = IsRep0Long + 12 * w
  BY Offsets
<1>4. CASE r.of = "IsMatch"
  <2>1. Place(r) = IsMatch + r.x * w + r.y
    BY <1>4 DEF Place
  <2>2. Place(r) = IsMatch + a
    <3> DEFINE z == r.x * w
    <3>1. z \in Nat
      <4> HIDE DEF w
      <4> QED BY <1>1
    <3> HIDE DEF z
    <3> QED BY <1>1, <1>3, <2>1, <3>1 DEF z
  <2>3. Rank(r) = 0 /\ Edge(0) = IsMatch /\ Edge(0 + 1) = IsRep
    BY <1>4 DEF Rank, Edge
  <2> HIDE DEF a
  <2> QED BY <1>1, <1>2, <1>3, <2>2, <2>3 DEF AtHome
<1>5. CASE r.of = "IsRep0Long"
  <2>1. Place(r) = IsRep0Long + r.x * w + r.y
    BY <1>5 DEF Place
  <2>2. Place(r) = IsRep0Long + a
    <3> DEFINE z == r.x * w
    <3>1. z \in Nat
      <4> HIDE DEF w
      <4> QED BY <1>1
    <3> HIDE DEF z
    <3> QED BY <1>1, <1>3, <2>1, <3>1 DEF z
  <2>3. Rank(r) = 5 /\ Edge(5) = IsRep0Long /\ Edge(5 + 1) = PosSlot
    BY <1>5 DEF Rank, Edge
  <2> HIDE DEF a
  <2> QED BY <1>1, <1>2, <1>3, <2>2, <2>3 DEF AtHome
<1> QED BY <1>4, <1>5

LEMMA SlotsAtHome ==
  ASSUME NEW r, Asked(r), r.of \in {"PosSlot", "SpecPos", "Align"}
  PROVE  AtHome(r)
<1>1. CASE r.of = "PosSlot"
  <2> DEFINE w == Pow2[SlotBits]
             a == r.x * w + r.mi
             z == r.x * w
  <2>1. r.x \in 0 .. 3 /\ r.mi \in 1 .. w - 1 /\ w \in Nat \ {0}
    BY <1>1, Sizes DEF Asked, NumLenToPosStates
  <2>2. a \in Nat /\ a < 4 * w /\ z \in Nat
    <3>1. r.x \in Nat /\ r.x < 4 /\ r.mi \in Nat /\ r.mi < w
      BY <2>1
    <3> HIDE DEF w
    <3> QED BY <2>1, <3>1, PairBelow
  <2>3. PosSlot \in Nat /\ SpecPos = PosSlot + 4 * w
    BY Offsets
  <2>4. Place(r) = PosSlot + z + r.mi
    BY <1>1 DEF Place
  <2>5. Place(r) = PosSlot + a
    <3> HIDE DEF z
    <3> QED BY <2>1, <2>2, <2>3, <2>4 DEF z
  <2>6. Rank(r) = 6 /\ Edge(6) = PosSlot /\ Edge(6 + 1) = SpecPos
    BY <1>1 DEF Rank, Edge
  <2> HIDE DEF a
  <2> QED BY <2>1, <2>2, <2>3, <2>5, <2>6 DEF AtHome
<1>2. CASE r.of = "SpecPos"
  <2> DEFINE f == NumFullDistances - EndPosModelIndex
             b == SlotBase(r.x)
             d == Pow2[Follow(r.x)]
  <2>1. r.x \in StartPosModelIndex .. EndPosModelIndex - 1 /\ r.mi \in 1 .. d - 1
    BY <1>2 DEF Asked
  <2>2. r.x \in Nat /\ StartPosModelIndex <= r.x
    BY <2>1, FieldWidths DEF StartPosModelIndex
  <2>3. b \in Nat /\ d \in Nat
    BY <2>2, SlotNext
  <2>4. 0 <= b - r.x /\ b - r.x + d - 1 <= f /\ f \in Nat
    BY <2>1, SlotsFit
  <2>5. SpecPos \in Nat /\ Align = SpecPos + f
    BY Offsets
  <2>6. Place(r) = SpecPos + b - r.x - 1 + r.mi
    BY <1>2 DEF Place, SpecPlace
  <2>7. Rank(r) = 7 /\ Edge(7) = SpecPos /\ Edge(7 + 1) = Align
    BY <1>2 DEF Rank, Edge
  <2> HIDE DEF f, b, d
  <2> QED BY <2>1, <2>2, <2>3, <2>4, <2>5, <2>6, <2>7 DEF AtHome
<1>3. CASE r.of = "Align"
  <2>1. r.mi \in 1 .. Pow2[AlignBits] - 1 /\ Pow2[AlignBits] \in Nat
    BY <1>3, Sizes DEF Asked
  <2>2. Align \in Nat /\ LenCoder = Align + Pow2[AlignBits]
    BY Offsets
  <2>3. Place(r) = Align + r.mi
    BY <1>3 DEF Place
  <2>4. Rank(r) = 8 /\ Edge(8) = Align /\ Edge(8 + 1) = LenCoder
    BY <1>3 DEF Rank, Edge
  <2> QED BY <2>1, <2>2, <2>3, <2>4 DEF AtHome
<1> QED BY <1>1, <1>2, <1>3

LenKinds == {"LenChoice", "LenChoice2", "LenLow", "LenMid", "LenHigh"}

\* Where the tables of a length coder begin and end.
LEMMA CoderEdges ==
  ASSUME NEW x \in 0 .. 1
  PROVE  /\ Coder(x) \in Nat
         /\ Edge(9 + 5 * x) = Coder(x) /\ Edge(10 + 5 * x) = Coder(x) + LenChoice2
         /\ Edge(11 + 5 * x) = Coder(x) + LenLow /\ Edge(12 + 5 * x) = Coder(x) + LenMid
         /\ Edge(13 + 5 * x) = Coder(x) + LenHigh /\ Edge(14 + 5 * x) = Coder(x) + NumLenProbs
<1>1. LenCoder \in Nat /\ RepLenCoder \in Nat /\ RepLenCoder = LenCoder + NumLenProbs /\ Literal = RepLenCoder + NumLenProbs
  BY Offsets
<1>2. CASE x = 0
  BY <1>1, <1>2 DEF Coder, Edge
<1>3. CASE x = 1
  BY <1>1, <1>3 DEF Coder, Edge
<1> QED BY <1>2, <1>3

LEMMA LenAtHome ==
  ASSUME NEW r, Asked(r), r.of \in LenKinds
  PROVE  AtHome(r)
<1> DEFINE c == Coder(r.x)
           p == Pow2[PosBits] * Pow2[LowBits]
           h == Pow2[PosBits] * Pow2[MidBits]
<1>1. r.x \in 0 .. 1
  BY DEF Asked, LenKinds
<1>2. /\ c \in Nat
      /\ Edge(9 + 5 * r.x) = c /\ Edge(10 + 5 * r.x) = c + LenChoice2
      /\ Edge(11 + 5 * r.x) = c + LenLow /\ Edge(12 + 5 * r.x) = c + LenMid
      /\ Edge(13 + 5 * r.x) = c + LenHigh /\ Edge(14 + 5 * r.x) = c + NumLenProbs
  BY <1>1, CoderEdges
<1>3. /\ LenChoice = 0 /\ LenChoice2 = 1 /\ LenLow = 2 /\ LenMid = LenLow + p /\ LenHigh = LenMid + h
      /\ NumLenProbs = LenHigh + Pow2[HighBits]
      /\ LenMid \in Nat /\ LenHigh \in Nat /\ NumLenProbs \in Nat
  BY CodeLengths
<1>4. /\ Pow2[PosBits] \in Nat \ {0} /\ Pow2[LowBits] \in Nat \ {0} /\ Pow2[MidBits] \in Nat \ {0}
      /\ Pow2[HighBits] \in Nat \ {0} /\ p \in Nat /\ h \in Nat
  BY Sizes
<1> HIDE DEF c
<1>5. /\ (9 + 5 * r.x) + 1 = 10 + 5 * r.x /\ (10 + 5 * r.x) + 1 = 11 + 5 * r.x
      /\ (11 + 5 * r.x) + 1 = 12 + 5 * r.x /\ (12 + 5 * r.x) + 1 = 13 + 5 * r.x
      /\ (13 + 5 * r.x) + 1 = 14 + 5 * r.x /\ \A i \in 9 .. 13 : i + 5 * r.x \in 0 .. 19
  BY <1>1
<1>6. CASE r.of = "LenChoice"
  <2>1. Place(r) = c + LenChoice /\ Rank(r) = 9 + 5 * r.x
    BY <1>6 DEF Place, Rank, c
  <2> QED BY <1>2, <1>3, <1>5, <2>1 DEF AtHome
<1>7. CASE r.of = "LenChoice2"
  <2>1. Place(r) = c + LenChoice2 /\ Rank(r) = 10 + 5 * r.x
    BY <1>7 DEF Place, Rank, c
  <2> QED BY <1>2, <1>3, <1>5, <2>1 DEF AtHome
<1>8. CASE r.of = "LenLow"
  <2> DEFINE w == Pow2[LowBits]
             z == r.y * w
             a == r.y * w + r.mi
             g == Pow2[PosBits]
  <2>1. r.y \in 0 .. g - 1 /\ r.mi \in 1 .. w - 1
    BY <1>8 DEF Asked
  <2>2. a \in Nat /\ a < p /\ z \in Nat
    <3>1. r.y \in Nat /\ r.y < g /\ r.mi \in Nat /\ r.mi < w
      BY <1>4, <2>1
    <3>2. p = g * w /\ w \in Nat \ {0} /\ g \in Nat
      BY <1>4
    <3> HIDE DEF w, g, p
    <3> QED BY <3>1, <3>2, PairBelow
  <2>3. Place(r) = c + LenLow + z + r.mi /\ Rank(r) = 11 + 5 * r.x
    BY <1>8 DEF Place, Rank, c
  <2>4. Place(r) = (c + LenLow) + a
    <3> HIDE DEF z
    <3> QED BY <1>2, <1>3, <1>4, <2>1, <2>2, <2>3 DEF z
  <2> HIDE DEF a, p, h
  <2> QED BY <1>2, <1>3, <1>4, <1>5, <2>2, <2>3, <2>4 DEF AtHome
<1>9. CASE r.of = "LenMid"
  <2> DEFINE w == Pow2[MidBits]
             z == r.y * w
             a == r.y * w + r.mi
             g == Pow2[PosBits]
  <2>1. r.y \in 0 .. g - 1 /\ r.mi \in 1 .. w - 1
    BY <1>9 DEF Asked
  <2>2. a \in Nat /\ a < h /\ z \in Nat
    <3>1. r.y \in Nat /\ r.y < g /\ r.mi \in Nat /\ r.mi < w
      BY <1>4, <2>1
    <3>2. h = g * w /\ w \in Nat \ {0} /\ g \in Nat
      BY <1>4
    <3> HIDE DEF w, g, h
    <3> QED BY <3>1, <3>2, PairBelow
  <2>3. Place(r) = c + LenMid + z + r.mi /\ Rank(r) = 12 + 5 * r.x
    BY <1>9 DEF Place, Rank, c
  <2>4. Place(r) = (c + LenMid) + a
    <3> HIDE DEF z
    <3> QED BY <1>2, <1>3, <1>4, <2>1, <2>2, <2>3 DEF z
  <2> HIDE DEF a, p, h
  <2> QED BY <1>2, <1>3, <1>4, <1>5, <2>2, <2>3, <2>4 DEF AtHome
<1>10. CASE r.of = "LenHigh"
  <2>1. r.mi \in 1 .. Pow2[HighBits] - 1
    BY <1>10 DEF Asked
  <2>2. Place(r) = c + LenHigh + r.mi /\ Rank(r) = 13 + 5 * r.x
    BY <1>10 DEF Place, Rank, c
  <2> HIDE DEF p, h
  <2> QED BY <1>2, <1>3, <1>4, <1>5, <2>1, <2>2 DEF AtHome
<1> QED BY <1>6, <1>7, <1>8, <1>9, <1>10 DEF LenKinds

\* A literal's probabilities: the context, what a matched bit adds, and the node.
LEMMA LiteralDigits ==
  ASSUME NEW r, Asked(r), r.of = "Literal", SettingOK
  PROVE  /\ r.x \in Nat /\ r.x < Pow2[at.lc + at.lp] /\ r.y \in 0 .. 2 /\ r.mi \in Nat /\ r.mi < Pow2[LitBits]
         /\ 3 * r.x + r.y \in Nat
         /\ Place(r) = Literal + ((3 * r.x + r.y) * Pow2[LitBits] + r.mi)
<1> DEFINE w == Pow2[LitBits]
<1>1. Pow2[at.lc + at.lp] \in Nat /\ w \in Nat \ {0} /\ LitSize = 3 * w /\ Literal \in Nat
  BY TableEnds, Sizes, Offsets
<1>2. r.x \in Nat /\ r.x < Pow2[at.lc + at.lp] /\ r.y \in 0 .. 2 /\ r.mi \in Nat /\ r.mi < w
  BY <1>1 DEF Asked
<1>3. Place(r) = Literal + LitSize * r.x + r.y * w + r.mi
  BY DEF Place, LiteralPlace
<1>4. (3 * w) * r.x + r.y * w = (3 * r.x + r.y) * w /\ (3 * w) * r.x \in Nat /\ r.y * w \in Nat
  <2> DEFINE x == r.x
             y == r.y
  <2>1. x \in Nat /\ y \in Nat
    BY <1>2
  <2> HIDE DEF x, y, w
  <2>2. (3 * w) * x + y * w = (3 * x + y) * w /\ (3 * w) * x \in Nat /\ y * w \in Nat
    BY <1>1, <2>1
  <2> QED BY <2>2 DEF x, y
<1> DEFINE a == (3 * w) * r.x
           b == r.y * w
           c == (3 * r.x + r.y) * w
<1>5. Place(r) = Literal + a + b + r.mi
  BY <1>1, <1>3
<1>6. c = a + b /\ a \in Nat /\ b \in Nat
  BY <1>4
<1> HIDE DEF a, b, c
<1>7. Place(r) = Literal + (c + r.mi)
  BY <1>1, <1>2, <1>5, <1>6
<1> QED BY <1>2, <1>7 DEF c

LEMMA LiteralAtHome ==
  ASSUME NEW r, Asked(r), r.of = "Literal", SettingOK
  PROVE  AtHome(r)
<1> DEFINE w == Pow2[LitBits]
           n == Pow2[at.lc + at.lp]
           a == (3 * r.x + r.y) * w + r.mi
           z == LitSize * n
<1>1. w \in Nat \ {0} /\ n \in Nat /\ z \in Nat /\ NumProbs(at) = Literal + z /\ Literal \in Nat /\ LitSize = 3 * w
  BY TableEnds, Sizes, Offsets
<1>2. /\ r.x \in Nat /\ r.x < n /\ r.y \in 0 .. 2 /\ r.mi \in Nat /\ r.mi < w
      /\ Place(r) = Literal + a
  BY LiteralDigits
<1>3. a \in Nat /\ a < (3 * n) * w
  <2>1. 3 * r.x + r.y \in Nat /\ 3 * n \in Nat /\ 3 * r.x + r.y < 3 * n
    <3> HIDE DEF n
    <3> QED BY <1>1, <1>2
  <2> HIDE DEF n, w
  <2> QED BY <1>1, <1>2, <2>1, PairBelow DEF a
<1>4. (3 * n) * w = z
  <2> HIDE DEF n, w
  <2> QED BY <1>1 DEF z
<1>5. Rank(r) = 19 /\ Edge(19) = Literal /\ Edge(19 + 1) = NumProbs(at)
  BY DEF Rank, Edge
<1> HIDE DEF a, z
<1>6. a < z
  BY <1>3, <1>4
<1> QED BY <1>1, <1>2, <1>3, <1>5, <1>6 DEF AtHome

LEMMA EachAtHome ==
  ASSUME NEW r, Asked(r), SettingOK PROVE AtHome(r)
BY FlagsAtHome, PosFlagsAtHome, SlotsAtHome, LenAtHome, LiteralAtHome DEF Asked, LenKinds

LEMMA SameRank ==
  ASSUME NEW r, NEW s, Asked(r), Asked(s), SettingOK, Place(r) = Place(s)
  PROVE  Rank(r) = Rank(s)
<1>1. AtHome(r) /\ AtHome(s)
  BY EachAtHome
<1> DEFINE i == Rank(r)
           j == Rank(s)
           a == Place(r)
<1>2. /\ i \in 0 .. 19 /\ j \in 0 .. 19 /\ a \in Nat
      /\ Edge(i) <= a /\ a < Edge(i + 1) /\ Edge(j) <= a /\ a < Edge(j + 1)
  BY <1>1 DEF AtHome
<1> HIDE DEF i, j, a
<1>3. /\ Edge(i) \in Nat /\ Edge(i + 1) \in Nat /\ Edge(j) \in Nat /\ Edge(j + 1) \in Nat
      /\ i < j => Edge(i + 1) <= Edge(j)
      /\ j < i => Edge(j + 1) <= Edge(i)
  BY <1>2, EdgesGrow, EdgesOrdered
<1>4. i = j
  BY <1>2, <1>3
<1> QED BY <1>4 DEF i, j

\* What lies between two edges.
KindAt(i) ==
  CASE i = 0 -> "IsMatch" [] i = 1 -> "IsRep" [] i = 2 -> "IsRepG0" [] i = 3 -> "IsRepG1"
    [] i = 4 -> "IsRepG2" [] i = 5 -> "IsRep0Long" [] i = 6 -> "PosSlot" [] i = 7 -> "SpecPos"
    [] i = 8 -> "Align" [] i = 19 -> "Literal"
    [] i \in {9, 14} -> "LenChoice" [] i \in {10, 15} -> "LenChoice2" [] i \in {11, 16} -> "LenLow"
    [] i \in {12, 17} -> "LenMid" [] i \in {13, 18} -> "LenHigh"

LEMMA RankTellsKind ==
  ASSUME NEW r, Asked(r)
  PROVE  r.of = KindAt(Rank(r)) /\ (r.of \in LenKinds => r.x = IF Rank(r) <= 13 THEN 0 ELSE 1)
<1>1. CASE r.of = "IsMatch"
  <2>1. Rank(r) = 0
    BY <1>1 DEF Rank
  <2> QED BY <1>1, <2>1 DEF KindAt, LenKinds
<1>2. CASE r.of = "IsRep"
  <2>1. Rank(r) = 1
    BY <1>2 DEF Rank
  <2> QED BY <1>2, <2>1 DEF KindAt, LenKinds
<1>3. CASE r.of = "IsRepG0"
  <2>1. Rank(r) = 2
    BY <1>3 DEF Rank
  <2> QED BY <1>3, <2>1 DEF KindAt, LenKinds
<1>4. CASE r.of = "IsRepG1"
  <2>1. Rank(r) = 3
    BY <1>4 DEF Rank
  <2> QED BY <1>4, <2>1 DEF KindAt, LenKinds
<1>5. CASE r.of = "IsRepG2"
  <2>1. Rank(r) = 4
    BY <1>5 DEF Rank
  <2> QED BY <1>5, <2>1 DEF KindAt, LenKinds
<1>6. CASE r.of = "IsRep0Long"
  <2>1. Rank(r) = 5
    BY <1>6 DEF Rank
  <2> QED BY <1>6, <2>1 DEF KindAt, LenKinds
<1>7. CASE r.of = "PosSlot"
  <2>1. Rank(r) = 6
    BY <1>7 DEF Rank
  <2> QED BY <1>7, <2>1 DEF KindAt, LenKinds
<1>8. CASE r.of = "SpecPos"
  <2>1. Rank(r) = 7
    BY <1>8 DEF Rank
  <2> QED BY <1>8, <2>1 DEF KindAt, LenKinds
<1>9. CASE r.of = "Align"
  <2>1. Rank(r) = 8
    BY <1>9 DEF Rank
  <2> QED BY <1>9, <2>1 DEF KindAt, LenKinds
<1>10. CASE r.of = "Literal"
  <2>1. Rank(r) = 19
    BY <1>10 DEF Rank
  <2> QED BY <1>10, <2>1 DEF KindAt, LenKinds
<1>11. r.of \in LenKinds => r.x = 0 \/ r.x = 1
  BY DEF Asked, LenKinds
<1>12. CASE r.of = "LenChoice"
  <2>1. Rank(r) = 9 + 5 * r.x
    BY <1>12 DEF Rank
  <2>2. (r.x = 0 /\ Rank(r) = 9) \/ (r.x = 1 /\ Rank(r) = 14)
    BY <1>11, <1>12, <2>1 DEF LenKinds
  <2> QED BY <1>12, <2>2 DEF KindAt, LenKinds
<1>13. CASE r.of = "LenChoice2"
  <2>1. Rank(r) = 10 + 5 * r.x
    BY <1>13 DEF Rank
  <2>2. (r.x = 0 /\ Rank(r) = 10) \/ (r.x = 1 /\ Rank(r) = 15)
    BY <1>11, <1>13, <2>1 DEF LenKinds
  <2> QED BY <1>13, <2>2 DEF KindAt, LenKinds
<1>14. CASE r.of = "LenLow"
  <2>1. Rank(r) = 11 + 5 * r.x
    BY <1>14 DEF Rank
  <2>2. (r.x = 0 /\ Rank(r) = 11) \/ (r.x = 1 /\ Rank(r) = 16)
    BY <1>11, <1>14, <2>1 DEF LenKinds
  <2> QED BY <1>14, <2>2 DEF KindAt, LenKinds
<1>15. CASE r.of = "LenMid"
  <2>1. Rank(r) = 12 + 5 * r.x
    BY <1>15 DEF Rank
  <2>2. (r.x = 0 /\ Rank(r) = 12) \/ (r.x = 1 /\ Rank(r) = 17)
    BY <1>11, <1>15, <2>1 DEF LenKinds
  <2> QED BY <1>15, <2>2 DEF KindAt, LenKinds
<1>16. CASE r.of = "LenHigh"
  <2>1. Rank(r) = 13 + 5 * r.x
    BY <1>16 DEF Rank
  <2>2. (r.x = 0 /\ Rank(r) = 13) \/ (r.x = 1 /\ Rank(r) = 18)
    BY <1>11, <1>16, <2>1 DEF LenKinds
  <2> QED BY <1>16, <2>2 DEF KindAt, LenKinds
<1> QED BY <1>1, <1>2, <1>3, <1>4, <1>5, <1>6, <1>7, <1>8, <1>9, <1>10, <1>12, <1>13, <1>14, <1>15, <1>16 DEF Asked

LEMMA SameKind ==
  ASSUME NEW r, NEW s, Asked(r), Asked(s), Rank(r) = Rank(s)
  PROVE  r.of = s.of /\ (r.of \in LenKinds => r.x = s.x)
<1>1. /\ r.of = KindAt(Rank(r)) /\ (r.of \in LenKinds => r.x = IF Rank(r) <= 13 THEN 0 ELSE 1)
      /\ s.of = KindAt(Rank(s)) /\ (s.of \in LenKinds => s.x = IF Rank(s) <= 13 THEN 0 ELSE 1)
  BY RankTellsKind
<1> QED BY <1>1

LEMMA SameSum ==
  ASSUME NEW b \in Nat, NEW x \in Nat, NEW z \in Nat, b + x = b + z PROVE x = z
OBVIOUS

LEMMA SameDigits ==
  ASSUME NEW b \in Nat, NEW w \in Nat \ {0}, NEW x \in Nat, NEW z \in Nat, NEW m \in Nat, NEW k \in Nat,
         m < w, k < w, b + x * w + m = b + z * w + k
  PROVE  x = z /\ m = k
<1> DEFINE c == x * w
           d == z * w
<1>1. c \in Nat /\ d \in Nat /\ b + c + m = b + d + k
  OBVIOUS
<1> HIDE DEF c, d
<1>2. c + m = d + k
  BY <1>1
<1>3. x * w + m = z * w + k
  BY <1>2 DEF c, d
<1> QED BY <1>3, PairSame

\* Of one kind, a place tells the rest of the question.
LEMMA PlaceTells ==
  ASSUME NEW r, NEW s, Asked(r), Asked(s), SettingOK, r.of = s.of, r.of # "Align",
         r.of \in LenKinds => r.x = s.x, Place(r) = Place(s)
  PROVE  r = s
<1>1. r = Question(r.of, r.x, r.y, r.mi) /\ s = Question(s.of, s.x, s.y, s.mi)
  BY DEF Asked
<1>2. SUFFICES r.x = s.x /\ r.y = s.y /\ r.mi = s.mi
  BY <1>1
<1>3. CASE r.of \in {"IsRep", "IsRepG0", "IsRepG1", "IsRepG2"}
  <2>1. r.y = s.y /\ r.mi = s.mi /\ r.x \in Nat /\ s.x \in Nat
    BY <1>3 DEF Asked, NumStates
  <2>2. PICK b \in Nat : Place(r) = b + r.x /\ Place(s) = b + s.x
    BY <1>3, Offsets DEF Place
  <2>3. b + r.x = b + s.x
    BY <2>2, Zenon
  <2>4. r.x = s.x
    BY <2>1, <2>3, SameSum, Zenon
  <2> QED BY <2>1, <2>4
<1>4. CASE r.of \in {"IsMatch", "IsRep0Long"}
  <2> DEFINE w == Pow2[PosBits]
  <2>1. /\ r.mi = s.mi /\ r.x \in Nat /\ s.x \in Nat /\ r.y \in Nat /\ s.y \in Nat /\ r.y < w /\ s.y < w
        /\ w \in Nat \ {0}
    BY <1>4, Sizes DEF Asked, NumStates
  <2>2. PICK b \in Nat : Place(r) = b + r.x * w + r.y /\ Place(s) = b + s.x * w + s.y
    <3>1. IsMatch \in Nat /\ IsRep0Long \in Nat
      BY Offsets
    <3>2. CASE r.of = "IsMatch"
      <4>1. Place(r) = IsMatch + r.x * w + r.y /\ Place(s) = IsMatch + s.x * w + s.y
        BY <3>2 DEF Place
      <4> QED BY <3>1, <4>1
    <3>3. CASE r.of = "IsRep0Long"
      <4>1. Place(r) = IsRep0Long + r.x * w + r.y /\ Place(s) = IsRep0Long + s.x * w + s.y
        BY <3>3 DEF Place
      <4> QED BY <3>1, <4>1
    <3> QED BY <1>4, <3>2, <3>3
  <2>3. b + r.x * w + r.y = b + s.x * w + s.y
    BY <2>2, Zenon
  <2>4. r.x = s.x /\ r.y = s.y
    <3> DEFINE x == r.x
               y == r.y
               x2 == s.x
               y2 == s.y
    <3>1. /\ x \in Nat /\ x2 \in Nat /\ y \in Nat /\ y2 \in Nat /\ y < w /\ y2 < w
          /\ b + x * w + y = b + x2 * w + y2
      BY <2>1, <2>3, Zenon
    <3> HIDE DEF w, x, y, x2, y2
    <3>2. x = x2 /\ y = y2
      BY <2>1, <3>1, SameDigits
    <3> QED BY <3>2 DEF x, y, x2, y2
  <2> QED BY <2>1, <2>4
<1>5. CASE r.of = "PosSlot"
  <2> DEFINE w == Pow2[SlotBits]
  <2>1. /\ r.y = s.y /\ r.x \in Nat /\ s.x \in Nat /\ r.mi \in Nat /\ s.mi \in Nat /\ r.mi < w /\ s.mi < w
        /\ w \in Nat \ {0}
    BY <1>5, Sizes DEF Asked, NumLenToPosStates
  <2>2. PosSlot \in Nat /\ Place(r) = PosSlot + r.x * w + r.mi /\ Place(s) = PosSlot + s.x * w + s.mi
    BY <1>5, Offsets DEF Place
  <2>3. PosSlot + r.x * w + r.mi = PosSlot + s.x * w + s.mi
    BY <2>2, Zenon
  <2>4. r.x = s.x /\ r.mi = s.mi
    <3> DEFINE x == r.x
               m == r.mi
               x2 == s.x
               m2 == s.mi
    <3>1. /\ x \in Nat /\ x2 \in Nat /\ m \in Nat /\ m2 \in Nat /\ m < w /\ m2 < w
          /\ PosSlot + x * w + m = PosSlot + x2 * w + m2
      BY <2>1, <2>3, Zenon
    <3> HIDE DEF w, x, m, x2, m2
    <3>2. x = x2 /\ m = m2
      BY <2>1, <2>2, <3>1, SameDigits
    <3> QED BY <3>2 DEF x, m, x2, m2
  <2> QED BY <2>1, <2>4
<1>6. CASE r.of = "SpecPos"
  <2>1. r.y = s.y
    BY <1>6 DEF Asked
  <2>2. ASSUME NEW z, Asked(z), z.of = "SpecPos"
        PROVE  /\ z.x \in Nat /\ StartPosModelIndex <= z.x /\ SlotBase(z.x) \in Nat /\ Pow2[Follow(z.x)] \in Nat
               /\ z.mi \in 1 .. Pow2[Follow(z.x)] - 1
               /\ Place(z) = SpecPos + SlotBase(z.x) - z.x - 1 + z.mi
    <3>1. z.x \in StartPosModelIndex .. EndPosModelIndex - 1 /\ z.mi \in 1 .. Pow2[Follow(z.x)] - 1
      BY <2>2 DEF Asked
    <3>2. z.x \in Nat /\ StartPosModelIndex <= z.x
      BY <3>1, FieldWidths DEF StartPosModelIndex
    <3> QED BY <2>2, <3>1, <3>2, SlotNext DEF Place, SpecPlace
  <2>3. ASSUME NEW z, NEW t, Asked(z), Asked(t), z.of = "SpecPos", t.of = "SpecPos", Place(z) = Place(t)
        PROVE  ~ (z.x < t.x)
    <3> DEFINE a == z.x
               b == SlotBase(z.x)
               d == Pow2[Follow(z.x)]
               m == z.mi
               a2 == t.x
               b2 == SlotBase(t.x)
               m2 == t.mi
    <3>1. a \in Nat /\ b \in Nat /\ d \in Nat /\ m \in 1 .. d - 1 /\ StartPosModelIndex <= a
      BY <2>2, <2>3
    <3>2. a2 \in Nat /\ b2 \in Nat /\ m2 \in Nat /\ 1 <= m2
      BY <2>2, <2>3
    <3>3. SpecPos + b - a - 1 + m = SpecPos + b2 - a2 - 1 + m2 /\ SpecPos \in Nat
      <4>1. Place(z) = SpecPos + b - a - 1 + m /\ Place(t) = SpecPos + b2 - a2 - 1 + m2
        BY <2>2, <2>3
      <4> HIDE DEF a, b, m, a2, b2, m2
      <4> QED BY <2>3, <4>1, Offsets
    <3>4. a < a2 => b - a + d - 1 <= b2 - a2
      BY <3>1, <3>2, SlotsApart
    <3> HIDE DEF a, b, d, m, a2, b2, m2
    <3>5. ~ (a < a2)
      BY <3>1, <3>2, <3>3, <3>4
    <3> QED BY <3>5 DEF a, a2
  <2>4. r.x = s.x
    <3> DEFINE a == r.x
               b == s.x
    <3>1. ~ (a < b) /\ ~ (b < a)
      BY <1>6, <2>3
    <3>2. a \in Nat /\ b \in Nat
      BY <1>6, <2>2
    <3> HIDE DEF a, b
    <3>3. a = b
      BY <3>1, <3>2
    <3> QED BY <3>3 DEF a, b
  <2>5. r.mi = s.mi
    <3> DEFINE b == SpecPos + SlotBase(r.x) - r.x - 1
               m == r.mi
               k == s.mi
    <3>1. b + m = b + k
      BY <1>6, <2>2, <2>4
    <3>2. m \in Nat /\ k \in Nat /\ b \in Int
      <4>1. r.x \in Nat /\ SlotBase(r.x) \in Nat /\ m \in 1 .. Pow2[Follow(r.x)] - 1 /\ Pow2[Follow(r.x)] \in Nat
        BY <1>6, <2>2
      <4>2. k \in 1 .. Pow2[Follow(s.x)] - 1 /\ Pow2[Follow(s.x)] \in Nat
        BY <1>6, <2>2
      <4> QED BY <4>1, <4>2, Offsets
    <3> HIDE DEF b, m, k
    <3>3. m = k
      BY <3>1, <3>2
    <3> QED BY <3>3 DEF m, k
  <2> QED BY <2>1, <2>4, <2>5
<1>7. CASE r.of = "Literal"
  <2> DEFINE w == Pow2[LitBits]
             a == 3 * r.x + r.y
             b == 3 * s.x + s.y
  <2>1. /\ r.x \in Nat /\ r.y \in 0 .. 2 /\ r.mi \in Nat /\ r.mi < w /\ a \in Nat
        /\ Place(r) = Literal + (a * w + r.mi)
    BY <1>7, LiteralDigits
  <2>2. /\ s.x \in Nat /\ s.y \in 0 .. 2 /\ s.mi \in Nat /\ s.mi < w /\ b \in Nat
        /\ Place(s) = Literal + (b * w + s.mi)
    BY <1>7, LiteralDigits
  <2>3. w \in Nat \ {0} /\ Literal \in Nat
    BY Sizes, Offsets
  <2> HIDE DEF w, a, b
  <2>4. a * w \in Nat /\ b * w \in Nat
    BY <2>1, <2>2, <2>3
  <2>5. a * w + r.mi = b * w + s.mi
    <3> DEFINE c == a * w + r.mi
               d == b * w + s.mi
    <3>1. Literal + c = Literal + d
      BY <2>1, <2>2, Zenon
    <3>2. c \in Nat /\ d \in Nat
      BY <2>1, <2>2, <2>4
    <3> HIDE DEF c, d
    <3>3. c = d
      BY <2>3, <3>1, <3>2
    <3> QED BY <3>3 DEF c, d
  <2>6. a = b /\ r.mi = s.mi
    BY <2>1, <2>2, <2>3, <2>5, PairSame, Zenon
  <2>7. r.x = s.x /\ r.y = s.y
    <3> DEFINE x == r.x
               y == r.y
               x2 == s.x
               y2 == s.y
    <3>1. 3 * x + y = 3 * x2 + y2 /\ x \in Nat /\ x2 \in Nat /\ y \in 0 .. 2 /\ y2 \in 0 .. 2
      BY <2>1, <2>2, <2>6 DEF a, b
    <3> HIDE DEF x, y, x2, y2
    <3>2. x = x2 /\ y = y2
      BY <3>1
    <3> QED BY <3>2 DEF x, y, x2, y2
  <2> QED BY <2>6, <2>7
<1>8. CASE r.of \in LenKinds
  <2> DEFINE c == Coder(r.x)
  <2>1. r.x = s.x /\ r.x \in 0 .. 1
    BY <1>8 DEF Asked, LenKinds
  <2>2. c \in Nat /\ LenLow \in Nat /\ LenMid \in Nat /\ LenHigh \in Nat
    BY <2>1, CoderEdges, CodeLengths
  <2>3. CASE r.of \in {"LenChoice", "LenChoice2"}
    BY <2>1, <2>3 DEF Asked
  <2>4. CASE r.of = "LenHigh"
    <3>1. r.mi \in Nat /\ s.mi \in Nat /\ r.y = s.y
      BY <2>4, Sizes DEF Asked
    <3>2. Place(r) = c + LenHigh + r.mi /\ Place(s) = c + LenHigh + s.mi
      BY <2>1, <2>4 DEF Place
    <3>3. c + LenHigh + r.mi = c + LenHigh + s.mi
      BY <3>2, Zenon
    <3>4. r.mi = s.mi
      <4>1. c + LenHigh \in Nat
        BY <2>2
      <4> QED BY <3>1, <3>3, <4>1, SameSum, Zenon
    <3> QED BY <2>1, <3>1, <3>4
  <2>5. ASSUME NEW w \in Nat \ {0}, NEW k \in Nat,
               Place(r) = c + k + r.y * w + r.mi, Place(s) = c + k + s.y * w + s.mi,
               r.y \in Nat, s.y \in Nat, r.mi \in 1 .. w - 1, s.mi \in 1 .. w - 1
        PROVE  r.y = s.y /\ r.mi = s.mi
    <3>1. r.mi \in Nat /\ s.mi \in Nat /\ r.mi < w /\ s.mi < w /\ c + k \in Nat
      BY <2>2, <2>5
    <3>2. (c + k) + r.y * w + r.mi = (c + k) + s.y * w + s.mi
      BY <2>5, Zenon
    <3> DEFINE y == r.y
               m == r.mi
               y2 == s.y
               m2 == s.mi
               n == c + k
    <3>3. /\ y \in Nat /\ y2 \in Nat /\ m \in Nat /\ m2 \in Nat /\ m < w /\ m2 < w /\ n \in Nat
          /\ n + y * w + m = n + y2 * w + m2
      BY <2>5, <3>1, <3>2, Zenon
    <3> HIDE DEF y, m, y2, m2, n
    <3>4. y = y2 /\ m = m2
      BY <2>5, <3>3, SameDigits
    <3> QED BY <3>4 DEF y, m, y2, m2
  <2>6. CASE r.of = "LenLow"
    <3>1. /\ r.y \in Nat /\ s.y \in Nat /\ r.mi \in 1 .. Pow2[LowBits] - 1 /\ s.mi \in 1 .. Pow2[LowBits] - 1
          /\ Pow2[LowBits] \in Nat \ {0}
      BY <2>6, Sizes DEF Asked
    <3>2. /\ Place(r) = c + LenLow + r.y * Pow2[LowBits] + r.mi
          /\ Place(s) = c + LenLow + s.y * Pow2[LowBits] + s.mi
      BY <2>1, <2>6 DEF Place
    <3> QED BY <2>1, <2>2, <2>5, <3>1, <3>2
  <2>7. CASE r.of = "LenMid"
    <3>1. /\ r.y \in Nat /\ s.y \in Nat /\ r.mi \in 1 .. Pow2[MidBits] - 1 /\ s.mi \in 1 .. Pow2[MidBits] - 1
          /\ Pow2[MidBits] \in Nat \ {0}
      BY <2>7, Sizes DEF Asked
    <3>2. /\ Place(r) = c + LenMid + r.y * Pow2[MidBits] + r.mi
          /\ Place(s) = c + LenMid + s.y * Pow2[MidBits] + s.mi
      BY <2>1, <2>7 DEF Place
    <3> QED BY <2>1, <2>2, <2>5, <3>1, <3>2
  <2> QED BY <1>8, <2>3, <2>4, <2>6, <2>7 DEF LenKinds
<1> QED BY <1>3, <1>4, <1>5, <1>6, <1>7, <1>8 DEF Asked, LenKinds

\* No two questions share a place.
LEMMA PlacesDiffer ==
  ASSUME NEW r, Asked(r), SettingOK
  PROVE  /\ Place(r) \in 0 .. NumProbs(at) - 1
         /\ r.of # "Align" => r \in Questions
         /\ \A s \in Questions : Place(s) = Place(r) => s = r
<1>1. Place(r) \in 0 .. NumProbs(at) - 1
  <2>1. /\ Rank(r) \in 0 .. 19 /\ Place(r) \in Nat
        /\ Edge(Rank(r)) <= Place(r) /\ Place(r) < Edge(Rank(r) + 1)
    BY EachAtHome DEF AtHome
  <2>2. Edge(Rank(r) + 1) <= NumProbs(at) /\ Edge(Rank(r) + 1) \in Nat /\ NumProbs(at) \in Nat
    BY <2>1, TableInside, EdgesGrow, TableEnds
  <2> QED BY <2>1, <2>2
<1>2. ASSUME NEW s \in Questions, Place(s) = Place(r) PROVE s = r
  <2>1. Asked(s) /\ s.of # "Align"
    BY QuestionsAsked
  <2>2. Rank(s) = Rank(r)
    BY <1>2, <2>1, SameRank
  <2>3. s.of = r.of /\ (s.of \in LenKinds => s.x = r.x)
    BY <2>1, <2>2, SameKind
  <2> QED BY <1>2, <2>1, <2>3, PlaceTells
<1> QED BY <1>1, <1>2, InQuestions

-----------------------------------------------------------------------------
(* The trees. *)

\* Node m of a tree of lv levels, l of them above the leaves.
InNode(m, lv, l) == l \in 1 .. lv /\ Pow2[lv - l] <= m /\ m < Pow2[lv - l + 1]

LEMMA NodeStart == ASSUME NEW lv \in Nat \ {0} PROVE InNode(1, lv, lv) /\ 1 \in 1 .. Pow2[lv] - 1
<1>1. lv - lv = 0 /\ 0 + 1 = 1 /\ lv - 1 \in Nat /\ (lv - 1) + 1 = lv /\ lv \in 1 .. lv
  OBVIOUS
<1>2. Pow2[0] = 1 /\ Pow2[0 + 1] = 2 * Pow2[0] /\ Pow2[lv - 1] \in Nat \ {0} /\ Pow2[(lv - 1) + 1] = 2 * Pow2[lv - 1]
  BY <1>1, Pow2Is
<1> QED BY <1>1, <1>2 DEF InNode

LEMMA NodeStep ==
  ASSUME NEW m \in Nat, NEW lv \in Nat, NEW l \in Nat, l > 1, InNode(m, lv, l), NEW b \in 0 .. 1
  PROVE  InNode(2 * m + b, lv, l - 1) /\ 2 * m + b \in 1 .. Pow2[lv] - 1
<1> DEFINE n == lv - l
<1>1. n \in Nat /\ n + 1 = lv - (l - 1) /\ (n + 1) + 1 = lv - (l - 1) + 1 /\ n + 2 = (n + 1) + 1 /\ n + 2 <= lv
      /\ l - 1 \in 1 .. lv
  BY DEF InNode
<1>2. Pow2[n] \in Nat \ {0} /\ Pow2[n + 1] = 2 * Pow2[n] /\ Pow2[(n + 1) + 1] = 2 * Pow2[n + 1]
  BY <1>1, Pow2Step
<1>3. Pow2[n] <= m /\ m < Pow2[n + 1]
  BY DEF InNode
<1>4. Pow2[(n + 1) + 1] <= Pow2[lv]
  <2>1. CASE n + 2 = lv
    BY <1>1, <1>2, <2>1
  <2>2. CASE n + 2 < lv
    <3>1. Pow2[n + 2] < Pow2[lv] /\ Pow2[lv] \in Nat /\ Pow2[n + 2] \in Nat
      BY <1>1, <2>2, Pow2Grows, Pow2Step
    <3> QED BY <1>1, <3>1
  <2> QED BY <1>1, <2>1, <2>2
<1>5. Pow2[lv] \in Nat
  BY Pow2Step
<1> HIDE DEF n
<1>6. Pow2[n + 1] <= 2 * m + b /\ 2 * m + b < Pow2[(n + 1) + 1] /\ 1 <= 2 * m + b
  BY <1>2, <1>3
<1>7. InNode(2 * m + b, lv, l - 1)
  BY <1>1, <1>6 DEF InNode
<1>8. Pow2[(n + 1) + 1] \in Nat
  BY <1>1, <1>2
<1>9. 2 * m + b < Pow2[lv]
  BY <1>4, <1>5, <1>6, <1>8
<1> QED BY <1>5, <1>6, <1>7, <1>9

LEMMA NodeLeaf ==
  ASSUME NEW m \in Nat, NEW lv \in Nat \ {0}, NEW l \in Nat, ~ (l > 1), InNode(m, lv, l), NEW b \in 0 .. 1
  PROVE  2 * m + b - Pow2[lv] \in 0 .. Pow2[lv] - 1
<1>1. l = 1 /\ lv - 1 \in Nat /\ lv - l = lv - 1 /\ (lv - 1) + 1 = lv
  BY DEF InNode
<1>2. Pow2[lv - 1] \in Nat /\ Pow2[lv] = 2 * Pow2[lv - 1]
  BY <1>1, Pow2Step
<1>3. Pow2[lv - 1] <= m /\ m < Pow2[lv]
  BY <1>1 DEF InNode
<1> QED BY <1>2, <1>3

-----------------------------------------------------------------------------
(* Reading a symbol.  Every question asked is one of those the table has   *)
(* room for: its node lies in the tree planted for it at the level the     *)
(* register left says (TreeInv), and the distance, as far as it is known,  *)
(* is less than what the bits still to come can make of it.                *)

InTree(levels) == InNode(q.mi, levels, left)

TreeInv ==
  /\ q.of = "LenLow" => InTree(LowBits) /\ off = 0
  /\ q.of = "LenMid" => InTree(MidBits) /\ off = Pow2[LowBits]
  /\ q.of = "LenHigh" => InTree(HighBits) /\ off = Pow2[LowBits] + Pow2[MidBits]
  /\ q.of = "PosSlot" => InTree(SlotBits)
  /\ q.of = "SpecPos" =>
       InTree(Follow(q.x)) /\ off = Pow2[Follow(q.x) - left] /\ rep0 < SlotBase(q.x) + off
  /\ q.of = "Align" =>
       /\ InTree(AlignBits) /\ off = Pow2[AlignBits - left]
       /\ \E m \in 0 .. Wrap :
            /\ m * Pow2[AlignBits] <= rep0 /\ rep0 < m * Pow2[AlignBits] + off
            /\ m * Pow2[AlignBits] + Pow2[AlignBits] <= Wrap
  /\ q.of = "Direct" => left \in Nat \ {0} /\ q.x \in Nat /\ q.y = 0 /\ off = 1

RegistersInv ==
  /\ match \in Nat /\ off \in Nat /\ left \in Int /\ rank \in -1 .. 3
  /\ len \in 0 .. MaxLen - MinLen /\ rep0 \in 0 .. Wrap - 1

TokenInv ==
  /\ token.kind \in {"none", "literal", "short", "rep", "match"}
  /\ token.kind \in {"rep", "match"} => token.len \in MinLen .. MaxLen

QuestionInv ==
  /\ q = Question(q.of, q.x, q.y, q.mi) /\ q.of \in Kinds \cup {"Direct", "done"} /\ q.mi \in Nat
  /\ q.of \in Kinds => Asked(q)

BitsInv == SettingOK /\ QuestionInv /\ TreeInv /\ RegistersInv /\ TokenInv

LEMMA WrapIs == Wrap \in Nat \ {0} /\ Pow2[AlignBits] \in Nat \ {0} /\ \E c \in Nat : Wrap = c * Pow2[AlignBits]
<1> DEFINE e == Pow2[SlotBits - 1]
<1>1. SlotBits - 1 \in Nat /\ (SlotBits - 1) + 1 = SlotBits /\ AlignBits \in Nat
  BY FieldWidths
<1>2. e \in Nat /\ Pow2[SlotBits] = 2 * e
  BY <1>1, Pow2Step
<1>3. EndPosModelIndex \in Nat /\ EndPosModelIndex <= 2 * e /\ (EndPosModelIndex \div 2) - 1 > AlignBits
  BY <1>2, FieldWidths DEF Follow
<1> HIDE DEF e
<1>4. e - AlignBits \in Nat /\ AlignBits + (e - AlignBits) = e
  BY <1>1, <1>2, <1>3
<1>5. Pow2[e] = Pow2[AlignBits] * Pow2[e - AlignBits] /\ Pow2[e] \in Nat \ {0} /\ Pow2[AlignBits] \in Nat \ {0}
      /\ Pow2[e - AlignBits] \in Nat
  <2>1. Pow2[AlignBits + (e - AlignBits)] = Pow2[AlignBits] * Pow2[e - AlignBits]
    BY <1>1, <1>4, Pow2Sum
  <2> QED BY <1>1, <1>2, <1>4, <2>1, Pow2Step
<1>6. Wrap = Pow2[e]
  BY DEF Wrap, e
<1> DEFINE a == Pow2[AlignBits]
           c == Pow2[e - AlignBits]
<1>7. a * c = c * a
  <2>1. a \in Nat /\ c \in Nat
    BY <1>5
  <2> HIDE DEF a, c
  <2> QED BY <2>1
<1> QED BY <1>5, <1>6, <1>7

LEMMA InWrap == ASSUME NEW x \in Nat PROVE x % Wrap \in 0 .. Wrap - 1
  BY WrapIs

LEMMA MaxLenIs ==
  /\ MaxLen - MinLen \in Nat /\ MaxLen \in Nat /\ MinLen \in Nat
  /\ \A n \in 0 .. MaxLen - MinLen : n + MinLen \in MinLen .. MaxLen
  /\ MaxLen - MinLen = Pow2[LowBits] + Pow2[MidBits] + Pow2[HighBits] - 1
<1>1. MinLen \in Nat /\ Pow2[LowBits] \in Nat \ {0} /\ Pow2[MidBits] \in Nat \ {0} /\ Pow2[HighBits] \in Nat \ {0}
  BY Sizes, FieldWidths
<1>2. MaxLen = MinLen + Pow2[LowBits] + Pow2[MidBits] + Pow2[HighBits] - 1
  BY DEF MaxLen
<1> QED BY <1>1, <1>2

LEMMA PosStateIn == ASSUME SettingOK PROVE posState \in 0 .. Pow2[PosBits] - 1
<1>1. at.nowPos \in Nat /\ at.pb \in Nat /\ at.pb <= PosBits /\ PosBits \in Nat
  BY FieldWidths DEF SettingOK
<1>2. Pow2[at.pb] \in Nat \ {0} /\ Pow2[PosBits] \in Nat /\ Pow2[at.pb] <= Pow2[PosBits]
  <2>1. Pow2[at.pb] \in Nat \ {0} /\ Pow2[PosBits] \in Nat
    BY <1>1, Pow2Step
  <2>2. CASE at.pb = PosBits
    BY <2>1, <2>2
  <2>3. CASE at.pb < PosBits
    <3>1. Pow2[at.pb] < Pow2[PosBits]
      BY <1>1, <2>3, Pow2Grows
    <3> QED BY <2>1, <3>1
  <2> QED BY <1>1, <2>1, <2>2, <2>3
<1> DEFINE d == Pow2[at.pb]
           n == at.nowPos
<1>3. d \in Nat \ {0} /\ n \in Nat /\ d <= Pow2[PosBits]
  BY <1>1, <1>2
<1> HIDE DEF d, n
<1>4. n % d \in 0 .. Pow2[PosBits] - 1
  BY <1>2, <1>3
<1> QED BY <1>4 DEF posState, d, n

LEMMA ContextIn ==
  ASSUME SettingOK, NEW b \in 0 .. Pow2[LitBits] - 1
  PROVE  LiteralContext(b) \in 0 .. Pow2[at.lc + at.lp] - 1
<1>1. at.nowPos \in Nat /\ at.lc \in Nat /\ at.lp \in Nat /\ at.lc <= LitBits /\ LitBits - at.lc \in Nat
      /\ (LitBits - at.lc) + at.lc = LitBits /\ at.lp + at.lc = at.lc + at.lp
  BY FieldWidths DEF SettingOK
<1>2. /\ Pow2[at.lc] \in Nat \ {0} /\ Pow2[at.lp] \in Nat \ {0} /\ Pow2[LitBits - at.lc] \in Nat \ {0}
      /\ Pow2[LitBits] = Pow2[LitBits - at.lc] * Pow2[at.lc]
      /\ Pow2[at.lc + at.lp] = Pow2[at.lp] * Pow2[at.lc] /\ Pow2[LitBits] \in Nat
  <2>1. /\ Pow2[(LitBits - at.lc) + at.lc] = Pow2[LitBits - at.lc] * Pow2[at.lc]
        /\ Pow2[at.lp + at.lc] = Pow2[at.lp] * Pow2[at.lc]
    BY <1>1, Pow2Sum
  <2>2. LitBits \in Nat
    BY FieldWidths
  <2> QED BY <1>1, <2>1, <2>2, Pow2Step
<1> DEFINE c == Pow2[at.lc]
           p == Pow2[at.lp]
           d == Pow2[LitBits - at.lc]
           x == at.nowPos % p
           y == b \div d
<1>3. x \in Nat /\ x < p
  <2> DEFINE n == at.nowPos
  <2>1. n \in Nat /\ p \in Nat \ {0}
    BY <1>1, <1>2
  <2> HIDE DEF n, p
  <2>2. n % p \in Nat /\ n % p < p
    BY <2>1
  <2> QED BY <2>2 DEF n
<1>4. y \in Nat /\ y < c
  <2>1. b \in Nat /\ b < d * c /\ d \in Nat \ {0} /\ c \in Nat
    BY <1>2
  <2> HIDE DEF d, c
  <2>2. y \in Nat /\ d * y <= b
    BY <2>1, Quotient
  <2> HIDE DEF y
  <2>3. ~ (c <= y)
    <3> SUFFICES ASSUME c <= y PROVE FALSE
      OBVIOUS
    <3>1. d * c <= d * y /\ d * c \in Nat /\ d * y \in Nat
      BY <2>1, <2>2
    <3> QED BY <2>1, <2>2, <3>1
  <2> QED BY <2>1, <2>2, <2>3
<1>5. LiteralContext(b) = x * c + y
  BY DEF LiteralContext
<1>6. Pow2[at.lc + at.lp] = p * c /\ p \in Nat /\ c \in Nat \ {0}
  BY <1>2
<1> HIDE DEF x, y, p, c, d
<1>7. x * c + y \in Nat /\ x * c + y < p * c /\ p * c \in Nat
  BY <1>3, <1>4, <1>6, PairBelow
<1> QED BY <1>5, <1>6, <1>7

-----------------------------------------------------------------------------
(* Each bit keeps the invariant. *)

\* The kinds of questions with a tree that TreeInv speaks of.
TreeKinds == {"LenLow", "LenMid", "LenHigh", "PosSlot", "SpecPos", "Align", "Direct"}

LEMMA SettingKeeps == ASSUME SettingOK, at' = at PROVE SettingOK'
  BY DEF SettingOK

LEMMA FieldsOf ==
  ASSUME NEW r, NEW of, NEW x, NEW y, NEW mi, r = Question(of, x, y, mi)
  PROVE  r.of = of /\ r.x = x /\ r.y = y /\ r.mi = mi /\ r = Question(r.of, r.x, r.y, r.mi)
  BY DEF Question

LEMMA NoTree == ASSUME q'.of \notin TreeKinds PROVE TreeInv'
  BY DEF TreeInv, TreeKinds

LEMMA Planted ==
  ASSUME NEW of, NEW x, NEW y, NEW lv \in Nat \ {0}, Plant(of, x, y, lv)
  PROVE  /\ q'.of = of /\ q'.x = x /\ q'.y = y /\ q'.mi = 1 /\ left' = lv
         /\ q' = Question(q'.of, q'.x, q'.y, q'.mi)
         /\ InTree(lv)' /\ 1 \in 1 .. Pow2[lv] - 1
<1>1. q' = Question(of, x, y, 1) /\ left' = lv
  BY DEF Plant
<1>2. q'.of = of /\ q'.x = x /\ q'.y = y /\ q'.mi = 1 /\ q' = Question(q'.of, q'.x, q'.y, q'.mi)
  BY <1>1, FieldsOf
<1>3. InNode(1, lv, lv) /\ 1 \in 1 .. Pow2[lv] - 1
  BY NodeStart
<1> QED BY <1>1, <1>2, <1>3 DEF InTree

LEMMA Climbed ==
  ASSUME NEW lv \in Nat, NEW b \in 0 .. 1, QuestionInv, left \in Int, left > 1, InTree(lv), Climb(b)
  PROVE  /\ q'.of = q.of /\ q'.x = q.x /\ q'.y = q.y /\ q'.mi = 2 * q.mi + b /\ left' = left - 1
         /\ q' = Question(q'.of, q'.x, q'.y, q'.mi)
         /\ InTree(lv)' /\ q'.mi \in 1 .. Pow2[lv] - 1
<1>1. q = Question(q.of, q.x, q.y, q.mi) /\ q.mi \in Nat
  BY DEF QuestionInv
<1>2. q' = [q EXCEPT !.mi = 2 * q.mi + b] /\ left' = left - 1
  BY DEF Climb
<1>3. q' = Question(q.of, q.x, q.y, 2 * q.mi + b)
  BY <1>1, <1>2 DEF Question
<1>4. /\ q'.of = q.of /\ q'.x = q.x /\ q'.y = q.y /\ q'.mi = 2 * q.mi + b
      /\ q' = Question(q'.of, q'.x, q'.y, q'.mi)
  BY <1>3, FieldsOf
<1>5. InNode(2 * q.mi + b, lv, left - 1) /\ 2 * q.mi + b \in 1 .. Pow2[lv] - 1
  <2>1. left \in Nat /\ InNode(q.mi, lv, left)
    BY DEF InTree
  <2> QED BY <1>1, <2>1, NodeStep
<1> QED BY <1>2, <1>4, <1>5 DEF InTree

LEMMA Ended ==
  ASSUME NEW t, Done(t) PROVE QuestionInv' /\ TreeInv' /\ token' = t
<1>1. q' = Question("done", 0, 0, 0) /\ token' = t
  BY DEF Done
<1>2. q'.of = "done" /\ q'.mi = 0 /\ q' = Question(q'.of, q'.x, q'.y, q'.mi)
  BY <1>1, FieldsOf
<1>3. "done" \notin Kinds /\ "done" \notin TreeKinds
  BY DEF Kinds, TreeKinds
<1> QED BY <1>1, <1>2, <1>3, NoTree DEF QuestionInv

\* The questions that have no tree, or whose tree is planted.
LEMMA Legal ==
  ASSUME at' = at, q'.of \in Kinds, q'.mi \in Nat, q' = Question(q'.of, q'.x, q'.y, q'.mi),
         Asked(q)'
  PROVE  QuestionInv'
  BY DEF QuestionInv

LEMMA MatchKeeps == ASSUME BitsInv, NEW b \in 0 .. 1, MatchBit(b) PROVE BitsInv'
<1> USE DEF BitsInv
<1>1. at' = at /\ off' = off /\ rank' = rank /\ len' = len /\ rep0' = rep0 /\ token' = token
  BY DEF MatchBit
<1>2. SettingOK'
  BY <1>1, SettingKeeps
<1>3. TokenInv'
  BY <1>1 DEF TokenInv
<1>4. CASE b = 0
  <2>1. PICK byte, matched \in 0 .. Pow2[LitBits] - 1 :
          IF at.state >= NumLitStates
            THEN match' = 2 * matched /\ Plant("Literal", LiteralContext(byte), MatchPart(matched), LitBits)
            ELSE match' = 0 /\ Plant("Literal", LiteralContext(byte), 0, LitBits)
    BY <1>4 DEF MatchBit
  <2>2. LitBits \in Nat \ {0} /\ Pow2[LitBits] \in Nat
    BY FieldWidths, Sizes
  <2>3. MatchPart(matched) \in 1 .. 2
    <3> DEFINE z == (2 * matched) \div Pow2[LitBits]
    <3>1. z \in Nat
      <4>1. Pow2[LitBits] \in Nat \ {0} /\ 2 * matched \in Nat
        BY Sizes
      <4> QED BY <4>1, Quotient
    <3>2. MatchPart(matched) = 1 + (z % 2)
      BY DEF MatchPart
    <3> HIDE DEF z
    <3> QED BY <3>1, <3>2
  <2>4. PICK y \in 0 .. 2 : Plant("Literal", LiteralContext(byte), y, LitBits) /\ match' \in Nat
    <3>1. CASE at.state >= NumLitStates
      <4>1. 2 * matched \in Nat
        BY <2>2
      <4> QED BY <2>1, <2>3, <3>1, <4>1
    <3>2. CASE ~ (at.state >= NumLitStates)
      BY <2>1, <3>2
    <3> QED BY <3>1, <3>2
  <2>5. /\ q'.of = "Literal" /\ q'.x = LiteralContext(byte) /\ q'.y = y /\ q'.mi = 1 /\ left' = LitBits
        /\ q' = Question(q'.of, q'.x, q'.y, q'.mi) /\ 1 \in 1 .. Pow2[LitBits] - 1
    BY <2>2, <2>4, Planted
  <2>6. LiteralContext(byte) \in 0 .. Pow2[at.lc + at.lp] - 1
    BY ContextIn
  <2>7. Asked(q)'
    BY <1>1, <2>5, <2>6 DEF Asked
  <2>8. QuestionInv'
    BY <1>1, <2>5, <2>7, Legal DEF Kinds
  <2>9. TreeInv'
    BY <2>5, NoTree DEF TreeKinds
  <2>10. RegistersInv'
    BY <1>1, <2>2, <2>4, <2>5 DEF RegistersInv
  <2> QED BY <1>2, <1>3, <2>8, <2>9, <2>10
<1>5. CASE b # 0
  <2>1. q' = Question("IsRep", at.state, 0, 0) /\ left' = left /\ match' = match
    BY <1>5 DEF MatchBit
  <2>2. /\ q'.of = "IsRep" /\ q'.x = at.state /\ q'.y = 0 /\ q'.mi = 0
        /\ q' = Question(q'.of, q'.x, q'.y, q'.mi)
    BY <2>1, FieldsOf
  <2>3. Asked(q)'
    BY <2>2 DEF Asked, SettingOK
  <2>4. QuestionInv'
    BY <1>1, <2>2, <2>3, Legal DEF Kinds
  <2>5. TreeInv'
    BY <2>2, NoTree DEF TreeKinds
  <2>6. RegistersInv'
    BY <1>1, <2>1 DEF RegistersInv
  <2> QED BY <1>2, <1>3, <2>4, <2>5, <2>6
<1> QED BY <1>4, <1>5

LEMMA MatchPartIn == ASSUME NEW byte \in Nat PROVE MatchPart(byte) \in 1 .. 2 /\ 2 * byte \in Nat
<1> DEFINE z == (2 * byte) \div Pow2[LitBits]
<1>1. z \in Nat
  <2>1. Pow2[LitBits] \in Nat \ {0} /\ 2 * byte \in Nat
    BY Sizes
  <2> QED BY <2>1, Quotient
<1>2. MatchPart(byte) = 1 + (z % 2)
  BY DEF MatchPart
<1> HIDE DEF z
<1> QED BY <1>1, <1>2

LEMMA LiteralKeeps == ASSUME BitsInv, NEW b \in 0 .. 1, LiteralBit(b) PROVE BitsInv'
<1> USE DEF BitsInv
<1>1. /\ at' = at /\ off' = off /\ rank' = rank /\ len' = len /\ rep0' = rep0 /\ left' = left - 1
      /\ q.of = "Literal"
  BY DEF LiteralBit, Asking
<1>2. SettingOK'
  BY <1>1, SettingKeeps
<1> DEFINE symbol == 2 * q.mi + b
<1>3. /\ Asked(q) /\ q = Question(q.of, q.x, q.y, q.mi)
      /\ q.x \in 0 .. Pow2[at.lc + at.lp] - 1 /\ q.mi \in 1 .. Pow2[LitBits] - 1
  <2>1. Asked(q)
    BY <1>1 DEF QuestionInv, Kinds
  <2> QED BY <1>1, <2>1 DEF Asked
<1>4. Pow2[LitBits] \in Nat /\ symbol \in Nat \ {0}
  <2>1. Pow2[LitBits] \in Nat
    BY Sizes
  <2> QED BY <1>3, <2>1
<1>5. CASE symbol < Pow2[LitBits]
  <2>1. /\ q' = [q EXCEPT !.mi = symbol, !.y = IF StillMatched(b) THEN MatchPart(match) ELSE 0]
        /\ match' = (IF StillMatched(b) THEN 2 * match ELSE 0) /\ token' = token
    BY <1>5 DEF LiteralBit
  <2>2. PICK y \in 0 .. 2 : q' = [q EXCEPT !.mi = symbol, !.y = y] /\ match' \in Nat
    <3>1. match \in Nat
      BY DEF RegistersInv
    <3>2. MatchPart(match) \in 0 .. 2 /\ 2 * match \in Nat
      BY <3>1, MatchPartIn
    <3> DEFINE y == IF StillMatched(b) THEN MatchPart(match) ELSE 0
    <3>3. y \in 0 .. 2 /\ match' \in Nat
      BY <2>1, <3>2
    <3>4. q' = [q EXCEPT !.mi = symbol, !.y = y]
      BY <2>1
    <3> HIDE DEF symbol, y
    <3> QED BY <3>3, <3>4
  <2>3. q' = Question("Literal", q.x, y, symbol)
    BY <1>1, <1>3, <2>2 DEF Question
  <2>4. /\ q'.of = "Literal" /\ q'.x = q.x /\ q'.y = y /\ q'.mi = symbol
        /\ q' = Question(q'.of, q'.x, q'.y, q'.mi)
    BY <2>3, FieldsOf
  <2>5. symbol \in 1 .. Pow2[LitBits] - 1
    BY <1>4, <1>5
  <2> HIDE DEF symbol
  <2>6. Asked(q)'
    BY <1>1, <1>3, <2>4, <2>5 DEF Asked
  <2>7. QuestionInv'
    BY <1>1, <1>4, <2>4, <2>6, Legal DEF Kinds
  <2>8. TreeInv'
    BY <2>4, NoTree DEF TreeKinds
  <2>9. RegistersInv' /\ TokenInv'
    BY <1>1, <2>1, <2>2 DEF RegistersInv, TokenInv
  <2> QED BY <1>2, <2>7, <2>8, <2>9
<1>6. CASE ~ (symbol < Pow2[LitBits])
  <2>1. Done([kind |-> "literal", byte |-> symbol % Pow2[LitBits]]) /\ match' = match
    BY <1>6 DEF LiteralBit
  <2> HIDE DEF symbol
  <2>2. QuestionInv' /\ TreeInv' /\ token' = [kind |-> "literal", byte |-> symbol % Pow2[LitBits]]
    BY <2>1, Ended
  <2>3. RegistersInv' /\ TokenInv'
    BY <1>1, <2>1, <2>2 DEF RegistersInv, TokenInv
  <2> QED BY <1>2, <2>2, <2>3
<1> QED BY <1>5, <1>6

\* The questions that follow from a bit that tells kinds apart.
LEMMA NextQuestion ==
  ASSUME SettingOK, at' = at, NEW of, NEW x, NEW y, q' = Question(of, x, y, 0),
         \/ of \in {"IsRepG0", "IsRepG1", "IsRepG2"} /\ x = at.state /\ y = 0
         \/ of = "IsRep0Long" /\ x = at.state /\ y = posState
         \/ of \in {"LenChoice", "LenChoice2"} /\ x \in 0 .. 1 /\ y = 0
  PROVE  QuestionInv' /\ TreeInv'
<1>1. /\ q'.of = of /\ q'.x = x /\ q'.y = y /\ q'.mi = 0
      /\ q' = Question(q'.of, q'.x, q'.y, q'.mi)
  BY FieldsOf
<1>2. posState \in 0 .. Pow2[PosBits] - 1
  BY PosStateIn
<1>3. Asked(q)'
  BY <1>1, <1>2 DEF Asked, SettingOK
<1>4. QuestionInv'
  BY <1>1, <1>3, Legal DEF Kinds
<1>5. TreeInv'
  BY <1>1, NoTree DEF TreeKinds
<1> QED BY <1>4, <1>5

LEMMA KindKeeps == ASSUME BitsInv, NEW b \in 0 .. 1, KindBit(b) PROVE BitsInv'
<1> USE DEF BitsInv
<1>1. at' = at /\ left' = left /\ match' = match /\ off' = off /\ len' = len /\ rep0' = rep0
  BY DEF KindBit
<1>2. SettingOK'
  BY <1>1, SettingKeeps
<1>3. ASSUME NEW c \in 0 .. 1, NEW r \in -1 .. 3, LenFrom(c, r) PROVE BitsInv'
  <2>1. q' = Question("LenChoice", c, 0, 0) /\ rank' = r /\ token' = token
    BY <1>3 DEF LenFrom
  <2>2. QuestionInv' /\ TreeInv'
    BY <1>1, <2>1, NextQuestion
  <2>3. RegistersInv' /\ TokenInv'
    BY <1>1, <2>1 DEF RegistersInv, TokenInv
  <2> QED BY <1>2, <2>2, <2>3
<1>4. ASSUME NEW of \in {"IsRepG0", "IsRepG1", "IsRepG2"}, q' = Question(of, at.state, 0, 0),
             rank' = rank, token' = token
      PROVE  BitsInv'
  <2>1. QuestionInv' /\ TreeInv'
    BY <1>1, <1>4, NextQuestion
  <2>2. RegistersInv' /\ TokenInv'
    BY <1>1, <1>4 DEF RegistersInv, TokenInv
  <2> QED BY <1>2, <2>1, <2>2
<1>5. CASE q.of = "IsRep" /\ b = 0
  BY <1>3, <1>5 DEF KindBit, Asking
<1>6. CASE q.of = "IsRep" /\ b = 1
  BY <1>4, <1>6 DEF KindBit, Asking
<1>7. CASE q.of = "IsRepG0" /\ b = 0
  <2>1. q' = Question("IsRep0Long", at.state, posState, 0) /\ rank' = rank /\ token' = token
    BY <1>7 DEF KindBit, Asking
  <2>2. QuestionInv' /\ TreeInv'
    BY <1>1, <2>1, NextQuestion
  <2>3. RegistersInv' /\ TokenInv'
    BY <1>1, <2>1 DEF RegistersInv, TokenInv
  <2> QED BY <1>2, <2>2, <2>3
<1>8. CASE q.of = "IsRepG0" /\ b = 1
  BY <1>4, <1>8 DEF KindBit, Asking
<1>9. CASE q.of = "IsRep0Long" /\ b = 0
  <2>1. Done([kind |-> "short"]) /\ rank' = rank
    BY <1>9 DEF KindBit, Asking
  <2>2. QuestionInv' /\ TreeInv' /\ token' = [kind |-> "short"]
    BY <2>1, Ended
  <2>3. RegistersInv' /\ TokenInv'
    BY <1>1, <2>1, <2>2 DEF RegistersInv, TokenInv
  <2> QED BY <1>2, <2>2, <2>3
<1>10. CASE q.of = "IsRep0Long" /\ b = 1
  BY <1>3, <1>10 DEF KindBit, Asking
<1>11. CASE q.of = "IsRepG1" /\ b = 0
  BY <1>3, <1>11 DEF KindBit, Asking
<1>12. CASE q.of = "IsRepG1" /\ b = 1
  BY <1>4, <1>12 DEF KindBit, Asking
<1>13. CASE q.of = "IsRepG2"
  <2>1. LenFrom(1, 2 + b) /\ 2 + b \in -1 .. 3
    BY <1>13 DEF KindBit, Asking
  <2> QED BY <1>3, <2>1
<1>14. q.of \in {"IsRep", "IsRepG0", "IsRepG1", "IsRepG2", "IsRep0Long"} /\ b \in {0, 1}
  BY DEF KindBit, Asking
<1> QED BY <1>5, <1>6, <1>7, <1>8, <1>9, <1>10, <1>11, <1>12, <1>13, <1>14

LEMMA ChoiceKeeps == ASSUME BitsInv, NEW b \in 0 .. 1, ChoiceBit(b) PROVE BitsInv'
<1> USE DEF BitsInv
<1>1. /\ at' = at /\ match' = match /\ rank' = rank /\ len' = len /\ rep0' = rep0 /\ token' = token
      /\ q.of \in {"LenChoice", "LenChoice2"} /\ b \in {0, 1}
  BY DEF ChoiceBit, Asking
<1>2. SettingOK' /\ TokenInv'
  BY <1>1, SettingKeeps DEF TokenInv
<1>3. q.x \in 0 .. 1
  <2>1. Asked(q)
    BY <1>1 DEF QuestionInv, Kinds
  <2> QED BY <1>1, <2>1 DEF Asked
<1>4. posState \in 0 .. Pow2[PosBits] - 1 /\ 0 \in 0 .. Pow2[PosBits] - 1
  <2>1. Pow2[PosBits] \in Nat \ {0}
    BY Sizes
  <2> QED BY <2>1, PosStateIn
<1>5. ASSUME NEW of, NEW y \in Nat, NEW lv \in Nat \ {0}, Plant(of, q.x, y, lv), off' \in Nat,
             \/ of = "LenLow" /\ lv = LowBits /\ y \in 0 .. Pow2[PosBits] - 1 /\ off' = 0
             \/ /\ of = "LenMid" /\ lv = MidBits /\ y \in 0 .. Pow2[PosBits] - 1
                /\ off' = Pow2[LowBits]
             \/ /\ of = "LenHigh" /\ lv = HighBits /\ y = 0
                /\ off' = Pow2[LowBits] + Pow2[MidBits]
      PROVE  BitsInv'
  <2>1. /\ q'.of = of /\ q'.x = q.x /\ q'.y = y /\ q'.mi = 1 /\ left' = lv
        /\ q' = Question(q'.of, q'.x, q'.y, q'.mi)
        /\ InTree(lv)' /\ 1 \in 1 .. Pow2[lv] - 1
    <3>1. q' = Question(of, q.x, y, 1) /\ left' = lv
      BY <1>5 DEF Plant
    <3>2. /\ q'.of = of /\ q'.x = q.x /\ q'.y = y /\ q'.mi = 1
          /\ q' = Question(q'.of, q'.x, q'.y, q'.mi)
      BY <3>1, FieldsOf
    <3> QED BY <3>1, <3>2, NodeStart DEF InTree
  <2>2. Asked(q)'
    BY <1>3, <1>5, <2>1 DEF Asked
  <2>3. QuestionInv'
    <3>1. q'.of \in Kinds /\ q'.mi \in Nat
      BY <1>5, <2>1 DEF Kinds
    <3> QED BY <1>1, <2>1, <2>2, <3>1, Legal
  <2>4. TreeInv'
    BY <1>5, <2>1 DEF TreeInv
  <2>5. RegistersInv'
    BY <1>1, <1>5, <2>1 DEF RegistersInv
  <2> QED BY <1>2, <2>3, <2>4, <2>5
<1>6. /\ LowBits \in Nat \ {0} /\ MidBits \in Nat \ {0} /\ HighBits \in Nat \ {0}
      /\ Pow2[LowBits] \in Nat /\ Pow2[MidBits] \in Nat /\ Pow2[LowBits] + Pow2[MidBits] \in Nat
  <2>1. Pow2[LowBits] \in Nat /\ Pow2[MidBits] \in Nat
    BY Sizes
  <2> QED BY <2>1, FieldWidths
<1>7. CASE q.of = "LenChoice" /\ b = 0
  <2>1. off' = 0 /\ Plant("LenLow", q.x, posState, LowBits) /\ posState \in Nat
    BY <1>4, <1>7 DEF ChoiceBit, Asking
  <2> QED BY <1>4, <1>5, <1>6, <2>1
<1>8. CASE q.of = "LenChoice" /\ b = 1
  <2>1. q' = Question("LenChoice2", q.x, 0, 0) /\ off' = off /\ left' = left
    BY <1>8 DEF ChoiceBit, Asking
  <2>2. QuestionInv' /\ TreeInv'
    <3>1. q' = Question("LenChoice2", 0, 0, 0) \/ q' = Question("LenChoice2", 1, 0, 0)
      BY <1>3, <2>1
    <3> QED BY <1>1, <3>1, NextQuestion
  <2>3. RegistersInv'
    BY <1>1, <2>1 DEF RegistersInv
  <2> QED BY <1>2, <2>2, <2>3
<1>9. CASE q.of = "LenChoice2" /\ b = 0
  <2>1. off' = Pow2[LowBits] /\ Plant("LenMid", q.x, posState, MidBits) /\ posState \in Nat
    BY <1>4, <1>9 DEF ChoiceBit, Asking
  <2> QED BY <1>4, <1>5, <1>6, <2>1
<1>10. CASE q.of = "LenChoice2" /\ b = 1
  <2>1. off' = Pow2[LowBits] + Pow2[MidBits] /\ Plant("LenHigh", q.x, 0, HighBits)
    BY <1>10 DEF ChoiceBit, Asking
  <2> QED BY <1>4, <1>5, <1>6, <2>1
<1> QED BY <1>1, <1>7, <1>8, <1>9, <1>10

LEMMA LenInside == ASSUME NEW n \in 0 .. MaxLen - MinLen PROVE n \in Nat /\ n + MinLen \in MinLen .. MaxLen
<1>1. MaxLen - MinLen \in Nat /\ \A k \in 0 .. MaxLen - MinLen : k + MinLen \in MinLen .. MaxLen
  BY MaxLenIs
<1> QED BY <1>1

LEMMA LenKeeps == ASSUME BitsInv, NEW b \in 0 .. 1, LenBit(b) PROVE BitsInv'
<1> USE DEF BitsInv
<1>1. /\ at' = at /\ match' = match /\ off' = off /\ rank' = rank /\ rep0' = rep0
      /\ q.of \in {"LenLow", "LenMid", "LenHigh"}
  BY DEF LenBit
<1>2. SettingOK'
  BY <1>1, SettingKeeps
<1> DEFINE lv == LevelsOf(q.of)
<1>3. /\ lv \in Nat \ {0} /\ InTree(lv) /\ off \in Nat /\ off + Pow2[lv] - 1 <= MaxLen - MinLen
      /\ q.of = "LenLow" => lv = LowBits /\ off = 0
      /\ q.of = "LenMid" => lv = MidBits /\ off = Pow2[LowBits]
      /\ q.of = "LenHigh" => lv = HighBits /\ off = Pow2[LowBits] + Pow2[MidBits]
  <2>1. /\ Pow2[LowBits] \in Nat \ {0} /\ Pow2[MidBits] \in Nat \ {0} /\ Pow2[HighBits] \in Nat \ {0}
        /\ MaxLen - MinLen = Pow2[LowBits] + Pow2[MidBits] + Pow2[HighBits] - 1
        /\ LowBits \in Nat \ {0} /\ MidBits \in Nat \ {0} /\ HighBits \in Nat \ {0}
    BY Sizes, MaxLenIs, FieldWidths
  <2>2. CASE q.of = "LenLow"
    <3>1. lv = LowBits /\ InTree(LowBits) /\ off = 0
      BY <2>2 DEF LevelsOf, TreeInv
    <3> HIDE DEF lv
    <3>2. off + Pow2[LowBits] - 1 <= MaxLen - MinLen
      BY <2>1, <3>1
    <3> QED BY <2>1, <2>2, <3>1, <3>2
  <2>3. CASE q.of = "LenMid"
    <3>1. lv = MidBits /\ InTree(MidBits) /\ off = Pow2[LowBits]
      BY <2>3 DEF LevelsOf, TreeInv
    <3> HIDE DEF lv
    <3>2. off + Pow2[MidBits] - 1 <= MaxLen - MinLen
      BY <2>1, <3>1
    <3> QED BY <2>1, <2>3, <3>1, <3>2
  <2>4. CASE q.of = "LenHigh"
    <3>1. lv = HighBits /\ InTree(HighBits) /\ off = Pow2[LowBits] + Pow2[MidBits]
      BY <2>4 DEF LevelsOf, TreeInv
    <3> HIDE DEF lv
    <3>2. off + Pow2[HighBits] - 1 <= MaxLen - MinLen /\ off \in Nat
      BY <2>1, <3>1
    <3> QED BY <2>1, <2>4, <3>1, <3>2
  <2> QED BY <1>1, <2>2, <2>3, <2>4
<1>4. q.mi \in Nat /\ Asked(q) /\ left \in Int
  BY <1>1 DEF QuestionInv, RegistersInv, Kinds
<1>5. CASE left > 1
  <2>1. Climb(b) /\ len' = len /\ token' = token
    BY <1>5 DEF LenBit
  <2>2. /\ q'.of = q.of /\ q'.x = q.x /\ q'.y = q.y /\ left' = left - 1
        /\ q' = Question(q'.of, q'.x, q'.y, q'.mi)
        /\ InTree(lv)' /\ q'.mi \in 1 .. Pow2[lv] - 1
    <3>1. q = Question(q.of, q.x, q.y, q.mi)
      BY DEF QuestionInv
    <3>2. q' = [q EXCEPT !.mi = 2 * q.mi + b] /\ left' = left - 1
      BY <2>1 DEF Climb
    <3>3. q' = Question(q.of, q.x, q.y, 2 * q.mi + b)
      BY <3>1, <3>2 DEF Question
    <3>4. /\ q'.of = q.of /\ q'.x = q.x /\ q'.y = q.y /\ q'.mi = 2 * q.mi + b
          /\ q' = Question(q'.of, q'.x, q'.y, q'.mi)
      BY <3>3, FieldsOf
    <3>5. lv' = lv
      BY <3>4 DEF LevelsOf
    <3>6. InNode(q.mi, lv, left) /\ lv \in Nat /\ left \in Nat
      BY <1>3, <1>4, <1>5 DEF InTree
    <3> HIDE DEF lv
    <3>7. InNode(2 * q.mi + b, lv, left - 1) /\ 2 * q.mi + b \in 1 .. Pow2[lv] - 1
      BY <1>4, <1>5, <3>6, NodeStep
    <3> QED BY <3>2, <3>4, <3>5, <3>7 DEF InTree
  <2>3. lv' = lv
    BY <2>2 DEF LevelsOf
  <2> HIDE DEF lv
  <2>4. Asked(q)'
    BY <1>1, <1>3, <1>4, <2>2 DEF Asked
  <2>5. QuestionInv'
    <3>1. q'.of \in Kinds /\ q'.mi \in Nat
      <4>1. Pow2[lv] \in Nat
        BY <1>3, Pow2Step
      <4> QED BY <1>1, <2>2, <4>1 DEF Kinds
    <3> QED BY <1>1, <2>2, <2>4, <3>1, Legal
  <2>6. TreeInv'
    BY <1>1, <1>3, <2>2, <2>3 DEF TreeInv
  <2>7. RegistersInv' /\ TokenInv'
    BY <1>1, <1>4, <2>1, <2>2 DEF RegistersInv, TokenInv
  <2> QED BY <1>2, <2>5, <2>6, <2>7
<1>6. CASE ~ (left > 1)
  <2>1. len' = TreeValue(b) + off
    BY <1>6 DEF LenBit
  <2>2. len' \in 0 .. MaxLen - MinLen
    <3>1. TreeValue(b) = 2 * q.mi + b - Pow2[lv]
      BY DEF TreeValue
    <3> HIDE DEF lv
    <3>2. InNode(q.mi, lv, left) /\ left \in Nat
      BY <1>3 DEF InTree, InNode
    <3>3. TreeValue(b) \in 0 .. Pow2[lv] - 1
      BY <1>3, <1>4, <1>6, <3>1, <3>2, NodeLeaf
    <3>4. Pow2[lv] \in Nat /\ MaxLen - MinLen \in Nat
      BY <1>3, Pow2Step, MaxLenIs
    <3> QED BY <1>3, <2>1, <3>3, <3>4
  <2>3. MaxLen - MinLen \in Nat /\ len' \in Nat /\ len' + MinLen \in MinLen .. MaxLen
    BY <2>2, MaxLenIs, LenInside
  <2> HIDE DEF lv
  <2>4. CASE rank = -1
    <3>1. Plant("PosSlot", LenState(len'), 0, SlotBits) /\ token' = token /\ SlotBits \in Nat \ {0}
      BY <1>6, <2>4, FieldWidths DEF LenBit
    <3>2. LenState(len') \in 0 .. NumLenToPosStates - 1
      BY <2>3 DEF LenState, NumLenToPosStates
    <3>3. /\ q'.of = "PosSlot" /\ q'.x = LenState(len') /\ q'.y = 0 /\ q'.mi = 1 /\ left' = SlotBits
          /\ q' = Question(q'.of, q'.x, q'.y, q'.mi)
          /\ InTree(SlotBits)' /\ 1 \in 1 .. Pow2[SlotBits] - 1
      <4>1. q' = Question("PosSlot", LenState(len'), 0, 1) /\ left' = SlotBits
        BY <3>1 DEF Plant
      <4>2. /\ q'.of = "PosSlot" /\ q'.x = LenState(len') /\ q'.y = 0 /\ q'.mi = 1
            /\ q' = Question(q'.of, q'.x, q'.y, q'.mi)
        BY <4>1, FieldsOf
      <4> QED BY <3>1, <4>1, <4>2, NodeStart DEF InTree
    <3>4. Asked(q)'
      BY <3>2, <3>3 DEF Asked
    <3>5. QuestionInv'
      <4>1. q'.of \in Kinds /\ q'.mi \in Nat
        BY <3>3 DEF Kinds
      <4> QED BY <1>1, <3>3, <3>4, <4>1, Legal
    <3>6. TreeInv'
      BY <3>3 DEF TreeInv
    <3>7. RegistersInv' /\ TokenInv'
      BY <1>1, <2>2, <3>1, <3>3 DEF RegistersInv, TokenInv
    <3> QED BY <1>2, <3>5, <3>6, <3>7
  <2>5. CASE rank # -1
    <3>1. Done([kind |-> "rep", rank |-> rank, len |-> len' + MinLen]) /\ left' = 0
      BY <1>6, <2>5 DEF LenBit
    <3>2. QuestionInv' /\ TreeInv' /\ token' = [kind |-> "rep", rank |-> rank, len |-> len' + MinLen]
      BY <3>1, Ended
    <3>3. RegistersInv' /\ TokenInv'
      BY <1>1, <2>2, <2>3, <3>1, <3>2 DEF RegistersInv, TokenInv
    <3> QED BY <1>2, <3>2, <3>3
  <2> QED BY <2>4, <2>5
<1> QED BY <1>4, <1>5, <1>6

\* One way or the other the distance stays below Wrap.
LEMMA FoundKeeps ==
  ASSUME NEW r \in Nat, SettingOK, RegistersInv, at' = at, Found(r), left' \in Int, off' \in Nat,
         match' = match, rank' = rank, len' = len
  PROVE  BitsInv'
<1>1. SettingOK'
  BY SettingKeeps
<1>2. rep0' = (r + 1) % Wrap /\ Done([kind |-> "match", distance |-> rep0', len |-> len + MinLen])
  BY DEF Found
<1>3. rep0' \in 0 .. Wrap - 1
  BY <1>2, InWrap
<1>4. /\ QuestionInv' /\ TreeInv'
      /\ token' = [kind |-> "match", distance |-> rep0', len |-> len + MinLen]
  <2>1. ASSUME NEW d, Done([kind |-> "match", distance |-> d, len |-> len + MinLen])
        PROVE  /\ QuestionInv' /\ TreeInv'
               /\ token' = [kind |-> "match", distance |-> d, len |-> len + MinLen]
    BY <2>1, Ended
  <2> QED BY <1>2, <2>1
<1>5. len + MinLen \in MinLen .. MaxLen
  BY LenInside DEF RegistersInv
<1>6. TokenInv'
  BY <1>4, <1>5 DEF TokenInv
<1>7. RegistersInv'
  BY <1>3 DEF RegistersInv
<1> QED BY <1>1, <1>4, <1>6, <1>7 DEF BitsInv

\* The slots, and what follows them.
LEMMA SlotFacts ==
  ASSUME NEW slot \in 0 .. Pow2[SlotBits] - 1
  PROVE  /\ slot \in Nat /\ Wrap \in Nat /\ Pow2[0] = 1
         /\ slot >= StartPosModelIndex =>
              /\ Follow(slot) \in Nat \ {0} /\ SlotBase(slot) \in Nat /\ SlotBase(slot) < Wrap
              /\ 2 + (slot % 2) \in 0 .. Wrap - 1
         /\ slot >= EndPosModelIndex => Follow(slot) - AlignBits \in Nat \ {0}
<1>1. Pow2[SlotBits] \in Nat /\ Wrap \in Nat /\ Pow2[0] = 1
  BY Sizes, WrapIs, Pow2Is
<1>2. slot \in Nat /\ slot < Pow2[SlotBits]
  BY <1>1
<1>3. ASSUME slot >= StartPosModelIndex
      PROVE  /\ Follow(slot) \in Nat \ {0} /\ SlotBase(slot) \in Nat /\ SlotBase(slot) < Wrap
             /\ 2 + (slot % 2) \in 0 .. Wrap - 1
  <2>1. /\ Follow(slot) \in Nat \ {0} /\ Pow2[Follow(slot)] \in Nat \ {0} /\ SlotBase(slot) \in Nat \ {0}
        /\ SlotBase(slot) + Pow2[Follow(slot)] <= Wrap
    <3>1. StartPosModelIndex <= slot
      BY <1>2, <1>3 DEF StartPosModelIndex
    <3> QED BY <1>2, <3>1, SlotNext, SlotsEnd
  <2>2. 4 < Wrap
    <3>1. 4 \in Nat /\ StartPosModelIndex <= 4 /\ 4 < Pow2[SlotBits]
      <4>1. EndPosModelIndex \in Nat /\ EndPosModelIndex <= Pow2[SlotBits] /\ Follow(EndPosModelIndex) > AlignBits
            /\ AlignBits \in Nat \ {0}
        BY FieldWidths
      <4>2. 4 < EndPosModelIndex
        BY <4>1 DEF Follow
      <4> QED BY <1>1, <4>1, <4>2 DEF StartPosModelIndex
    <3>2. SlotBase(4) + Pow2[Follow(4)] <= Wrap /\ Pow2[Follow(4)] \in Nat \ {0} /\ SlotBase(4) = 4
      BY <3>1, SlotNext, SlotsEnd, FirstSlot
    <3> QED BY <1>1, <3>2
  <2>3. slot % 2 \in 0 .. 1
    BY <1>2
  <2> QED BY <1>1, <2>1, <2>2, <2>3
<1>4. ASSUME slot >= EndPosModelIndex PROVE Follow(slot) - AlignBits \in Nat \ {0}
  <2>1. EndPosModelIndex \in Nat /\ Follow(EndPosModelIndex) > AlignBits /\ AlignBits \in Nat
    BY FieldWidths
  <2>2. slot \div 2 >= EndPosModelIndex \div 2
    BY <1>2, <1>4, <2>1
  <2> QED BY <1>2, <2>1, <2>2 DEF Follow
<1> QED BY <1>1, <1>2, <1>3, <1>4

LEMMA SlotKeeps == ASSUME BitsInv, NEW b \in 0 .. 1, SlotBit(b) PROVE BitsInv'
<1> USE DEF BitsInv
<1>1. at' = at /\ match' = match /\ rank' = rank /\ len' = len /\ q.of = "PosSlot"
  BY DEF SlotBit, Asking
<1>2. SettingOK'
  BY <1>1, SettingKeeps
<1>3. /\ q.mi \in Nat /\ Asked(q) /\ left \in Int /\ off \in Nat /\ InTree(SlotBits) /\ left \in Nat
      /\ SlotBits \in Nat \ {0}
  <2>1. InTree(SlotBits)
    BY <1>1 DEF TreeInv
  <2> QED BY <1>1, <2>1, FieldWidths DEF QuestionInv, RegistersInv, Kinds, InTree, InNode
<1>4. CASE left > 1
  <2>1. Climb(b) /\ off' = off /\ rep0' = rep0 /\ token' = token
    BY <1>4 DEF SlotBit
  <2>2. /\ q'.of = q.of /\ q'.x = q.x /\ q'.y = q.y /\ left' = left - 1
        /\ q' = Question(q'.of, q'.x, q'.y, q'.mi)
        /\ InTree(SlotBits)' /\ q'.mi \in 1 .. Pow2[SlotBits] - 1
    BY <1>3, <1>4, <2>1, Climbed
  <2>3. Asked(q)'
    BY <1>1, <1>3, <2>2 DEF Asked
  <2>4. QuestionInv'
    <3>1. q'.of \in Kinds /\ q'.mi \in Nat
      BY <1>1, <2>2, Sizes DEF Kinds
    <3> QED BY <1>1, <2>2, <2>3, <3>1, Legal
  <2>5. TreeInv'
    BY <1>1, <2>2 DEF TreeInv
  <2>6. RegistersInv' /\ TokenInv'
    BY <1>1, <1>3, <2>1, <2>2 DEF RegistersInv, TokenInv
  <2> QED BY <1>2, <2>4, <2>5, <2>6
<1>5. CASE ~ (left > 1)
  <2> DEFINE slot == TreeValue(b)
  <2>1. slot \in 0 .. Pow2[SlotBits] - 1
    <3>1. TreeValue(b) = 2 * q.mi + b - Pow2[SlotBits]
      BY <1>1 DEF TreeValue, LevelsOf
    <3>2. InNode(q.mi, SlotBits, left)
      BY <1>3 DEF InTree
    <3> QED BY <1>3, <1>5, <3>1, <3>2, NodeLeaf
  <2>2. \/ /\ slot < StartPosModelIndex
           /\ Found(slot) /\ left' = 0 /\ off' = off
        \/ /\ slot \in StartPosModelIndex .. EndPosModelIndex - 1
           /\ rep0' = SlotBase(slot) /\ off' = 1
           /\ Plant("SpecPos", slot, 0, NumDirectBits(slot)) /\ token' = token
        \/ /\ slot >= EndPosModelIndex
           /\ rep0' = 2 + (slot % 2) /\ off' = 1
           /\ Plant("Direct", slot, 0, NumDirectBits(slot) - AlignBits) /\ token' = token
    BY <1>5 DEF SlotBit
  <2>3. NumDirectBits(slot) = Follow(slot)
    BY DEF NumDirectBits, Follow
  <2> HIDE DEF slot
  <2>4. /\ slot \in Nat /\ Wrap \in Nat /\ Pow2[0] = 1
        /\ slot >= StartPosModelIndex =>
             /\ Follow(slot) \in Nat \ {0} /\ SlotBase(slot) \in Nat /\ SlotBase(slot) < Wrap
             /\ 2 + (slot % 2) \in 0 .. Wrap - 1
        /\ slot >= EndPosModelIndex => Follow(slot) - AlignBits \in Nat \ {0}
    BY <2>1, SlotFacts
  <2>5. CASE slot < StartPosModelIndex
    <3>1. Found(slot) /\ left' = 0 /\ off' = off
      BY <2>2, <2>4, <2>5, FieldWidths DEF StartPosModelIndex
    <3> QED BY <1>1, <1>3, <2>4, <3>1, FoundKeeps
  <2>6. CASE slot \in StartPosModelIndex .. EndPosModelIndex - 1
    <3> DEFINE lv == Follow(slot)
    <3>1. rep0' = SlotBase(slot) /\ off' = 1 /\ Plant("SpecPos", slot, 0, lv) /\ token' = token
      BY <2>2, <2>3, <2>4, <2>6, FieldWidths DEF StartPosModelIndex
    <3>2. lv \in Nat \ {0} /\ SlotBase(slot) \in Nat /\ SlotBase(slot) < Wrap
      BY <2>4, <2>6 DEF StartPosModelIndex
    <3>3. /\ q'.of = "SpecPos" /\ q'.x = slot /\ q'.y = 0 /\ q'.mi = 1 /\ left' = lv
          /\ q' = Question(q'.of, q'.x, q'.y, q'.mi)
          /\ InNode(q'.mi, lv, left') /\ 1 \in 1 .. Pow2[lv] - 1
      <4> HIDE DEF lv
      <4>1. q' = Question("SpecPos", slot, 0, 1) /\ left' = lv
        BY <3>1 DEF Plant
      <4>2. /\ q'.of = "SpecPos" /\ q'.x = slot /\ q'.y = 0 /\ q'.mi = 1
            /\ q' = Question(q'.of, q'.x, q'.y, q'.mi)
        BY <4>1, FieldsOf
      <4> QED BY <3>2, <4>1, <4>2, NodeStart
    <3>4. Asked(q)'
      BY <2>6, <3>3 DEF Asked
    <3>5. QuestionInv'
      <4>1. q'.of \in Kinds /\ q'.mi \in Nat
        BY <3>3 DEF Kinds
      <4> QED BY <1>1, <3>3, <3>4, <4>1, Legal
    <3>6. TreeInv'
      <4>1. Follow(q'.x) = lv /\ SlotBase(q'.x) = SlotBase(slot)
        BY <3>3
      <4> HIDE DEF lv
      <4>2. lv - left' = 0
        BY <3>2, <3>3
      <4>3. off' = Pow2[lv - left'] /\ rep0' < SlotBase(slot) + off'
        BY <2>4, <3>1, <3>2, <4>2
      <4>4. /\ InTree(Follow(q.x))' /\ off' = Pow2[Follow(q'.x) - left'] /\ rep0' < SlotBase(q'.x) + off'
        BY <3>3, <4>1, <4>3 DEF InTree
      <4> QED BY <3>3, <4>4 DEF TreeInv
    <3>7. RegistersInv' /\ TokenInv'
      <4> HIDE DEF lv
      <4> QED BY <1>1, <2>4, <3>1, <3>2, <3>3 DEF RegistersInv, TokenInv
    <3> QED BY <1>2, <3>5, <3>6, <3>7
  <2>7. CASE slot >= EndPosModelIndex
    <3> DEFINE lv == Follow(slot) - AlignBits
    <3>1. rep0' = 2 + (slot % 2) /\ off' = 1 /\ Plant("Direct", slot, 0, lv) /\ token' = token
      BY <2>2, <2>3, <2>4, <2>7, FieldWidths DEF StartPosModelIndex
    <3>2. lv \in Nat \ {0} /\ 2 + (slot % 2) \in 0 .. Wrap - 1
      <4>1. slot >= StartPosModelIndex
        BY <2>4, <2>7, FieldWidths DEF StartPosModelIndex
      <4> QED BY <2>4, <2>7, <4>1
    <3> HIDE DEF lv
    <3>3. /\ q'.of = "Direct" /\ q'.x = slot /\ q'.y = 0 /\ q'.mi = 1 /\ left' = lv
          /\ q' = Question(q'.of, q'.x, q'.y, q'.mi)
      <4>1. q' = Question("Direct", slot, 0, 1) /\ left' = lv
        BY <3>1 DEF Plant
      <4> QED BY <4>1, FieldsOf
    <3>4. QuestionInv'
      BY <3>3 DEF QuestionInv, Kinds
    <3>5. TreeInv'
      BY <2>4, <3>1, <3>2, <3>3 DEF TreeInv
    <3>6. RegistersInv' /\ TokenInv'
      BY <1>1, <3>1, <3>2, <3>3 DEF RegistersInv, TokenInv
    <3> QED BY <1>2, <3>4, <3>5, <3>6
  <2>8. slot < StartPosModelIndex \/ slot \in StartPosModelIndex .. EndPosModelIndex - 1 \/ slot >= EndPosModelIndex
    BY <2>4, FieldWidths DEF StartPosModelIndex
  <2> QED BY <2>5, <2>6, <2>7, <2>8
<1> QED BY <1>3, <1>4, <1>5

LEMMA Remainder ==
  ASSUME NEW x \in Nat, NEW d \in Nat \ {0}
  PROVE  x \div d \in Nat /\ x % d \in Nat /\ x % d < d /\ x = d * (x \div d) + (x % d)
  BY SMT

\* A multiple of a reduced by a multiple of a is one still, with room for what
\* the aligned bits add.
LEMMA Multiples ==
  ASSUME NEW a \in Nat \ {0}, NEW w \in Nat \ {0}, NEW c \in Nat, w = c * a, NEW x \in Nat
  PROVE  \E m \in 0 .. w : (x * a) % w = m * a /\ m * a + a <= w
<1> DEFINE y == x * a
           k == y \div w
           m == x - c * k
<1>1. y \in Nat
  OBVIOUS
<1>2. k \in Nat /\ y % w \in Nat /\ y % w < w /\ y = w * k + (y % w)
  <2> HIDE DEF y
  <2> QED BY <1>1, Remainder
<1>3. y - w * k = m * a
  <2>1. k \in Nat
    BY <1>2
  <2> HIDE DEF k
  <2>2. w * k = (c * k) * a /\ (x - c * k) * a = x * a - (c * k) * a
    BY <2>1
  <2> QED BY <2>2
<1>4. y % w = m * a
  <2>1. w * k \in Nat
    BY <1>2
  <2> DEFINE r == y % w
             z == w * k
             n == m * a
  <2>2. y = z + r /\ y - z = n /\ r \in Nat /\ z \in Nat /\ y \in Nat
    BY <1>1, <1>2, <1>3, <2>1
  <2> HIDE DEF r, z, n, y
  <2>3. r = n
    BY <2>2
  <2> QED BY <2>3 DEF r, n
<1>5. m \in Int /\ m * a \in Nat /\ m * a < w
  <2>1. m \in Int
    <3>1. k \in Nat
      BY <1>2
    <3> HIDE DEF k
    <3> QED BY <3>1
  <2> HIDE DEF m, k, y
  <2> QED BY <1>2, <1>4, <2>1
<1> HIDE DEF m
<1>6. 0 <= m
  <2> SUFFICES ASSUME m < 0 PROVE FALSE
    BY <1>5
  <2>1. m + 1 <= 0 /\ (m + 1) * a = m * a + a
    BY <1>5
  <2>2. (m + 1) * a <= 0
    BY <1>5, <2>1
  <2> QED BY <1>5, <2>1, <2>2
<1>7. m < c
  <2> SUFFICES ASSUME c <= m PROVE FALSE
    BY <1>5
  <2>1. c * a <= m * a
    BY <1>5, <1>6
  <2> QED BY <1>5, <2>1
<1>8. (m + 1) * a <= c * a /\ (m + 1) * a = m * a + a
  BY <1>5, <1>6, <1>7
<1>9. c <= w
  BY c * 1 <= c * a
<1>10. m \in 0 .. w /\ m * a + a <= w
  BY <1>5, <1>6, <1>7, <1>8, <1>9
<1> QED BY <1>4, <1>10

LEMMA DirectKeeps == ASSUME BitsInv, NEW b \in 0 .. 1, DirectBit(b) PROVE BitsInv'
<1> USE DEF BitsInv
<1>1. /\ at' = at /\ match' = match /\ off' = off /\ rank' = rank /\ len' = len /\ token' = token
      /\ q.of = "Direct"
  BY DEF DirectBit, Asking
<1>2. SettingOK' /\ TokenInv'
  BY <1>1, SettingKeeps DEF TokenInv
<1>3. /\ left \in Nat \ {0} /\ q.x \in Nat /\ q.y = 0 /\ off = 1 /\ rep0 \in Nat
      /\ Wrap \in Nat \ {0} /\ Pow2[AlignBits] \in Nat \ {0} /\ AlignBits \in Nat \ {0}
  <2>1. Wrap \in Nat \ {0} /\ Pow2[AlignBits] \in Nat \ {0} /\ AlignBits \in Nat \ {0}
    BY WrapIs, FieldWidths
  <2> QED BY <1>1, <2>1 DEF TreeInv, RegistersInv
<1> DEFINE x == 2 * rep0 + b
<1>4. x \in Nat /\ x * Pow2[AlignBits] \in Nat
  <2>1. x \in Nat
    BY <1>3
  <2> HIDE DEF x
  <2> QED BY <1>3, <2>1
<1>5. CASE left > 1
  <2>1. rep0' = x % Wrap /\ left' = left - 1 /\ q' = q
    BY <1>5 DEF DirectBit
  <2> HIDE DEF x
  <2>2. rep0' \in 0 .. Wrap - 1
    BY <1>4, <2>1, InWrap
  <2>3. QuestionInv'
    BY <1>1, <2>1 DEF QuestionInv, Kinds
  <2>4. TreeInv'
    BY <1>1, <1>3, <1>5, <2>1 DEF TreeInv
  <2>5. RegistersInv'
    BY <1>1, <2>1, <2>2 DEF RegistersInv
  <2> QED BY <1>2, <2>3, <2>4, <2>5
<1>6. CASE ~ (left > 1)
  <2>1. rep0' = (x * Pow2[AlignBits]) % Wrap /\ Plant("Align", q.x, 0, AlignBits)
    BY <1>6 DEF DirectBit
  <2> HIDE DEF x
  <2>2. rep0' \in 0 .. Wrap - 1
    BY <1>4, <2>1, InWrap
  <2>3. PICK m \in 0 .. Wrap : rep0' = m * Pow2[AlignBits] /\ m * Pow2[AlignBits] + Pow2[AlignBits] <= Wrap
    <3>1. PICK c \in Nat : Wrap = c * Pow2[AlignBits]
      BY WrapIs
    <3> DEFINE a == Pow2[AlignBits]
               w == Wrap
    <3>2. a \in Nat \ {0} /\ w \in Nat \ {0} /\ w = c * a
      BY <1>3, <3>1
    <3> HIDE DEF a, w
    <3>3. \E m \in 0 .. w : (x * a) % w = m * a /\ m * a + a <= w
      BY <1>4, <3>2, Multiples
    <3> QED BY <2>1, <3>3 DEF a, w
  <2>4. /\ q'.of = "Align" /\ q'.x = q.x /\ q'.y = 0 /\ q'.mi = 1 /\ left' = AlignBits
        /\ q' = Question(q'.of, q'.x, q'.y, q'.mi)
        /\ InTree(AlignBits)' /\ 1 \in 1 .. Pow2[AlignBits] - 1
    <3>1. q' = Question("Align", q.x, 0, 1) /\ left' = AlignBits
      BY <2>1 DEF Plant
    <3>2. /\ q'.of = "Align" /\ q'.x = q.x /\ q'.y = 0 /\ q'.mi = 1
          /\ q' = Question(q'.of, q'.x, q'.y, q'.mi)
      BY <3>1, FieldsOf
    <3> QED BY <1>3, <3>1, <3>2, NodeStart DEF InTree
  <2>5. Asked(q)'
    BY <1>3, <2>4 DEF Asked
  <2>6. QuestionInv'
    <3>1. q'.of \in Kinds /\ q'.mi \in Nat
      BY <2>4 DEF Kinds
    <3> QED BY <1>1, <2>4, <2>5, <3>1, Legal
  <2>7. TreeInv'
    <3> DEFINE start == m * Pow2[AlignBits]
    <3>1. AlignBits - left' = 0 /\ Pow2[0] = 1
      BY <1>3, <2>4, Pow2Is
    <3>2. off' = Pow2[AlignBits - left']
      BY <1>1, <1>3, <3>1
    <3>3. start \in Nat
      BY <1>3
    <3>4. start <= rep0' /\ rep0' < start + off'
      <4>1. rep0' = start /\ off' = 1
        BY <1>1, <1>3, <2>3
      <4> HIDE DEF start
      <4> QED BY <3>3, <4>1
    <3>5. \E n \in 0 .. Wrap :
            /\ n * Pow2[AlignBits] <= rep0' /\ rep0' < n * Pow2[AlignBits] + off'
            /\ n * Pow2[AlignBits] + Pow2[AlignBits] <= Wrap
      BY <2>3, <3>4
    <3> QED BY <2>4, <3>2, <3>5 DEF TreeInv, Wrap
  <2>8. RegistersInv'
    BY <1>1, <1>3, <2>2, <2>4 DEF RegistersInv
  <2> QED BY <1>2, <2>6, <2>7, <2>8
<1> QED BY <1>3, <1>5, <1>6

\* The weight of the next of the low bits, and what is still to come.
LEMMA Weights ==
  ASSUME NEW lv \in Nat \ {0}, NEW l \in Nat, l > 1, l <= lv
  PROVE  /\ Pow2[lv - l] \in Nat \ {0} /\ 2 * Pow2[lv - l] = Pow2[lv - (l - 1)]
         /\ 2 * Pow2[lv - l] <= Pow2[lv] /\ Pow2[lv] \in Nat
<1> DEFINE n == lv - l
<1>1. n \in Nat /\ n + 1 = lv - (l - 1) /\ n + 1 < lv /\ n + 1 \in Nat
  OBVIOUS
<1> HIDE DEF n
<1>2. Pow2[n] \in Nat \ {0} /\ Pow2[n + 1] = 2 * Pow2[n] /\ Pow2[n + 1] < Pow2[lv] /\ Pow2[lv] \in Nat
  BY <1>1, Pow2Step, Pow2Grows
<1>3. Pow2[lv - l] = Pow2[n]
  BY DEF n
<1>4. 2 * Pow2[lv - l] = Pow2[lv - (l - 1)]
  BY <1>1, <1>2, <1>3
<1>5. 2 * Pow2[lv - l] <= Pow2[lv]
  BY <1>2, <1>3
<1> QED BY <1>2, <1>3, <1>4, <1>5

\* The sum grows by no more than the weight of its new bit.
LEMMA Adding ==
  ASSUME NEW r \in Nat, NEW start \in Nat, NEW o \in Nat \ {0}, NEW b \in 0 .. 1, r < start + o
  PROVE  r + b * o \in Nat /\ r <= r + b * o /\ r + b * o < start + 2 * o
<1>1. b * o = 0 \/ b * o = o
  <2>1. b = 0 \/ b = 1
    OBVIOUS
  <2> QED BY <2>1
<1> QED BY <1>1

LEMMA LowKeeps == ASSUME BitsInv, NEW b \in 0 .. 1, LowBit(b) PROVE BitsInv'
<1> USE DEF BitsInv
<1>1. /\ at' = at /\ match' = match /\ rank' = rank /\ len' = len /\ off' = 2 * off
      /\ q.of \in {"SpecPos", "Align"}
  BY DEF LowBit
<1>2. SettingOK'
  BY <1>1, SettingKeeps
<1>3. /\ q.mi \in Nat /\ Asked(q) /\ left \in Int /\ off \in Nat /\ rep0 \in Nat
      /\ Wrap \in Nat \ {0} /\ Pow2[AlignBits] \in Nat \ {0} /\ AlignBits \in Nat \ {0}
  <2>1. Wrap \in Nat \ {0} /\ Pow2[AlignBits] \in Nat \ {0} /\ AlignBits \in Nat \ {0}
    BY WrapIs, FieldWidths
  <2> QED BY <1>1, <2>1 DEF QuestionInv, RegistersInv, Kinds
<1>4. CASE ~ (left > 1)
  <2>1. Found(rep0 + b * off) /\ left' = 0
    BY <1>4 DEF LowBit
  <2>2. rep0 + b * off \in Nat /\ 2 * off \in Nat
    <3>1. b = 0 \/ b = 1
      OBVIOUS
    <3> QED BY <1>3, <3>1
  <2> QED BY <1>1, <2>1, <2>2, FoundKeeps
<1>5. CASE left > 1
  <2>1. Climb(b) /\ rep0' = rep0 + b * off /\ token' = token
    BY <1>5 DEF LowBit
  <2>2. TokenInv'
    BY <2>1 DEF TokenInv
  <2>3. CASE q.of = "SpecPos"
    <3> DEFINE lv == Follow(q.x)
               start == SlotBase(q.x)
    <3>1. /\ q.x \in StartPosModelIndex .. EndPosModelIndex - 1 /\ q.y = 0
          /\ InTree(lv) /\ off = Pow2[lv - left] /\ rep0 < start + off
      BY <1>3, <2>3 DEF Asked, TreeInv
    <3>2. lv \in Nat \ {0} /\ start \in Nat \ {0} /\ start + Pow2[lv] <= Wrap
      <4>1. q.x \in Nat /\ StartPosModelIndex <= q.x /\ q.x < Pow2[SlotBits]
        <5>1. EndPosModelIndex <= Pow2[SlotBits] /\ EndPosModelIndex \in Nat /\ Pow2[SlotBits] \in Nat
          BY FieldWidths, Sizes
        <5> QED BY <3>1, <5>1 DEF StartPosModelIndex
      <4> QED BY <4>1, SlotNext, SlotsEnd
    <3>3. /\ q'.of = q.of /\ q'.x = q.x /\ q'.y = q.y /\ left' = left - 1
          /\ q' = Question(q'.of, q'.x, q'.y, q'.mi)
          /\ InNode(q'.mi, lv, left') /\ q'.mi \in 1 .. Pow2[lv] - 1
      <4>1. q = Question(q.of, q.x, q.y, q.mi)
        BY DEF QuestionInv
      <4>2. q' = [q EXCEPT !.mi = 2 * q.mi + b] /\ left' = left - 1
        BY <2>1 DEF Climb
      <4>3. q' = Question(q.of, q.x, q.y, 2 * q.mi + b)
        BY <4>1, <4>2 DEF Question
      <4>4. /\ q'.of = q.of /\ q'.x = q.x /\ q'.y = q.y /\ q'.mi = 2 * q.mi + b
            /\ q' = Question(q'.of, q'.x, q'.y, q'.mi)
        BY <4>3, FieldsOf
      <4>5. InNode(q.mi, lv, left) /\ left \in Nat
        BY <1>3, <1>5, <3>1 DEF InTree
      <4> HIDE DEF lv
      <4>6. InNode(2 * q.mi + b, lv, left - 1) /\ 2 * q.mi + b \in 1 .. Pow2[lv] - 1
        BY <1>3, <1>5, <3>2, <4>5, NodeStep
      <4> QED BY <4>2, <4>4, <4>6
    <3>4. left \in Nat /\ left <= lv
      BY <1>3, <1>5, <3>1 DEF InTree, InNode
    <3>5. lv' = lv /\ start' = start
      BY <3>3
    <3>6. /\ off \in Nat \ {0} /\ 2 * off = Pow2[lv - (left - 1)] /\ 2 * off <= Pow2[lv]
          /\ Pow2[lv] \in Nat
      <4> HIDE DEF lv
      <4>1. /\ Pow2[lv - left] \in Nat \ {0} /\ 2 * Pow2[lv - left] = Pow2[lv - (left - 1)]
            /\ 2 * Pow2[lv - left] <= Pow2[lv] /\ Pow2[lv] \in Nat
        BY <1>5, <3>2, <3>4, Weights
      <4> QED BY <3>1, <4>1
    <3>7. rep0 + b * off \in Nat /\ rep0 + b * off < start + 2 * off
      <4> HIDE DEF start, lv
      <4> QED BY <1>3, <3>1, <3>2, <3>6, Adding
    <3>8. rep0' < start + off' /\ off' = Pow2[lv - left'] /\ rep0' \in 0 .. Wrap - 1
      <4> HIDE DEF start, lv
      <4>1. rep0' \in Nat /\ rep0' < start + 2 * off
        BY <2>1, <3>7
      <4>2. rep0' < Wrap
        BY <1>3, <3>2, <3>6, <4>1
      <4> QED BY <1>1, <1>3, <3>3, <3>6, <4>1, <4>2
    <3>9. Asked(q)'
      BY <1>1, <2>3, <3>1, <3>3 DEF Asked
    <3>10. QuestionInv'
      <4>1. q'.of \in Kinds /\ q'.mi \in Nat
        BY <2>3, <3>3, <3>6 DEF Kinds
      <4> QED BY <1>1, <3>3, <3>9, <4>1, Legal
    <3>11. TreeInv'
      <4>1. /\ q'.of = "SpecPos" /\ InTree(Follow(q.x))' /\ off' = Pow2[Follow(q'.x) - left']
            /\ rep0' < SlotBase(q'.x) + off'
        BY <2>3, <3>3, <3>5, <3>8 DEF InTree
      <4> QED BY <4>1 DEF TreeInv
    <3>12. RegistersInv'
      BY <1>1, <1>3, <3>3, <3>8 DEF RegistersInv
    <3> QED BY <1>2, <2>2, <3>10, <3>11, <3>12
  <2>4. CASE q.of = "Align"
    <3> DEFINE lv == AlignBits
    <3>1. q.x \in Nat /\ q.y = 0 /\ InTree(lv) /\ off = Pow2[lv - left]
      BY <1>3, <2>4 DEF Asked, TreeInv
    <3>2. PICK m \in 0 .. Wrap :
            /\ m * Pow2[lv] <= rep0 /\ rep0 < m * Pow2[lv] + off /\ m * Pow2[lv] + Pow2[lv] <= Wrap
      BY <2>4 DEF TreeInv
    <3>3. /\ q'.of = q.of /\ q'.x = q.x /\ q'.y = q.y /\ left' = left - 1
          /\ q' = Question(q'.of, q'.x, q'.y, q'.mi)
          /\ InTree(lv)' /\ q'.mi \in 1 .. Pow2[lv] - 1
      BY <1>3, <1>5, <2>1, <3>1, Climbed
    <3>4. left \in Nat /\ left <= lv
      BY <1>3, <1>5, <3>1 DEF InTree, InNode
    <3>5. off \in Nat \ {0} /\ 2 * off = Pow2[lv - (left - 1)] /\ 2 * off <= Pow2[lv]
      <4>1. /\ Pow2[lv - left] \in Nat \ {0} /\ 2 * Pow2[lv - left] = Pow2[lv - (left - 1)]
            /\ 2 * Pow2[lv - left] <= Pow2[lv] /\ Pow2[lv] \in Nat
        BY <1>3, <1>5, <3>4, Weights
      <4> QED BY <3>1, <4>1
    <3> DEFINE start == m * Pow2[lv]
    <3>6. start \in Nat
      BY <1>3
    <3>7. start <= rep0 /\ rep0 < start + off /\ start + Pow2[lv] <= Wrap
      BY <3>2
    <3>8. rep0' \in Nat /\ start <= rep0' /\ rep0' < start + off'
      <4> HIDE DEF start
      <4>1. rep0 + b * off \in Nat /\ rep0 <= rep0 + b * off /\ rep0 + b * off < start + 2 * off
        BY <1>3, <3>5, <3>6, <3>7, Adding
      <4>2. rep0' \in Nat /\ rep0 <= rep0' /\ rep0' < start + 2 * off
        BY <2>1, <4>1
      <4> QED BY <1>1, <1>3, <3>6, <3>7, <4>2
    <3>9. rep0' \in 0 .. Wrap - 1
      <4> HIDE DEF start
      <4> QED BY <1>1, <1>3, <3>5, <3>6, <3>7, <3>8
    <3>10. off' = Pow2[lv - left']
      BY <1>1, <3>3, <3>5
    <3>11. Asked(q)'
      BY <1>1, <2>4, <3>1, <3>3 DEF Asked
    <3>12. QuestionInv'
      <4>1. q'.of \in Kinds /\ q'.mi \in Nat
        BY <1>3, <2>4, <3>3 DEF Kinds
      <4> QED BY <1>1, <3>3, <3>11, <4>1, Legal
    <3>13. TreeInv'
      <4>1. \E n \in 0 .. Wrap :
              /\ n * Pow2[AlignBits] <= rep0' /\ rep0' < n * Pow2[AlignBits] + off'
              /\ n * Pow2[AlignBits] + Pow2[AlignBits] <= Wrap
        BY <3>2, <3>7, <3>8
      <4>2. q'.of = "Align" /\ InTree(AlignBits)' /\ off' = Pow2[AlignBits - left']
        BY <2>4, <3>3, <3>10
      <4> QED BY <4>1, <4>2 DEF TreeInv, Wrap
    <3>14. RegistersInv'
      BY <1>1, <1>3, <3>3, <3>9 DEF RegistersInv
    <3> QED BY <1>2, <2>2, <3>12, <3>13, <3>14
  <2> QED BY <1>1, <2>3, <2>4
<1> QED BY <1>3, <1>4, <1>5

-----------------------------------------------------------------------------
(* Reading symbols. *)

LEMMA BitsStart == Init => BitsInv
<1> SUFFICES ASSUME Init PROVE BitsInv
  OBVIOUS
<1>1. PICK s \in Settings, st \in 0 .. NumStates - 1 :
        at = [nowPos |-> s.nowPos, pb |-> s.pb, lp |-> s.lp, lc |-> s.lc, state |-> st]
  BY DEF Init
<1>2. SettingOK
  <2>1. {s.nowPos, s.pb, s.lp, s.lc} \subseteq Nat /\ s.pb <= PosBits /\ s.lc <= LitBits
    BY BitsAssumption
  <2> QED BY <1>1, <2>1 DEF SettingOK
<1>3. /\ q = Question("IsMatch", at.state, posState, 0)
      /\ left = 0 /\ match = 0 /\ off = 0 /\ rank = -1 /\ len = 0 /\ rep0 = 1
      /\ token = [kind |-> "none"]
  BY DEF Init
<1>4. /\ q.of = "IsMatch" /\ q.x = at.state /\ q.y = posState /\ q.mi = 0
      /\ q = Question(q.of, q.x, q.y, q.mi)
  BY <1>3, FieldsOf
<1>5. QuestionInv
  <2>1. posState \in 0 .. Pow2[PosBits] - 1
    BY <1>2, PosStateIn
  <2>2. Asked(q)
    BY <1>2, <1>4, <2>1 DEF Asked, SettingOK
  <2> QED BY <1>4, <2>2 DEF QuestionInv, Kinds
<1>6. TreeInv
  BY <1>4 DEF TreeInv
<1>7. RegistersInv
  <2>1. 1 \in 0 .. Wrap - 1
    <3>1. 2 + 2 \in Nat /\ 1 < Wrap /\ Wrap \in Nat
      <4>1. 4 \in 0 .. Pow2[SlotBits] - 1
        <5>1. EndPosModelIndex <= Pow2[SlotBits] /\ EndPosModelIndex \in Nat /\ Pow2[SlotBits] \in Nat
              /\ Follow(EndPosModelIndex) > AlignBits /\ AlignBits \in Nat \ {0}
          BY FieldWidths, Sizes
        <5> QED BY <5>1 DEF Follow
      <4>2. 2 + (4 % 2) \in 0 .. Wrap - 1 /\ Wrap \in Nat
        BY <4>1, SlotFacts DEF StartPosModelIndex
      <4> QED BY <4>2
    <3> QED BY <3>1
  <2>2. MaxLen - MinLen \in Nat
    BY MaxLenIs
  <2> QED BY <1>3, <2>1, <2>2 DEF RegistersInv
<1>8. TokenInv
  BY <1>3 DEF TokenInv
<1> QED BY <1>2, <1>5, <1>6, <1>7, <1>8 DEF BitsInv

LEMMA BitsKeep == BitsInv /\ [Next]_vars => BitsInv'
<1> SUFFICES ASSUME BitsInv, [Next]_vars PROVE BitsInv'
  OBVIOUS
<1>1. CASE UNCHANGED vars
  BY <1>1 DEF vars, BitsInv, SettingOK, QuestionInv, TreeInv, RegistersInv, TokenInv, Asked, InTree
<1>2. CASE Next
  <2>1. PICK b \in 0 .. 1 :
          MatchBit(b) \/ LiteralBit(b) \/ KindBit(b) \/ ChoiceBit(b) \/ LenBit(b) \/ SlotBit(b)
            \/ DirectBit(b) \/ LowBit(b)
    BY <1>2 DEF Next, Bit
  <2> QED BY <2>1, MatchKeeps, LiteralKeeps, KindKeeps, ChoiceKeeps, LenKeeps, SlotKeeps, DirectKeeps, LowKeeps
<1> QED BY <1>1, <1>2

\* The invariant holds while LzmaDecode reads a symbol.
THEOREM BitsInductive == Spec => []BitsInv
  BY BitsStart, BitsKeep, PTL DEF Spec

LEMMA BitsTyped == BitsInv => TypeOK
  BY DEF BitsInv, SettingOK, QuestionInv, RegistersInv, TokenInv, TypeOK

\* The registers of LzmaDecode keep their types: the distance stays below 2^32 as the
\* code's UInt32 does, and a match is MinLen .. MaxLen long.
THEOREM BitsTypeCorrect == Spec => []TypeOK
  BY BitsInductive, BitsTyped, PTL

LEMMA BitsOwn == BitsInv => OwnPlace
<1> SUFFICES ASSUME BitsInv, q.of \in Kinds
             PROVE  /\ Place(q) \in 0 .. NumProbs(at) - 1
                    /\ q.of # "Align" => q \in Questions
                    /\ \A r \in Questions : Place(r) = Place(q) => r = q
  BY DEF OwnPlace
<1>1. Asked(q) /\ SettingOK
  BY DEF BitsInv, QuestionInv
<1> QED BY <1>1, PlacesDiffer

\* Whatever the widths and the setting, every probability that LzmaDecode asks for lies
\* inside the table it has reset, and no two kinds of bits share one.
THEOREM PlacesOwn == Spec => []OwnPlace
  BY BitsInductive, BitsOwn, PTL

-----------------------------------------------------------------------------
(* What bits denote, taken from the front. *)

Binary == 0 .. 1

LEMMA BinaryRow ==
  ASSUME NEW s \in Seq(Binary)
  PROVE  s \in Seq(Nat) /\ Len(s) \in Nat /\ Number(s) \in Nat /\ Reverse(s) \in Seq(Binary)
<1>1. s \in Seq(Nat)
  <2>1. Binary \subseteq Nat
    BY DEF Binary
  <2> QED BY <2>1, SeqMonotonic
<1>2. Value(s, 2) \in Nat
  <2>1. 2 \in Nat
    OBVIOUS
  <2> QED BY <1>1, <2>1, ValueNatural
<1>3. Len(s) \in Nat
  OBVIOUS
<1>4. Reverse(s) \in Seq(Binary)
  BY ReverseShape
<1> QED BY <1>1, <1>2, <1>3, <1>4 DEF Number

\* What stands behind the first m bits, x, is what stood there without them.
Unmoved(x, t, m, n) ==
  /\ SubSeq(x \o t, m + 1, m + n) = SubSeq(t, 1, n)
  /\ From(x \o t, m + n + 1) = From(t, n + 1)

LEMMA RowBehind ==
  ASSUME NEW S, NEW x \in Seq(S), NEW t \in Seq(S), NEW n \in Nat, NEW m \in Nat, n <= Len(t), m = Len(x)
  PROVE  Unmoved(x, t, m, n)
<1> DEFINE c == x \o t
           l == Len(t)
<1>1. /\ c \in Seq(S) /\ Len(c) = m + l /\ l \in Nat /\ n <= l
      /\ \A k \in 1 .. m + l : c[k] = IF k <= m THEN x[k] ELSE t[k - m]
      /\ \A k \in 1 .. l : t[k] \in S
  <2>1. /\ x \o t \in Seq(S) /\ Len(x \o t) = Len(x) + Len(t)
        /\ \A k \in 1 .. Len(x) + Len(t) : (x \o t)[k] = IF k <= Len(x) THEN x[k] ELSE t[k - Len(x)]
    BY ConcatProperties
  <2>2. Len(t) \in Nat /\ \A k \in 1 .. Len(t) : t[k] \in S
    OBVIOUS
  <2> QED BY <2>1, <2>2
<1> HIDE DEF c, l
<1>2. \A k \in 1 .. l : c[m + k] = t[k] /\ c[m + k] \in S
  <2> SUFFICES ASSUME NEW k \in 1 .. l PROVE c[m + k] = t[k] /\ c[m + k] \in S
    OBVIOUS
  <2>1. m + k \in 1 .. m + l /\ ~ (m + k <= m) /\ (m + k) - m = k
    BY <1>1
  <2>2. c[m + k] = t[(m + k) - m]
    BY <1>1, <2>1
  <2> QED BY <1>1, <2>1, <2>2
<1>3. \A i, j \in Nat :
        1 <= i /\ j <= l =>
          SubSeq(c, m + i, m + j) = SubSeq(t, i, j)
  <2> SUFFICES ASSUME NEW i \in Nat, NEW j \in Nat, 1 <= i, j <= l
               PROVE  SubSeq(c, m + i, m + j) = SubSeq(t, i, j)
    OBVIOUS
  <2>1. CASE j < i
    <3>1. m + i \in Int /\ m + j \in Int /\ m + j < m + i
      BY <2>1
    <3> QED BY <2>1, <3>1, SubSeqEmpty
  <2>2. CASE i <= j
    <3>1. \A k \in i .. j : t[k] \in S
      BY <1>1
    <3>2. \A k \in m + i .. m + j : c[k] \in S
      <4> SUFFICES ASSUME NEW k \in m + i .. m + j PROVE c[k] \in S
        OBVIOUS
      <4>1. k - m \in 1 .. l /\ m + (k - m) = k
        BY <1>1
      <4> QED BY <1>2, <4>1
    <3> DEFINE d == (j - i) + 1
    <3>3. /\ SubSeq(t, i, j) \in Seq(S) /\ Len(SubSeq(t, i, j)) = d
          /\ \A k \in 1 .. d : SubSeq(t, i, j)[k] = t[(i + k) - 1]
      <4>1. i \in Int /\ j \in Int
        OBVIOUS
      <4> QED BY <2>2, <3>1, <4>1, SubSeqProperties
    <3>4. /\ SubSeq(c, m + i, m + j) \in Seq(S) /\ Len(SubSeq(c, m + i, m + j)) = d
          /\ \A k \in 1 .. d : SubSeq(c, m + i, m + j)[k] = c[((m + i) + k) - 1]
      <4>1. m + i \in Int /\ m + j \in Int /\ m + i <= m + j /\ ((m + j) - (m + i)) + 1 = d
        BY <2>2
      <4>2. /\ SubSeq(c, m + i, m + j) \in Seq(S)
            /\ Len(SubSeq(c, m + i, m + j)) = ((m + j) - (m + i)) + 1
            /\ \A k \in 1 .. ((m + j) - (m + i)) + 1 : SubSeq(c, m + i, m + j)[k] = c[((m + i) + k) - 1]
        BY <3>2, <4>1, SubSeqProperties
      <4> QED BY <4>1, <4>2
    <3>5. \A k \in 1 .. d : (i + k) - 1 \in 1 .. l /\ ((m + i) + k) - 1 = m + ((i + k) - 1)
      <4>1. l \in Nat /\ m \in Nat /\ i \in Nat /\ j \in Nat /\ 1 <= i /\ j <= l
        BY <1>1
      <4> QED BY <4>1
    <3> HIDE DEF d
    <3>6. \A k \in 1 .. d : SubSeq(c, m + i, m + j)[k] = SubSeq(t, i, j)[k]
      BY <1>2, <3>3, <3>4, <3>5
    <3> QED BY <3>3, <3>4, <3>6, SeqEqual
  <2> QED BY <2>1, <2>2
<1>4. SubSeq(c, m + 1, m + n) = SubSeq(t, 1, n)
  <2>1. 1 \in Nat /\ 1 <= 1 /\ n <= l
    BY <1>1
  <2> QED BY <1>3, <2>1
<1>5. SubSeq(c, m + n + 1, Len(c)) = SubSeq(t, n + 1, l)
  <2>1. n + 1 \in Nat /\ 1 <= n + 1 /\ l <= l /\ m + (n + 1) = m + n + 1
    BY <1>1
  <2>2. SubSeq(c, m + (n + 1), m + l) = SubSeq(t, n + 1, l)
    BY <1>1, <1>3, <2>1
  <2> QED BY <1>1, <2>1, <2>2
<1>6. From(c, m + n + 1) = SubSeq(c, m + n + 1, Len(c))
  BY DEF From
<1>7. From(t, n + 1) = SubSeq(t, n + 1, l)
  BY DEF From, l
<1>8. From(c, m + n + 1) = From(t, n + 1)
  BY <1>5, <1>6, <1>7
<1>9. c = x \o t
  BY DEF c
<1> QED BY <1>4, <1>8, <1>9 DEF Unmoved

LEMMA Whole ==
  ASSUME NEW S, NEW x \in Seq(S), NEW t \in Seq(S), NEW m \in Nat, m = Len(x)
  PROVE  From(t, 1) = t /\ From(x \o t, m + 1) = t
<1>1. From(t, 1) = t
  BY SubSeqFull DEF From
<1> DEFINE n == 0
<1>2. n \in Nat /\ n <= Len(t) /\ m + n + 1 = m + 1 /\ n + 1 = 1
  OBVIOUS
<1> HIDE DEF n
<1>3. From(x \o t, m + n + 1) = From(t, n + 1)
  <2>1. Unmoved(x, t, m, n)
    BY <1>2, RowBehind, Zenon
  <2> QED BY <2>1 DEF Unmoved
<1>4. From(x \o t, m + 1) = From(t, 1)
  BY <1>2, <1>3, Zenon
<1> QED BY <1>1, <1>4

\* The first bit of all and those behind it.
LEMMA FirstBit ==
  ASSUME NEW b \in Binary, NEW t \in Seq(Binary), NEW n \in Nat \ {0}, n - 1 <= Len(t)
  PROVE  /\ SubSeq(t, 1, n - 1) \in Seq(Binary) /\ Len(SubSeq(t, 1, n - 1)) = n - 1
         /\ SubSeq(<<b>> \o t, 1, n) = <<b>> \o SubSeq(t, 1, n - 1)
<1> DEFINE c == <<b>> \o t
           y == SubSeq(t, 1, n - 1)
           l == Len(t)
           z == <<b>> \o y
<1>1. <<b>> \in Seq(Binary) /\ Len(<<b>>) = 1 /\ <<b>>[1] = b
  OBVIOUS
<1>2. l \in Nat /\ (\A k \in 1 .. l : t[k] \in Binary) /\ n - 1 \in Nat /\ n - 1 <= l
  OBVIOUS
<1>3. y \in Seq(Binary) /\ Len(y) = n - 1 /\ \A k \in 1 .. n - 1 : y[k] = t[k]
  <2> HIDE DEF l
  <2>1. (\A k \in 1 .. n - 1 : t[k] \in Binary) /\ 1 \in Int /\ n - 1 \in Int
    BY <1>2
  <2>2. ((n - 1) - 1) + 1 = n - 1 /\ \A k \in 1 .. n - 1 : (1 + k) - 1 = k
    BY <1>2
  <2>3. /\ SubSeq(t, 1, n - 1) \in Seq(Binary)
        /\ Len(SubSeq(t, 1, n - 1)) = IF 1 <= n - 1 THEN ((n - 1) - 1) + 1 ELSE 0
        /\ \A k \in 1 .. ((n - 1) - 1) + 1 : SubSeq(t, 1, n - 1)[k] = t[(1 + k) - 1]
    BY <2>1, SubSeqProperties
  <2> QED BY <1>2, <2>2, <2>3
<1>4. /\ c \in Seq(Binary) /\ Len(c) = 1 + l
      /\ \A k \in 1 .. 1 + l : c[k] = IF k <= 1 THEN b ELSE t[k - 1]
  <2>1. /\ <<b>> \o t \in Seq(Binary) /\ Len(<<b>> \o t) = Len(<<b>>) + Len(t)
        /\ \A k \in 1 .. Len(<<b>>) + Len(t) : (<<b>> \o t)[k] = IF k <= Len(<<b>>) THEN <<b>>[k] ELSE t[k - Len(<<b>>)]
    BY <1>1, ConcatProperties
  <2> QED BY <1>1, <1>2, <2>1
<1>5. /\ z \in Seq(Binary) /\ Len(z) = n
      /\ \A k \in 1 .. n : z[k] = IF k <= 1 THEN b ELSE y[k - 1]
  <2> HIDE DEF y
  <2>1. /\ <<b>> \o y \in Seq(Binary) /\ Len(<<b>> \o y) = Len(<<b>>) + Len(y)
        /\ \A k \in 1 .. Len(<<b>>) + Len(y) : (<<b>> \o y)[k] = IF k <= Len(<<b>>) THEN <<b>>[k] ELSE y[k - Len(<<b>>)]
    BY <1>1, <1>3, ConcatProperties
  <2>2. 1 + (n - 1) = n
    OBVIOUS
  <2> QED BY <1>1, <1>3, <2>1, <2>2
<1> DEFINE f == SubSeq(c, 1, n)
<1> HIDE DEF c, y, z, l
<1>6. f \in Seq(Binary) /\ Len(f) = n /\ \A k \in 1 .. n : f[k] = c[k]
  <2>1. (\A k \in 1 .. n : c[k] \in Binary) /\ 1 \in Int /\ n \in Int
    BY <1>2, <1>4, ElementOfSeq
  <2>2. (n - 1) + 1 = n /\ \A k \in 1 .. n : (1 + k) - 1 = k
    OBVIOUS
  <2>3. /\ SubSeq(c, 1, n) \in Seq(Binary)
        /\ Len(SubSeq(c, 1, n)) = IF 1 <= n THEN (n - 1) + 1 ELSE 0
        /\ \A k \in 1 .. (n - 1) + 1 : SubSeq(c, 1, n)[k] = c[(1 + k) - 1]
    BY <2>1, SubSeqProperties
  <2> QED BY <2>2, <2>3
<1> HIDE DEF f
<1>7. \A k \in 1 .. n : f[k] = z[k]
  <2> SUFFICES ASSUME NEW k \in 1 .. n PROVE f[k] = z[k]
    OBVIOUS
  <2>1. k \in 1 .. 1 + l
    BY <1>2
  <2>2. CASE k <= 1
    BY <1>4, <1>5, <1>6, <2>1, <2>2
  <2>3. CASE ~ (k <= 1)
    <3>1. k - 1 \in 1 .. n - 1
      BY <2>3
    <3> QED BY <1>3, <1>4, <1>5, <1>6, <2>1, <2>3, <3>1
  <2> QED BY <2>2, <2>3
<1>8. f = z
  BY <1>5, <1>6, <1>7, SeqEqual
<1> QED BY <1>3, <1>8 DEF f, z, c, y

\* The first bit weighs as much as there are numbers behind it.
LEMMA NumberCons ==
  ASSUME NEW b \in Binary, NEW y \in Seq(Binary)
  PROVE  Number(<<b>> \o y) = b * Pow2[Len(y)] + Number(y)
<1> DEFINE Bad(z) == Value(<<b>> \o z, 2) # b * Pow2[Len(z)] + Value(z, 2)
           T == {k \in Nat : \E z \in Seq(Nat) : Len(z) = k /\ Bad(z)}
<1>1. y \in Seq(Nat) /\ Len(y) \in Nat /\ b \in Nat /\ 2 \in Nat
  BY BinaryRow DEF Binary
<1>2. SUFFICES ASSUME T # {} PROVE FALSE
  BY <1>1 DEF Number
<1>3. PICK k \in T : \A j \in T : k <= j
  <2>1. T \in SUBSET Nat
    OBVIOUS
  <2> QED BY <1>2, <2>1, LeastNumber
<1>4. PICK z \in Seq(Nat) : Len(z) = k /\ Bad(z)
  OBVIOUS
<1>5. z # <<>>
  <2> SUFFICES ASSUME z = <<>> PROVE FALSE
    OBVIOUS
  <2>1. <<>> \in Seq(Nat) /\ Append(<<>>, b) = <<b>> /\ Len(<<>>) = 0
    BY <1>1
  <2>2. <<b>> \o <<>> = <<b>>
    BY <1>1, ConcatEmptySeq
  <2>3. Value(Append(<<>>, b), 2) = 2 * Value(<<>>, 2) + b
    BY <1>1, <2>1, ValueAppend
  <2>4. Value(<<>>, 2) = 0 /\ Pow2[0] = 1
    BY ValueNone, Pow2Is
  <2>5. Value(<<b>>, 2) = b * Pow2[0] + Value(<<>>, 2)
    BY <1>1, <2>1, <2>3, <2>4
  <2> QED BY <1>4, <2>1, <2>2, <2>5
<1>6. PICK x \in Seq(Nat), e \in Nat : z = Append(x, e)
  BY <1>5, SequenceEmptyOrAppend
<1>7. Len(x) \in Nat /\ Len(z) = Len(x) + 1
  <2>1. Len(Append(x, e)) = Len(x) + 1 /\ Len(x) \in Nat
    BY AppendProperties
  <2> QED BY <1>6, <2>1
<1>8. Len(x) \notin T
  <2>1. ~ (k <= Len(x)) /\ k \in Nat
    BY <1>4, <1>7
  <2> HIDE DEF T
  <2> QED BY <1>3, <2>1
<1>9. Value(<<b>> \o x, 2) = b * Pow2[Len(x)] + Value(x, 2)
  BY <1>7, <1>8
<1>10. <<b>> \o z = Append(<<b>> \o x, e) /\ <<b>> \o x \in Seq(Nat)
  <2>1. <<b>> \in Seq(Nat)
    BY <1>1
  <2>2. z = x \o <<e>> /\ <<e>> \in Seq(Nat)
    BY <1>6, AppendIsConcat
  <2>3. <<b>> \o x \in Seq(Nat)
    BY <2>1, ConcatProperties
  <2>4. Append(<<b>> \o x, e) = (<<b>> \o x) \o <<e>>
    BY <2>3, AppendIsConcat
  <2>5. (<<b>> \o x) \o <<e>> = <<b>> \o (x \o <<e>>)
    BY <2>1, <2>2, SMTT(30)
  <2> QED BY <2>2, <2>3, <2>4, <2>5
<1>11. Value(<<b>> \o z, 2) = 2 * Value(<<b>> \o x, 2) + e /\ Value(z, 2) = 2 * Value(x, 2) + e
  <2>1. Value(Append(<<b>> \o x, e), 2) = 2 * Value(<<b>> \o x, 2) + e
    BY <1>1, <1>10, ValueAppend
  <2>2. Value(Append(x, e), 2) = 2 * Value(x, 2) + e
    BY <1>1, ValueAppend
  <2> QED BY <1>6, <1>10, <2>1, <2>2
<1>12. Pow2[Len(z)] = 2 * Pow2[Len(x)] /\ Pow2[Len(x)] \in Nat /\ Value(x, 2) \in Nat
  BY <1>1, <1>7, Pow2Step, ValueNatural
<1>13. 2 * (b * Pow2[Len(x)] + Value(x, 2)) + e = b * (2 * Pow2[Len(x)]) + (2 * Value(x, 2) + e)
  <2> DEFINE p == Pow2[Len(x)]
             v == Value(x, 2)
  <2>1. p \in Nat /\ v \in Nat
    BY <1>12
  <2> HIDE DEF p, v
  <2>2. b = 0 \/ b = 1
    BY DEF Binary
  <2>3. 2 * (b * p + v) + e = b * (2 * p) + (2 * v + e)
    BY <2>1, <2>2
  <2> QED BY <2>3 DEF p, v
<1> QED BY <1>4, <1>9, <1>11, <1>12, <1>13

\* Turned round, the first bit is the last.
LEMMA NumberTurned ==
  ASSUME NEW b \in Binary, NEW t \in Seq(Binary)
  PROVE  Number(Reverse(<<b>> \o t)) = 2 * Number(Reverse(t)) + b
<1>1. <<b>> \in Seq(Nat) /\ t \in Seq(Nat) /\ b \in Nat /\ 2 \in Nat /\ Reverse(<<b>>) = <<b>>
  <2>1. b \in Nat /\ 2 \in Nat
    BY DEF Binary
  <2>2. t \in Seq(Nat)
    BY BinaryRow
  <2>3. <<b>> \in Seq(Nat)
    BY <2>1
  <2>4. Reverse(<<b>>) = <<b>>
    BY <2>1, ReverseOne
  <2> QED BY <2>1, <2>2, <2>3, <2>4
<1>2. Reverse(<<b>> \o t) = Reverse(t) \o <<b>> /\ Reverse(t) \in Seq(Nat)
  BY <1>1, ReverseConcat, ReverseShape
<1>3. Reverse(t) \o <<b>> = Append(Reverse(t), b)
  BY <1>1, <1>2, AppendIsConcat
<1>4. Value(Append(Reverse(t), b), 2) = 2 * Value(Reverse(t), 2) + b
  BY <1>1, <1>2, ValueAppend
<1> QED BY <1>2, <1>3, <1>4 DEF Number

\* A match at a new distance, of which the slot is known; a match whose length is known.
NewMatch(n, slot, rest) ==
  [kind |-> "match", distance |-> (Distance(slot, rest) + 1) % Wrap, len |-> n + MinLen]
Further(r, n, rest) ==
  IF r = -1 THEN NewMatch(n, Number(SubSeq(rest, 1, SlotBits)), From(rest, SlotBits + 1))
  ELSE [kind |-> "rep", rank |-> r, len |-> n + MinLen]
LengthFor(r, s) ==
  IF s[1] = 0 THEN Further(r, Number(SubSeq(s, 2, LowBits + 1)), From(s, LowBits + 2))
  ELSE IF s[2] = 0 THEN Further(r, Pow2[LowBits] + Number(SubSeq(s, 3, MidBits + 2)), From(s, MidBits + 3))
  ELSE Further(r, Pow2[LowBits] + Pow2[MidBits] + Number(SubSeq(s, 3, HighBits + 2)), From(s, HighBits + 3))

LEMMA DenotedKinds ==
  ASSUME NEW s
  PROVE  /\ s[1] = 0 => Denoted(s) = [kind |-> "literal", byte |-> Number(Tail(s))]
         /\ s[1] # 0 /\ s[2] = 0 => Denoted(s) = LengthFor(-1, From(s, 3))
         /\ s[1] # 0 /\ s[2] # 0 /\ s[3] = 0 /\ s[4] = 0 => Denoted(s) = [kind |-> "short"]
         /\ s[1] # 0 /\ s[2] # 0 /\ s[3] = 0 /\ s[4] # 0 => Denoted(s) = LengthFor(0, From(s, 5))
         /\ s[1] # 0 /\ s[2] # 0 /\ s[3] # 0 /\ s[4] = 0 => Denoted(s) = LengthFor(1, From(s, 5))
         /\ s[1] # 0 /\ s[2] # 0 /\ s[3] # 0 /\ s[4] # 0 /\ 2 + s[5] # -1 =>
              Denoted(s) = LengthFor(2 + s[5], From(s, 6))
<1>1. 0 # -1 /\ 1 # -1
  OBVIOUS
<1> QED BY <1>1, Zenon DEF Denoted, LengthAnd, LengthFor, Further, NewMatch

\* Bits, and others behind them.
Starts(x, t, s) ==
  /\ \A k \in 1 .. Len(x) : s[k] = x[k]
  /\ From(s, Len(x) + 1) = t

LEMMA Prefix ==
  ASSUME NEW x \in Seq(Binary), NEW t \in Seq(Binary)
  PROVE  Starts(x, t, x \o t)
<1>1. \A k \in 1 .. Len(x) + Len(t) : (x \o t)[k] = IF k <= Len(x) THEN x[k] ELSE t[k - Len(x)]
  BY ConcatProperties
<1>2. \A k \in 1 .. Len(x) : k \in 1 .. Len(x) + Len(t) /\ k <= Len(x)
  <2>1. Len(t) \in Nat
    OBVIOUS
  <2> QED BY <2>1
<1>3. From(x \o t, Len(x) + 1) = t
  <2>1. Len(x) \in Nat
    OBVIOUS
  <2> QED BY <2>1, Whole, Zenon
<1> QED BY <1>1, <1>2, <1>3 DEF Starts

\* Two bits and more tell what kind of symbol it is.
LEMMA FlagsDenote ==
  ASSUME NEW t \in Seq(Binary)
  PROVE  /\ Denoted(<<0>> \o t) = [kind |-> "literal", byte |-> Number(t)]
         /\ Denoted(<<1, 0>> \o t) = LengthFor(-1, t)
         /\ Denoted(<<1, 1, 0, 0>> \o t) = [kind |-> "short"]
         /\ Denoted(<<1, 1, 0, 1>> \o t) = LengthFor(0, t)
         /\ Denoted(<<1, 1, 1, 0>> \o t) = LengthFor(1, t)
         /\ Denoted(<<1, 1, 1, 1, 0>> \o t) = LengthFor(2, t)
         /\ Denoted(<<1, 1, 1, 1, 1>> \o t) = LengthFor(3, t)
<1>1. Denoted(<<0>> \o t) = [kind |-> "literal", byte |-> Number(t)]
  <2> DEFINE x == <<0>>
             s == x \o t
  <2>1. x \in Seq(Binary) /\ Len(x) = 1 /\ x[1] = 0
    BY DEF Binary
  <2>2. Tail(s) = t
    OBVIOUS
  <2> HIDE DEF x
  <2>3. Starts(x, t, s)
    BY <2>1, Prefix, Zenon
  <2> HIDE DEF s
  <2>4. s[1] = 0 /\ From(s, 2) = t
    <3>1. s[1] = 0
      BY <2>1, <2>3 DEF Starts
    <3>2. From(s, 2) = t
      <4>1. 1 + 1 = 2
        OBVIOUS
      <4> QED BY <2>1, <2>3, <4>1 DEF Starts
    <3> QED BY <3>1, <3>2
  <2>5. Denoted(s) = [kind |-> "literal", byte |-> Number(t)]
    BY <2>2, <2>4, DenotedKinds
  <2> QED BY <2>5 DEF s, x
<1>2. Denoted(<<1, 0>> \o t) = LengthFor(-1, t)
  <2> DEFINE x == <<1, 0>>
             s == x \o t
  <2>1. x \in Seq(Binary) /\ Len(x) = 2 /\ x[1] = 1 /\ x[2] = 0
    BY DEF Binary
  <2> HIDE DEF x
  <2>3. Starts(x, t, s)
    BY <2>1, Prefix, Zenon
  <2> HIDE DEF s
  <2>4. s[1] = 1 /\ s[2] = 0 /\ From(s, 3) = t
    <3>1. s[1] = 1 /\ s[2] = 0
      BY <2>1, <2>3 DEF Starts
    <3>2. From(s, 3) = t
      <4>1. 2 + 1 = 3
        OBVIOUS
      <4> QED BY <2>1, <2>3, <4>1 DEF Starts
    <3> QED BY <3>1, <3>2
  <2>5. Denoted(s) = LengthFor(-1, t)
    BY <2>4, DenotedKinds
  <2> QED BY <2>5 DEF s, x
<1>3. Denoted(<<1, 1, 0, 0>> \o t) = [kind |-> "short"]
  <2> DEFINE x == <<1, 1, 0, 0>>
             s == x \o t
  <2>1. x \in Seq(Binary) /\ Len(x) = 4 /\ x[1] = 1 /\ x[2] = 1 /\ x[3] = 0 /\ x[4] = 0
    BY DEF Binary
  <2> HIDE DEF x
  <2>3. Starts(x, t, s)
    BY <2>1, Prefix, Zenon
  <2> HIDE DEF s
  <2>4. s[1] = 1 /\ s[2] = 1 /\ s[3] = 0 /\ s[4] = 0 /\ From(s, 5) = t
    <3>1. s[1] = 1 /\ s[2] = 1 /\ s[3] = 0 /\ s[4] = 0
      BY <2>1, <2>3 DEF Starts
    <3>2. From(s, 5) = t
      <4>1. 4 + 1 = 5
        OBVIOUS
      <4> QED BY <2>1, <2>3, <4>1 DEF Starts
    <3> QED BY <3>1, <3>2
  <2>5. Denoted(s) = [kind |-> "short"]
    BY <2>4, DenotedKinds
  <2> QED BY <2>5 DEF s, x
<1>4. Denoted(<<1, 1, 0, 1>> \o t) = LengthFor(0, t)
  <2> DEFINE x == <<1, 1, 0, 1>>
             s == x \o t
  <2>1. x \in Seq(Binary) /\ Len(x) = 4 /\ x[1] = 1 /\ x[2] = 1 /\ x[3] = 0 /\ x[4] = 1
    BY DEF Binary
  <2> HIDE DEF x
  <2>3. Starts(x, t, s)
    BY <2>1, Prefix, Zenon
  <2> HIDE DEF s
  <2>4. s[1] = 1 /\ s[2] = 1 /\ s[3] = 0 /\ s[4] = 1 /\ From(s, 5) = t
    <3>1. s[1] = 1 /\ s[2] = 1 /\ s[3] = 0 /\ s[4] = 1
      BY <2>1, <2>3 DEF Starts
    <3>2. From(s, 5) = t
      <4>1. 4 + 1 = 5
        OBVIOUS
      <4> QED BY <2>1, <2>3, <4>1 DEF Starts
    <3> QED BY <3>1, <3>2
  <2>5. Denoted(s) = LengthFor(0, t)
    BY <2>4, DenotedKinds
  <2> QED BY <2>5 DEF s, x
<1>5. Denoted(<<1, 1, 1, 0>> \o t) = LengthFor(1, t)
  <2> DEFINE x == <<1, 1, 1, 0>>
             s == x \o t
  <2>1. x \in Seq(Binary) /\ Len(x) = 4 /\ x[1] = 1 /\ x[2] = 1 /\ x[3] = 1 /\ x[4] = 0
    BY DEF Binary
  <2> HIDE DEF x
  <2>3. Starts(x, t, s)
    BY <2>1, Prefix, Zenon
  <2> HIDE DEF s
  <2>4. s[1] = 1 /\ s[2] = 1 /\ s[3] = 1 /\ s[4] = 0 /\ From(s, 5) = t
    <3>1. s[1] = 1 /\ s[2] = 1 /\ s[3] = 1 /\ s[4] = 0
      BY <2>1, <2>3 DEF Starts
    <3>2. From(s, 5) = t
      <4>1. 4 + 1 = 5
        OBVIOUS
      <4> QED BY <2>1, <2>3, <4>1 DEF Starts
    <3> QED BY <3>1, <3>2
  <2>5. Denoted(s) = LengthFor(1, t)
    BY <2>4, DenotedKinds
  <2> QED BY <2>5 DEF s, x
<1>6. Denoted(<<1, 1, 1, 1, 0>> \o t) = LengthFor(2, t)
  <2> DEFINE x == <<1, 1, 1, 1, 0>>
             s == x \o t
  <2>1. x \in Seq(Binary) /\ Len(x) = 5 /\ x[1] = 1 /\ x[2] = 1 /\ x[3] = 1 /\ x[4] = 1 /\ x[5] = 0
    BY DEF Binary
  <2> HIDE DEF x
  <2>3. Starts(x, t, s)
    BY <2>1, Prefix, Zenon
  <2> HIDE DEF s
  <2>4. s[1] = 1 /\ s[2] = 1 /\ s[3] = 1 /\ s[4] = 1 /\ s[5] = 0 /\ From(s, 6) = t
    <3>1. s[1] = 1 /\ s[2] = 1 /\ s[3] = 1 /\ s[4] = 1 /\ s[5] = 0
      BY <2>1, <2>3 DEF Starts
    <3>2. From(s, 6) = t
      <4>1. 5 + 1 = 6
        OBVIOUS
      <4> QED BY <2>1, <2>3, <4>1 DEF Starts
    <3> QED BY <3>1, <3>2
  <2>5. Denoted(s) = LengthFor(2, t)
    BY <2>4, DenotedKinds
  <2> QED BY <2>5 DEF s, x
<1>7. Denoted(<<1, 1, 1, 1, 1>> \o t) = LengthFor(3, t)
  <2> DEFINE x == <<1, 1, 1, 1, 1>>
             s == x \o t
  <2>1. x \in Seq(Binary) /\ Len(x) = 5 /\ x[1] = 1 /\ x[2] = 1 /\ x[3] = 1 /\ x[4] = 1 /\ x[5] = 1
    BY DEF Binary
  <2> HIDE DEF x
  <2>3. Starts(x, t, s)
    BY <2>1, Prefix, Zenon
  <2> HIDE DEF s
  <2>4. s[1] = 1 /\ s[2] = 1 /\ s[3] = 1 /\ s[4] = 1 /\ s[5] = 1 /\ From(s, 6) = t
    <3>1. s[1] = 1 /\ s[2] = 1 /\ s[3] = 1 /\ s[4] = 1 /\ s[5] = 1
      BY <2>1, <2>3 DEF Starts
    <3>2. From(s, 6) = t
      <4>1. 5 + 1 = 6
        OBVIOUS
      <4> QED BY <2>1, <2>3, <4>1 DEF Starts
    <3> QED BY <3>1, <3>2
  <2>5. Denoted(s) = LengthFor(3, t)
    BY <2>4, DenotedKinds
  <2> QED BY <2>5 DEF s, x
<1> QED BY <1>1, <1>2, <1>3, <1>4, <1>5, <1>6, <1>7

LEMMA OneBit == ASSUME NEW b \in Binary PROVE <<b>> \in Seq(Binary) /\ Len(<<b>>) = 1 /\ <<b>>[1] = b
  OBVIOUS

\* A bit read is the first of those that were to come.
LEMMA NextBit ==
  ASSUME NEW s \in Seq(Binary), NEW b \in Binary, NEW t \in Seq(Binary)
  PROVE  /\ <<b>> \o t \in Seq(Binary) /\ Len(<<b>> \o t) = Len(t) + 1 /\ Len(t) \in Nat
         /\ Append(s, b) \o t = s \o (<<b>> \o t) /\ Append(s, b) \in Seq(Binary)
<1> DEFINE x == <<b>>
<1>1. x \in Seq(Binary) /\ Len(x) = 1
  BY OneBit
<1>2. Append(s, b) = s \o x /\ Append(s, b) \in Seq(Binary)
  BY AppendIsConcat, AppendProperties
<1> HIDE DEF x
<1>3. x \o t \in Seq(Binary) /\ Len(x \o t) = 1 + Len(t) /\ Len(t) \in Nat
  <2>1. x \o t \in Seq(Binary) /\ Len(x \o t) = Len(x) + Len(t)
    BY <1>1, ConcatProperties
  <2>2. Len(t) \in Nat
    OBVIOUS
  <2> QED BY <1>1, <2>1, <2>2
<1>4. (s \o x) \o t = s \o (x \o t)
  BY <1>1, SMTT(30)
<1>5. 1 + Len(t) = Len(t) + 1
  BY <1>3
<1> QED BY <1>2, <1>3, <1>4, <1>5 DEF x

LEMMA TwoBits ==
  ASSUME NEW a \in Binary, NEW b \in Binary, NEW t \in Seq(Binary)
  PROVE  <<a>> \o (<<b>> \o t) = <<a, b>> \o t
<1> DEFINE x == <<a>>
           w == <<b>>
           y == <<a, b>>
<1>1. /\ x \in Seq(Binary) /\ Len(x) = 1 /\ x[1] = a
      /\ w \in Seq(Binary) /\ Len(w) = 1 /\ w[1] = b
      /\ y \in Seq(Binary) /\ Len(y) = 2 /\ y[1] = a /\ y[2] = b
  OBVIOUS
<1>2. Append(x, b) = x \o w
  BY <1>1, AppendIsConcat
<1> HIDE DEF x, w, y
<1> DEFINE z == x \o w
<1>3. z = y
  <2>1. /\ z \in Seq(Binary) /\ Len(z) = Len(x) + Len(w)
        /\ \A i \in 1 .. Len(x) + Len(w) : z[i] = IF i <= Len(x) THEN x[i] ELSE w[i - Len(x)]
    BY <1>1, ConcatProperties
  <2> HIDE DEF z
  <2>2. Len(z) = 2 /\ z[1] = a /\ z[2] = b
    BY <1>1, <2>1
  <2>3. \A i \in 1 .. Len(z) : z[i] = y[i]
    BY <1>1, <2>2
  <2> QED BY <1>1, <2>1, <2>2, <2>3, SeqEqual
<1>4. Append(x, b) \o t = x \o (<<b>> \o t)
  BY <1>1, NextBit
<1> QED BY <1>2, <1>3, <1>4 DEF x, y, z

\* A length by its choice bits.
LEMMA LengthBits ==
  ASSUME NEW t \in Seq(Binary), NEW r
  PROVE  /\ LowBits <= Len(t) =>
              LengthFor(r, <<0>> \o t) = Further(r, Number(SubSeq(t, 1, LowBits)), From(t, LowBits + 1))
         /\ MidBits <= Len(t) =>
              LengthFor(r, <<1>> \o (<<0>> \o t)) =
                Further(r, Pow2[LowBits] + Number(SubSeq(t, 1, MidBits)), From(t, MidBits + 1))
         /\ HighBits <= Len(t) =>
              LengthFor(r, <<1>> \o (<<1>> \o t)) =
                Further(r, Pow2[LowBits] + Pow2[MidBits] + Number(SubSeq(t, 1, HighBits)), From(t, HighBits + 1))
<1>1. LowBits \in Nat /\ MidBits \in Nat /\ HighBits \in Nat
  BY FieldWidths
<1>2. 0 \in Binary /\ 1 \in Binary
  BY DEF Binary
<1>3. ASSUME LowBits <= Len(t)
      PROVE  LengthFor(r, <<0>> \o t) = Further(r, Number(SubSeq(t, 1, LowBits)), From(t, LowBits + 1))
  <2> DEFINE x == <<0>>
             s == x \o t
  <2>1. x \in Seq(Binary) /\ 1 = Len(x) /\ Len(x) = 1 /\ x[1] = 0
    BY <1>2
  <2> HIDE DEF x
  <2>2. Starts(x, t, s)
    BY <2>1, Prefix, Zenon
  <2>3. 1 \in Nat
    OBVIOUS
  <2>4. Unmoved(x, t, 1, LowBits)
    BY <1>1, <1>3, <2>1, <2>3, RowBehind, Zenon
  <2>5. SubSeq(s, 1 + 1, 1 + LowBits) = SubSeq(t, 1, LowBits) /\ From(s, 1 + LowBits + 1) = From(t, LowBits + 1)
    BY <2>4, Zenon DEF Unmoved
  <2> HIDE DEF s
  <2>6. s[1] = 0
    BY <2>1, <2>2 DEF Starts
  <2>7. 1 + 1 = 2 /\ 1 + LowBits = LowBits + 1 /\ 1 + LowBits + 1 = LowBits + 2
    BY <1>1
  <2>8. SubSeq(s, 2, LowBits + 1) = SubSeq(t, 1, LowBits) /\ From(s, LowBits + 2) = From(t, LowBits + 1)
    BY <2>5, <2>7, Zenon
  <2>9. LengthFor(r, s) = Further(r, Number(SubSeq(t, 1, LowBits)), From(t, LowBits + 1))
    BY <2>6, <2>8, Zenon DEF LengthFor
  <2> QED BY <2>9 DEF s, x
<1>4. ASSUME NEW b \in Binary, NEW n \in Nat, n <= Len(t)
      PROVE  /\ SubSeq(<<1>> \o (<<b>> \o t), 3, n + 2) = SubSeq(t, 1, n)
             /\ From(<<1>> \o (<<b>> \o t), n + 3) = From(t, n + 1)
             /\ (<<1>> \o (<<b>> \o t))[1] = 1 /\ (<<1>> \o (<<b>> \o t))[2] = b
  <2> DEFINE x == <<1, b>>
             s == x \o t
  <2>1. x \in Seq(Binary) /\ 2 = Len(x) /\ Len(x) = 2 /\ x[1] = 1 /\ x[2] = b
    BY <1>2
  <2>2. s = <<1>> \o (<<b>> \o t)
    BY <1>2, TwoBits
  <2> HIDE DEF x
  <2>3. Starts(x, t, s)
    BY <2>1, Prefix, Zenon
  <2>4. 2 \in Nat
    OBVIOUS
  <2>5. Unmoved(x, t, 2, n)
    BY <1>4, <2>1, <2>4, RowBehind, Zenon
  <2>6. SubSeq(s, 2 + 1, 2 + n) = SubSeq(t, 1, n) /\ From(s, 2 + n + 1) = From(t, n + 1)
    BY <2>5, Zenon DEF Unmoved
  <2> HIDE DEF s
  <2>7. s[1] = 1 /\ s[2] = b
    BY <2>1, <2>3 DEF Starts
  <2>8. 2 + 1 = 3 /\ 2 + n = n + 2 /\ 2 + n + 1 = n + 3
    OBVIOUS
  <2>9. SubSeq(s, 3, n + 2) = SubSeq(t, 1, n) /\ From(s, n + 3) = From(t, n + 1)
    BY <2>6, <2>8, Zenon
  <2> QED BY <2>2, <2>7, <2>9, Zenon
<1>5. ASSUME MidBits <= Len(t)
      PROVE  LengthFor(r, <<1>> \o (<<0>> \o t)) =
                Further(r, Pow2[LowBits] + Number(SubSeq(t, 1, MidBits)), From(t, MidBits + 1))
  <2> DEFINE s == <<1>> \o (<<0>> \o t)
  <2>1. /\ SubSeq(s, 3, MidBits + 2) = SubSeq(t, 1, MidBits) /\ From(s, MidBits + 3) = From(t, MidBits + 1)
        /\ s[1] = 1 /\ s[2] = 0
    BY <1>1, <1>2, <1>4, <1>5, Zenon
  <2> HIDE DEF s
  <2>2. s[1] # 0
    BY <2>1
  <2>3. LengthFor(r, s) = Further(r, Pow2[LowBits] + Number(SubSeq(t, 1, MidBits)), From(t, MidBits + 1))
    BY <2>1, <2>2, Zenon DEF LengthFor
  <2> QED BY <2>3 DEF s
<1>6. ASSUME HighBits <= Len(t)
      PROVE  LengthFor(r, <<1>> \o (<<1>> \o t)) =
                Further(r, Pow2[LowBits] + Pow2[MidBits] + Number(SubSeq(t, 1, HighBits)), From(t, HighBits + 1))
  <2> DEFINE s == <<1>> \o (<<1>> \o t)
  <2>1. /\ SubSeq(s, 3, HighBits + 2) = SubSeq(t, 1, HighBits) /\ From(s, HighBits + 3) = From(t, HighBits + 1)
        /\ s[1] = 1 /\ s[2] = 1
    BY <1>1, <1>2, <1>4, <1>6, Zenon
  <2> HIDE DEF s
  <2>2. s[1] # 0 /\ s[2] # 0
    BY <2>1
  <2>3. LengthFor(r, s) = Further(r, Pow2[LowBits] + Pow2[MidBits] + Number(SubSeq(t, 1, HighBits)), From(t, HighBits + 1))
    BY <2>1, <2>2, Zenon DEF LengthFor
  <2> QED BY <2>3 DEF s
<1> QED BY <1>3, <1>5, <1>6, Zenon

\* One level down a tree of bits, its value is known to one bit more.
LEMMA TreeBit ==
  ASSUME NEW m \in Nat, NEW n \in Nat \ {0}, NEW b \in Binary, NEW t \in Seq(Binary), n - 1 <= Len(t)
  PROVE  /\ m * Pow2[n] + Number(SubSeq(<<b>> \o t, 1, n)) = (2 * m + b) * Pow2[n - 1] + Number(SubSeq(t, 1, n - 1))
         /\ From(<<b>> \o t, n + 1) = From(t, n)
<1> DEFINE y == SubSeq(t, 1, n - 1)
           k == n - 1
<1>1. y \in Seq(Binary) /\ Len(y) = k /\ SubSeq(<<b>> \o t, 1, n) = <<b>> \o y
  BY FirstBit
<1>2. k \in Nat /\ k + 1 = n /\ k <= Len(t) /\ 1 + k + 1 = n + 1 /\ 1 \in Nat
  OBVIOUS
<1>3. Pow2[k] \in Nat /\ Pow2[n] = 2 * Pow2[k]
  BY <1>2, Pow2Step
<1> HIDE DEF y, k
<1>4. Number(<<b>> \o y) = b * Pow2[k] + Number(y) /\ Number(y) \in Nat
  BY <1>1, NumberCons, BinaryRow
<1>5. m * Pow2[n] + (b * Pow2[k] + Number(y)) = (2 * m + b) * Pow2[k] + Number(y)
  <2> DEFINE p == Pow2[k]
             v == Number(y)
  <2>1. p \in Nat /\ v \in Nat /\ (b = 0 \/ b = 1) /\ Pow2[n] = 2 * p
    BY <1>3, <1>4 DEF Binary
  <2> HIDE DEF p, v
  <2>2. m * (2 * p) + (b * p + v) = (2 * m + b) * p + v
    BY <2>1
  <2> QED BY <2>1, <2>2 DEF p, v
<1>6. From(<<b>> \o t, 1 + k + 1) = From(t, k + 1)
  <2> DEFINE x == <<b>>
  <2>1. x \in Seq(Binary) /\ 1 = Len(x) /\ Len(x) = 1
    BY OneBit
  <2> HIDE DEF x
  <2>2. Unmoved(x, t, 1, k)
    BY <1>2, <2>1, RowBehind, Zenon
  <2>3. From(x \o t, 1 + k + 1) = From(t, k + 1)
    BY <2>2, Zenon DEF Unmoved
  <2> QED BY <2>3 DEF x
<1>7. From(<<b>> \o t, n + 1) = From(t, n)
  BY <1>2, <1>6, Zenon
<1>8. SubSeq(t, 1, n - 1) = y /\ Pow2[n - 1] = Pow2[k]
  BY DEF y, k
<1> QED BY <1>1, <1>4, <1>5, <1>7, <1>8

-----------------------------------------------------------------------------
(* While a symbol is read, whatever bits may follow: what they make of it  *)
(* together with those read is known from the registers.                   *)

\* The value of a tree, its root included, when t is to come.
TreeSum(t) == q.mi * Pow2[left] + Number(SubSeq(t, 1, left))

MatchAt(d) == [kind |-> "match", distance |-> (d + 1) % Wrap, len |-> len + MinLen]

FlagKinds == {"IsMatch", "IsRep", "IsRepG0", "IsRep0Long", "IsRepG1", "IsRepG2"}
FlagsTold ==
  /\ q.of = "IsMatch" => bits = <<>>
  /\ q.of = "IsRep" => bits = <<1>>
  /\ q.of = "IsRepG0" => bits = <<1, 1>>
  /\ q.of = "IsRep0Long" => bits = <<1, 1, 0>>
  /\ q.of = "IsRepG1" => bits = <<1, 1, 1>>
  /\ q.of = "IsRepG2" => bits = <<1, 1, 1, 1>>
LiteralTold ==
  q.of = "Literal" =>
    /\ InTree(LitBits)
    /\ \A t \in Seq(Binary) :
         Len(t) = left => Denoted(bits \o t) = [kind |-> "literal", byte |-> TreeSum(t) - Pow2[LitBits]]
ChoiceTold ==
  /\ q.of = "LenChoice" => \A t \in Seq(Binary) : Denoted(bits \o t) = LengthFor(rank, t)
  /\ q.of = "LenChoice2" => \A t \in Seq(Binary) : Denoted(bits \o t) = LengthFor(rank, <<1>> \o t)
LengthTold ==
  q.of \in {"LenLow", "LenMid", "LenHigh"} =>
    \A t \in Seq(Binary) :
      left <= Len(t) =>
        Denoted(bits \o t) = Further(rank, off + (TreeSum(t) - Pow2[LevelsOf(q.of)]), From(t, left + 1))
SlotTold ==
  q.of = "PosSlot" =>
    \A t \in Seq(Binary) :
      left <= Len(t) => Denoted(bits \o t) = NewMatch(len, TreeSum(t) - Pow2[SlotBits], From(t, left + 1))
DirectTold ==
  q.of = "Direct" =>
    \A t \in Seq(Binary) :
      left <= Len(t) =>
        Denoted(bits \o t) =
          MatchAt((rep0 * Pow2[left] + Number(SubSeq(t, 1, left))) * Pow2[AlignBits] +
                    Number(Reverse(From(t, left + 1))))
LowTold ==
  q.of \in {"SpecPos", "Align"} =>
    \A t \in Seq(Binary) : Len(t) = left => Denoted(bits \o t) = MatchAt(rep0 + off * Number(Reverse(t)))
DoneTold == q.of = "done" => token = Denoted(bits)

SymbolInv ==
  /\ bits \in Seq(Binary)
  /\ FlagsTold /\ LiteralTold /\ ChoiceTold /\ LengthTold /\ SlotTold /\ DirectTold /\ LowTold /\ DoneTold

\* What is not asked is not told.
LEMMA NotAsked ==
  /\ q'.of \notin FlagKinds => FlagsTold'
  /\ q'.of # "Literal" => LiteralTold'
  /\ q'.of \notin {"LenChoice", "LenChoice2"} => ChoiceTold'
  /\ q'.of \notin {"LenLow", "LenMid", "LenHigh"} => LengthTold'
  /\ q'.of # "PosSlot" => SlotTold'
  /\ q'.of # "Direct" => DirectTold'
  /\ q'.of \notin {"SpecPos", "Align"} => LowTold'
  /\ q'.of # "done" => DoneTold'
<1>1. q'.of \notin FlagKinds => FlagsTold'
  BY DEF FlagKinds, FlagsTold
<1>2. q'.of # "Literal" => LiteralTold'
  BY DEF LiteralTold
<1>3. q'.of \notin {"LenChoice", "LenChoice2"} => ChoiceTold'
  BY DEF ChoiceTold
<1>4. q'.of \notin {"LenLow", "LenMid", "LenHigh"} => LengthTold'
  BY DEF LengthTold
<1>5. q'.of # "PosSlot" => SlotTold'
  BY DEF SlotTold
<1>6. q'.of # "Direct" => DirectTold'
  BY DEF DirectTold
<1>7. q'.of \notin {"SpecPos", "Align"} => LowTold'
  BY DEF LowTold
<1>8. q'.of # "done" => DoneTold'
  BY DEF DoneTold
<1> QED BY <1>1, <1>2, <1>3, <1>4, <1>5, <1>6, <1>7, <1>8

LEMMA AppendedIs ==
  ASSUME NEW x \in Seq(Binary), NEW b \in Binary, NEW y \in Seq(Binary), Len(y) = Len(x) + 1,
         \A i \in 1 .. Len(x) : y[i] = x[i], y[Len(x) + 1] = b
  PROVE  Append(x, b) = y
<1> DEFINE w == <<b>>
           n == Len(x)
<1>1. w \in Seq(Binary) /\ Len(w) = 1 /\ w[1] = b /\ n \in Nat
  OBVIOUS
<1>2. Append(x, b) = x \o w
  BY AppendIsConcat
<1> DEFINE z == x \o w
<1>3. /\ z \in Seq(Binary) /\ Len(z) = Len(x) + Len(w)
      /\ \A i \in 1 .. Len(x) + Len(w) : z[i] = IF i <= Len(x) THEN x[i] ELSE w[i - Len(x)]
  <2> HIDE DEF w
  <2> QED BY <1>1, ConcatProperties
<1> HIDE DEF w, z, n
<1>4. Len(x) = n /\ Len(z) = n + 1 /\ Len(y) = n + 1
  BY <1>1, <1>3 DEF n
<1>5. \A i \in 1 .. n : z[i] = y[i]
  BY <1>1, <1>3, <1>4
<1>6. z[n + 1] = y[n + 1]
  <2>1. (n + 1) - n = 1 /\ n + 1 \in 1 .. n + 1 /\ ~ (n + 1 <= n)
    BY <1>1
  <2>2. z[n + 1] = w[(n + 1) - n]
    BY <1>1, <1>3, <1>4, <2>1
  <2> QED BY <1>1, <1>4, <2>1, <2>2
<1>7. \A i \in 1 .. Len(z) : z[i] = y[i]
  <2> SUFFICES ASSUME NEW i \in 1 .. n + 1 PROVE z[i] = y[i]
    BY <1>4
  <2>1. CASE i = n + 1
    BY <1>6, <2>1
  <2>2. CASE i # n + 1
    BY <1>1, <1>5, <2>2
  <2> QED BY <2>1, <2>2
<1>8. z = y
  BY <1>3, <1>4, <1>7, SeqEqual
<1> QED BY <1>2, <1>8 DEF z

LEMMA Appended ==
  ASSUME NEW b \in Binary
  PROVE  /\ Append(<<>>, b) = <<b>> /\ Append(<<1>>, b) = <<1, b>> /\ Append(<<1, 1>>, b) = <<1, 1, b>>
         /\ Append(<<1, 1, 0>>, b) = <<1, 1, 0, b>> /\ Append(<<1, 1, 1>>, b) = <<1, 1, 1, b>>
         /\ Append(<<1, 1, 1, 1>>, b) = <<1, 1, 1, 1, b>>
<1>1. 0 \in Binary /\ 1 \in Binary
  BY DEF Binary
<1>2. Append(<<>>, b) = <<b>>
  OBVIOUS
<1>3. Append(<<1>>, b) = <<1, b>>
  <2> DEFINE x == <<1>>
             y == <<1, b>>
  <2>1. /\ x \in Seq(Binary) /\ Len(x) = 1 /\ x[1] = 1
        /\ y \in Seq(Binary) /\ Len(y) = 2 /\ y[1] = 1 /\ y[2] = b
    BY <1>1
  <2> HIDE DEF x, y
  <2>2. Len(y) = Len(x) + 1 /\ (\A i \in 1 .. Len(x) : y[i] = x[i]) /\ y[Len(x) + 1] = b
    BY <2>1
  <2>3. Append(x, b) = y
    BY <2>1, <2>2, AppendedIs
  <2> QED BY <2>3 DEF x, y
<1>4. Append(<<1, 1>>, b) = <<1, 1, b>>
  <2> DEFINE x == <<1, 1>>
             y == <<1, 1, b>>
  <2>1. /\ x \in Seq(Binary) /\ Len(x) = 2 /\ x[1] = 1 /\ x[2] = 1
        /\ y \in Seq(Binary) /\ Len(y) = 3 /\ y[1] = 1 /\ y[2] = 1 /\ y[3] = b
    BY <1>1
  <2> HIDE DEF x, y
  <2>2. Len(y) = Len(x) + 1 /\ (\A i \in 1 .. Len(x) : y[i] = x[i]) /\ y[Len(x) + 1] = b
    BY <2>1
  <2>3. Append(x, b) = y
    BY <2>1, <2>2, AppendedIs
  <2> QED BY <2>3 DEF x, y
<1>5. Append(<<1, 1, 0>>, b) = <<1, 1, 0, b>>
  <2> DEFINE x == <<1, 1, 0>>
             y == <<1, 1, 0, b>>
  <2>1. /\ x \in Seq(Binary) /\ Len(x) = 3 /\ x[1] = 1 /\ x[2] = 1 /\ x[3] = 0
        /\ y \in Seq(Binary) /\ Len(y) = 4 /\ y[1] = 1 /\ y[2] = 1 /\ y[3] = 0 /\ y[4] = b
    BY <1>1
  <2> HIDE DEF x, y
  <2>2. Len(y) = Len(x) + 1 /\ (\A i \in 1 .. Len(x) : y[i] = x[i]) /\ y[Len(x) + 1] = b
    BY <2>1
  <2>3. Append(x, b) = y
    BY <2>1, <2>2, AppendedIs
  <2> QED BY <2>3 DEF x, y
<1>6. Append(<<1, 1, 1>>, b) = <<1, 1, 1, b>>
  <2> DEFINE x == <<1, 1, 1>>
             y == <<1, 1, 1, b>>
  <2>1. /\ x \in Seq(Binary) /\ Len(x) = 3 /\ x[1] = 1 /\ x[2] = 1 /\ x[3] = 1
        /\ y \in Seq(Binary) /\ Len(y) = 4 /\ y[1] = 1 /\ y[2] = 1 /\ y[3] = 1 /\ y[4] = b
    BY <1>1
  <2> HIDE DEF x, y
  <2>2. Len(y) = Len(x) + 1 /\ (\A i \in 1 .. Len(x) : y[i] = x[i]) /\ y[Len(x) + 1] = b
    BY <2>1
  <2>3. Append(x, b) = y
    BY <2>1, <2>2, AppendedIs
  <2> QED BY <2>3 DEF x, y
<1>7. Append(<<1, 1, 1, 1>>, b) = <<1, 1, 1, 1, b>>
  <2> DEFINE x == <<1, 1, 1, 1>>
             y == <<1, 1, 1, 1, b>>
  <2>1. /\ x \in Seq(Binary) /\ Len(x) = 4 /\ x[1] = 1 /\ x[2] = 1 /\ x[3] = 1 /\ x[4] = 1
        /\ y \in Seq(Binary) /\ Len(y) = 5 /\ y[1] = 1 /\ y[2] = 1 /\ y[3] = 1 /\ y[4] = 1 /\ y[5] = b
    BY <1>1
  <2> HIDE DEF x, y
  <2>2. Len(y) = Len(x) + 1 /\ (\A i \in 1 .. Len(x) : y[i] = x[i]) /\ y[Len(x) + 1] = b
    BY <2>1
  <2>3. Append(x, b) = y
    BY <2>1, <2>2, AppendedIs
  <2> QED BY <2>3 DEF x, y
<1> QED BY <1>2, <1>3, <1>4, <1>5, <1>6, <1>7

LEMMA BitRead ==
  ASSUME bits \in Seq(Binary), NEW b \in Binary, bits' = Append(bits, b)
  PROVE  /\ bits' \in Seq(Binary)
         /\ \A t \in Seq(Binary) :
              /\ <<b>> \o t \in Seq(Binary) /\ Len(<<b>> \o t) = Len(t) + 1 /\ Len(t) \in Nat
              /\ bits' \o t = bits \o (<<b>> \o t)
<1>1. ASSUME NEW t \in Seq(Binary)
      PROVE  /\ <<b>> \o t \in Seq(Binary) /\ Len(<<b>> \o t) = Len(t) + 1 /\ Len(t) \in Nat
             /\ Append(bits, b) \o t = bits \o (<<b>> \o t)
  BY NextBit
<1>2. Append(bits, b) \in Seq(Binary)
  BY AppendProperties
<1> QED BY <1>1, <1>2

LEMMA SubSeqWhole ==
  ASSUME NEW t \in Seq(Binary), NEW n, n = Len(t) PROVE SubSeq(t, 1, n) = t
  BY SubSeqFull

LEMMA MatchTold ==
  ASSUME BitsInv, SymbolInv, NEW b \in Binary, bits' = Append(bits, b), MatchBit(b) PROVE SymbolInv'
<1>1. bits = <<>> /\ bits' = <<b>> /\ bits' \in Seq(Binary)
  <2>1. bits = <<>> /\ bits \in Seq(Binary)
    BY DEF MatchBit, Asking, SymbolInv, FlagsTold
  <2> QED BY <2>1, Appended, BitRead
<1>2. CASE b = 0
  <2>1. PICK x, y : Plant("Literal", x, y, LitBits)
    BY <1>2 DEF MatchBit
  <2>2. LitBits \in Nat \ {0}
    BY FieldWidths
  <2>3. q'.of = "Literal" /\ q'.mi = 1 /\ left' = LitBits /\ InTree(LitBits)'
    BY <2>1, <2>2, Planted
  <2>4. ASSUME NEW t \in Seq(Binary), Len(t) = LitBits
        PROVE  Denoted(<<0>> \o t) = [kind |-> "literal", byte |-> (1 * Pow2[LitBits] + Number(SubSeq(t, 1, LitBits))) - Pow2[LitBits]]
    <3>1. Denoted(<<0>> \o t) = [kind |-> "literal", byte |-> Number(t)]
      BY FlagsDenote
    <3>2. SubSeq(t, 1, LitBits) = t
      BY <2>4, SubSeqWhole
    <3>3. Number(t) \in Nat /\ Pow2[LitBits] \in Nat
      BY <2>2, BinaryRow, Pow2Step
    <3>4. (1 * Pow2[LitBits] + Number(t)) - Pow2[LitBits] = Number(t)
      BY <3>3
    <3> QED BY <3>1, <3>2, <3>4
  <2>5. LiteralTold'
    BY <1>1, <1>2, <2>3, <2>4 DEF LiteralTold, TreeSum
  <2> QED BY <1>1, <2>3, <2>5, NotAsked DEF SymbolInv, FlagKinds
<1>3. CASE b # 0
  <2>1. q' = Question("IsRep", at.state, 0, 0)
    BY <1>3 DEF MatchBit
  <2>2. q'.of = "IsRep"
    BY <2>1, FieldsOf
  <2>3. bits' = <<1>>
    BY <1>1, <1>3 DEF Binary
  <2>4. FlagsTold'
    BY <2>2, <2>3 DEF FlagsTold
  <2> QED BY <1>1, <2>2, <2>4, NotAsked DEF SymbolInv
<1> QED BY <1>2, <1>3

LEMMA LiteralSpelt ==
  ASSUME BitsInv, SymbolInv, NEW b \in Binary, bits' = Append(bits, b), LiteralBit(b) PROVE SymbolInv'
<1> DEFINE symbol == 2 * q.mi + b
<1>1. /\ q.of = "Literal" /\ left' = left - 1 /\ InTree(LitBits) /\ bits \in Seq(Binary)
      /\ \A t \in Seq(Binary) :
           Len(t) = left => Denoted(bits \o t) = [kind |-> "literal", byte |-> TreeSum(t) - Pow2[LitBits]]
  BY DEF LiteralBit, Asking, SymbolInv, LiteralTold
<1>2. q.mi \in Nat /\ LitBits \in Nat \ {0} /\ left \in Nat \ {0} /\ Pow2[LitBits] \in Nat
  <2>1. q.mi \in Nat /\ LitBits \in Nat \ {0}
    BY FieldWidths DEF BitsInv, QuestionInv
  <2>2. InNode(q.mi, LitBits, left)
    BY <1>1, Zenon DEF InTree
  <2>3. left \in Nat \ {0}
    BY <2>1, <2>2 DEF InNode
  <2> QED BY <2>1, <2>3, Pow2Step
<1>3. /\ bits' \in Seq(Binary)
      /\ \A t \in Seq(Binary) :
           /\ <<b>> \o t \in Seq(Binary) /\ Len(<<b>> \o t) = Len(t) + 1 /\ Len(t) \in Nat
           /\ bits' \o t = bits \o (<<b>> \o t)
  BY <1>1, BitRead
<1>4. ASSUME NEW t \in Seq(Binary), Len(t) = left - 1
      PROVE  Denoted(bits' \o t) =
               [kind |-> "literal", byte |-> (symbol * Pow2[left - 1] + Number(SubSeq(t, 1, left - 1))) - Pow2[LitBits]]
  <2>1. Denoted(bits \o (<<b>> \o t)) = [kind |-> "literal", byte |-> TreeSum(<<b>> \o t) - Pow2[LitBits]]
    <3> DEFINE more == <<b>> \o t
    <3>1. more \in Seq(Binary) /\ Len(more) = Len(t) + 1
      BY <1>3
    <3>2. Len(more) = left
      BY <1>2, <1>4, <3>1
    <3> HIDE DEF more
    <3>3. Denoted(bits \o more) = [kind |-> "literal", byte |-> TreeSum(more) - Pow2[LitBits]]
      BY <1>1, <3>1, <3>2, Zenon
    <3> QED BY <3>3 DEF more
  <2>2. TreeSum(<<b>> \o t) = symbol * Pow2[left - 1] + Number(SubSeq(t, 1, left - 1))
    <3>1. left - 1 <= Len(t)
      BY <1>2, <1>4
    <3>2. q.mi \in Nat /\ left \in Nat \ {0}
      BY <1>2
    <3>3. q.mi * Pow2[left] + Number(SubSeq(<<b>> \o t, 1, left)) = symbol * Pow2[left - 1] + Number(SubSeq(t, 1, left - 1))
      BY <3>1, <3>2, TreeBit
    <3> QED BY <3>3, Zenon DEF TreeSum
  <2> QED BY <1>3, <2>1, <2>2
<1>5. CASE symbol < Pow2[LitBits]
  <2>1. q'.of = "Literal" /\ q'.mi = symbol
    <3>1. PICK y : q' = [q EXCEPT !.mi = symbol, !.y = y]
      BY <1>5 DEF LiteralBit
    <3>2. q = Question(q.of, q.x, q.y, q.mi)
      BY DEF BitsInv, QuestionInv
    <3>3. q' = Question(q.of, q.x, y, symbol)
      BY <3>1, <3>2 DEF Question
    <3> QED BY <1>1, <3>3, FieldsOf
  <2>2. left > 1
    <3> SUFFICES ASSUME ~ (left > 1) PROVE FALSE
      OBVIOUS
    <3>1. 2 * q.mi + b - Pow2[LitBits] \in 0 .. Pow2[LitBits] - 1
      BY <1>1, <1>2, NodeLeaf DEF Binary, InTree
    <3> DEFINE p == Pow2[LitBits]
               s == 2 * q.mi + b
    <3>2. p \in Nat /\ q.mi \in Nat /\ b \in 0 .. 1
      BY <1>2 DEF Binary
    <3>3. s < p
      BY <1>5
    <3> DEFINE m == q.mi
    <3>4. 2 * m + (b - p) \in 0 .. p - 1
      BY <3>1
    <3>5. m \in Nat
      BY <3>2
    <3> HIDE DEF p, m
    <3>6. s = 2 * m + b
      BY DEF m
    <3> HIDE DEF s
    <3> QED BY <3>2, <3>3, <3>4, <3>5, <3>6
  <2>3. InNode(symbol, LitBits, left - 1)
    BY <1>1, <1>2, <2>2, NodeStep DEF Binary, InTree
  <2>4. InTree(LitBits)'
    BY <1>1, <2>1, <2>3 DEF InTree
  <2>5. LiteralTold'
    BY <1>1, <1>4, <2>1, <2>4 DEF LiteralTold, TreeSum
  <2> QED BY <1>3, <2>1, <2>5, NotAsked DEF SymbolInv, FlagKinds
<1>6. CASE ~ (symbol < Pow2[LitBits])
  <2>1. Done([kind |-> "literal", byte |-> symbol % Pow2[LitBits]])
    BY <1>6 DEF LiteralBit
  <2>2. q'.of = "done" /\ token' = [kind |-> "literal", byte |-> symbol % Pow2[LitBits]]
    BY <2>1, FieldsOf DEF Done
  <2>3. left = 1
    <3> SUFFICES ASSUME left > 1 PROVE FALSE
      BY <1>2
    <3>1. symbol \in 1 .. Pow2[LitBits] - 1
      BY <1>1, <1>2, NodeStep DEF Binary, InTree
    <3> QED BY <1>2, <1>6, <3>1
  <2>4. symbol - Pow2[LitBits] \in 0 .. Pow2[LitBits] - 1
    <3>1. ~ (left > 1) /\ left \in Nat /\ InNode(q.mi, LitBits, left)
      BY <1>1, <1>2, <2>3 DEF InTree
    <3>2. 2 * q.mi + b - Pow2[LitBits] \in 0 .. Pow2[LitBits] - 1
      BY <1>2, <3>1, NodeLeaf DEF Binary
    <3>3. 2 * q.mi + b - Pow2[LitBits] = symbol - Pow2[LitBits]
      BY <1>2 DEF Binary
    <3> QED BY <3>2, <3>3
  <2>5. symbol % Pow2[LitBits] = symbol - Pow2[LitBits]
    <3> DEFINE p == Pow2[LitBits]
               s == 2 * q.mi + b
    <3>1. p \in Nat /\ s \in Nat /\ s - p \in 0 .. p - 1
      BY <1>2, <2>4 DEF Binary
    <3> HIDE DEF p, s
    <3>2. s % p = s - p
      BY <3>1
    <3> QED BY <3>2 DEF p, s
  <2>6. Denoted(bits') = [kind |-> "literal", byte |-> symbol - Pow2[LitBits]]
    <3>1. <<>> \in Seq(Binary) /\ Len(<<>>) = 0 /\ left - 1 = 0 /\ bits' \o <<>> = bits'
      BY <1>3, <2>3, ConcatEmptySeq
    <3>2. SubSeq(<<>>, 1, 0) = <<>>
      BY <3>1, SubSeqWhole
    <3>3. Number(<<>>) = 0 /\ Pow2[0] = 1
      BY ValueNone, Pow2Is DEF Number
    <3>4. Denoted(bits' \o <<>>) =
               [kind |-> "literal", byte |-> (symbol * Pow2[0] + Number(SubSeq(<<>>, 1, 0))) - Pow2[LitBits]]
      BY <1>4, <3>1
    <3>5. symbol * Pow2[0] + 0 = symbol
      BY <1>2, <3>3 DEF Binary
    <3> QED BY <3>1, <3>2, <3>3, <3>4, <3>5
  <2>7. DoneTold'
    BY <2>2, <2>5, <2>6 DEF DoneTold
  <2> QED BY <1>3, <2>2, <2>7, NotAsked DEF SymbolInv, FlagKinds
<1> QED BY <1>5, <1>6

LEMMA KindSpelt ==
  ASSUME BitsInv, SymbolInv, NEW b \in Binary, bits' = Append(bits, b), KindBit(b) PROVE SymbolInv'
<1>1. bits \in Seq(Binary) /\ FlagsTold
  BY DEF SymbolInv
<1>2. bits' \in Seq(Binary)
  BY <1>1, BitRead
<1>3. ASSUME NEW c, NEW r, LenFrom(c, r), \A t \in Seq(Binary) : Denoted(bits' \o t) = LengthFor(r, t)
      PROVE  SymbolInv'
  <2>1. q'.of = "LenChoice" /\ rank' = r
    BY <1>3, FieldsOf DEF LenFrom
  <2>2. ChoiceTold'
    BY <1>3, <2>1 DEF ChoiceTold
  <2> QED BY <1>2, <2>1, <2>2, NotAsked DEF SymbolInv, FlagKinds
<1>4. ASSUME NEW of \in FlagKinds, NEW y, q' = Question(of, at.state, y, 0),
             \/ of = "IsRepG0" /\ bits' = <<1, 1>>
             \/ of = "IsRep0Long" /\ bits' = <<1, 1, 0>>
             \/ of = "IsRepG1" /\ bits' = <<1, 1, 1>>
             \/ of = "IsRepG2" /\ bits' = <<1, 1, 1, 1>>
      PROVE  SymbolInv'
  <2>1. q'.of = of
    BY <1>4, FieldsOf
  <2>2. FlagsTold'
    BY <1>4, <2>1 DEF FlagsTold
  <2> QED BY <1>2, <1>4, <2>1, <2>2, NotAsked DEF SymbolInv, FlagKinds
<1>5. b \in {0, 1}
  BY DEF Binary
<1>6. CASE q.of = "IsRep" /\ b = 0
  <2>1. bits' = <<1, 0>>
    BY <1>1, <1>6, Appended DEF FlagsTold
  <2>2. LenFrom(0, -1)
    BY <1>6 DEF KindBit, Asking
  <2> QED BY <1>3, <2>1, <2>2, FlagsDenote
<1>7. CASE q.of = "IsRep" /\ b = 1
  <2>1. bits' = <<1, 1>>
    BY <1>1, <1>7, Appended DEF FlagsTold
  <2>2. q' = Question("IsRepG0", at.state, 0, 0)
    BY <1>7 DEF KindBit, Asking
  <2> QED BY <1>4, <2>1, <2>2 DEF FlagKinds
<1>8. CASE q.of = "IsRepG0" /\ b = 0
  <2>1. bits' = <<1, 1, 0>>
    BY <1>1, <1>8, Appended DEF FlagsTold
  <2>2. q' = Question("IsRep0Long", at.state, posState, 0)
    BY <1>8 DEF KindBit, Asking
  <2> QED BY <1>4, <2>1, <2>2 DEF FlagKinds
<1>9. CASE q.of = "IsRepG0" /\ b = 1
  <2>1. bits' = <<1, 1, 1>>
    BY <1>1, <1>9, Appended DEF FlagsTold
  <2>2. q' = Question("IsRepG1", at.state, 0, 0)
    BY <1>9 DEF KindBit, Asking
  <2> QED BY <1>4, <2>1, <2>2 DEF FlagKinds
<1>10. CASE q.of = "IsRep0Long" /\ b = 0
  <2>1. bits' = <<1, 1, 0, 0>>
    BY <1>1, <1>10, Appended DEF FlagsTold
  <2>2. Done([kind |-> "short"])
    BY <1>10 DEF KindBit, Asking
  <2>3. q'.of = "done" /\ token' = [kind |-> "short"]
    BY <2>2, FieldsOf DEF Done
  <2>4. Denoted(bits') = [kind |-> "short"]
    <3>1. <<>> \in Seq(Binary) /\ bits' \o <<>> = bits'
      BY <1>2, ConcatEmptySeq
    <3>2. Denoted(<<1, 1, 0, 0>> \o <<>>) = [kind |-> "short"]
      BY <3>1, FlagsDenote
    <3> QED BY <2>1, <3>1, <3>2
  <2>5. DoneTold'
    BY <2>3, <2>4 DEF DoneTold
  <2> QED BY <1>2, <2>3, <2>5, NotAsked DEF SymbolInv, FlagKinds
<1>11. CASE q.of = "IsRep0Long" /\ b = 1
  <2>1. bits' = <<1, 1, 0, 1>>
    BY <1>1, <1>11, Appended DEF FlagsTold
  <2>2. LenFrom(1, 0)
    BY <1>11 DEF KindBit, Asking
  <2> QED BY <1>3, <2>1, <2>2, FlagsDenote
<1>12. CASE q.of = "IsRepG1" /\ b = 0
  <2>1. bits' = <<1, 1, 1, 0>>
    BY <1>1, <1>12, Appended DEF FlagsTold
  <2>2. LenFrom(1, 1)
    BY <1>12 DEF KindBit, Asking
  <2> QED BY <1>3, <2>1, <2>2, FlagsDenote
<1>13. CASE q.of = "IsRepG1" /\ b = 1
  <2>1. bits' = <<1, 1, 1, 1>>
    BY <1>1, <1>13, Appended DEF FlagsTold
  <2>2. q' = Question("IsRepG2", at.state, 0, 0)
    BY <1>13 DEF KindBit, Asking
  <2> QED BY <1>4, <2>1, <2>2 DEF FlagKinds
<1>14. CASE q.of = "IsRepG2"
  <2>1. bits' = <<1, 1, 1, 1, b>>
    BY <1>1, <1>14, Appended DEF FlagsTold
  <2>2. LenFrom(1, 2 + b)
    BY <1>14 DEF KindBit, Asking
  <2>3. CASE b = 0
    <3>1. LenFrom(1, 2) /\ bits' = <<1, 1, 1, 1, 0>>
      BY <2>1, <2>2, <2>3
    <3> QED BY <1>3, <3>1, FlagsDenote
  <2>4. CASE b = 1
    <3>1. LenFrom(1, 3) /\ bits' = <<1, 1, 1, 1, 1>>
      BY <2>1, <2>2, <2>4
    <3> QED BY <1>3, <3>1, FlagsDenote
  <2> QED BY <1>5, <2>3, <2>4
<1>15. q.of \in {"IsRep", "IsRepG0", "IsRepG1", "IsRepG2", "IsRep0Long"}
  BY DEF KindBit, Asking
<1> QED BY <1>5, <1>6, <1>7, <1>8, <1>9, <1>10, <1>11, <1>12, <1>13, <1>14, <1>15

\* Planted anew, a tree is worth what is to come.
LEMMA TreePlanted ==
  ASSUME NEW t \in Seq(Binary), NEW lv \in Nat, lv <= Len(t), NEW o \in Nat
  PROVE  /\ (1 * Pow2[lv] + Number(SubSeq(t, 1, lv))) - Pow2[lv] = Number(SubSeq(t, 1, lv))
         /\ Number(SubSeq(t, 1, lv)) \in Nat
<1>1. SubSeq(t, 1, lv) \in Seq(Binary)
  <2>1. \A i \in 1 .. lv : t[i] \in Binary
    <3>1. Len(t) \in Nat /\ \A i \in 1 .. Len(t) : t[i] \in Binary
      OBVIOUS
    <3> QED BY <3>1
  <2>2. 1 \in Int /\ lv \in Int
    OBVIOUS
  <2> QED BY <2>1, <2>2, SubSeqProperties
<1>2. Number(SubSeq(t, 1, lv)) \in Nat /\ Pow2[lv] \in Nat
  BY <1>1, BinaryRow, Pow2Step
<1> QED BY <1>2

LEMMA ChoiceSpelt ==
  ASSUME BitsInv, SymbolInv, NEW b \in Binary, bits' = Append(bits, b), ChoiceBit(b) PROVE SymbolInv'
<1>1. bits \in Seq(Binary) /\ ChoiceTold /\ rank' = rank /\ b \in {0, 1}
  BY DEF SymbolInv, ChoiceBit, Binary
<1>2. /\ bits' \in Seq(Binary)
      /\ \A t \in Seq(Binary) :
           /\ <<b>> \o t \in Seq(Binary) /\ Len(<<b>> \o t) = Len(t) + 1 /\ Len(t) \in Nat
           /\ bits' \o t = bits \o (<<b>> \o t)
  BY <1>1, BitRead
<1>3. LowBits \in Nat \ {0} /\ MidBits \in Nat \ {0} /\ HighBits \in Nat \ {0}
  BY FieldWidths
<1>4. CASE q.of = "LenChoice" /\ b = 1
  <2>1. q' = Question("LenChoice2", q.x, 0, 0)
    BY <1>4 DEF ChoiceBit, Asking
  <2>2. q'.of = "LenChoice2"
    BY <2>1, FieldsOf
  <2>3. \A t \in Seq(Binary) : Denoted(bits' \o t) = LengthFor(rank, <<1>> \o t)
    <3> SUFFICES ASSUME NEW t \in Seq(Binary) PROVE Denoted(bits' \o t) = LengthFor(rank, <<1>> \o t)
      OBVIOUS
    <3>1. <<b>> \o t \in Seq(Binary) /\ bits' \o t = bits \o (<<b>> \o t)
      BY <1>2
    <3>2. Denoted(bits \o (<<b>> \o t)) = LengthFor(rank, <<b>> \o t)
      BY <1>1, <1>4, <3>1, Zenon DEF ChoiceTold
    <3> QED BY <1>4, <3>1, <3>2, Zenon
  <2>4. ChoiceTold'
    BY <1>1, <2>2, <2>3 DEF ChoiceTold
  <2> QED BY <1>2, <2>2, <2>4, NotAsked DEF SymbolInv, FlagKinds
\* The three trees.
<1>5. ASSUME NEW of \in {"LenLow", "LenMid", "LenHigh"}, NEW y, NEW lv \in Nat \ {0}, NEW o \in Nat,
             Plant(of, q.x, y, lv), off' = o, Pow2[LevelsOf(of)] = Pow2[lv],
             \A t \in Seq(Binary) :
               lv <= Len(t) => Denoted(bits' \o t) = Further(rank, o + Number(SubSeq(t, 1, lv)), From(t, lv + 1))
      PROVE  SymbolInv'
  <2>1. q'.of = of /\ q'.mi = 1 /\ left' = lv
    BY <1>5, Planted
  <2>2. ASSUME NEW t \in Seq(Binary), lv <= Len(t)
        PROVE  Denoted(bits' \o t) =
                 Further(rank, o + ((1 * Pow2[lv] + Number(SubSeq(t, 1, lv))) - Pow2[LevelsOf(of)]), From(t, lv + 1))
    <3>1. (1 * Pow2[lv] + Number(SubSeq(t, 1, lv))) - Pow2[LevelsOf(of)] = Number(SubSeq(t, 1, lv))
      BY <1>5, <2>2, TreePlanted
    <3>2. Denoted(bits' \o t) = Further(rank, o + Number(SubSeq(t, 1, lv)), From(t, lv + 1))
      BY <1>5, <2>2, Zenon
    <3> QED BY <3>1, <3>2, Zenon
  <2>3. LengthTold'
    BY <1>1, <1>5, <2>1, <2>2 DEF LengthTold, TreeSum
  <2> QED BY <1>2, <1>5, <2>1, <2>3, NotAsked DEF SymbolInv, FlagKinds
<1>6. CASE q.of = "LenChoice" /\ b = 0
  <2>1. off' = 0 /\ Plant("LenLow", q.x, posState, LowBits)
    BY <1>6 DEF ChoiceBit, Asking
  <2>2. ASSUME NEW t \in Seq(Binary), LowBits <= Len(t)
        PROVE  Denoted(bits' \o t) = Further(rank, 0 + Number(SubSeq(t, 1, LowBits)), From(t, LowBits + 1))
    <3>1. <<b>> \o t \in Seq(Binary) /\ bits' \o t = bits \o (<<b>> \o t)
      BY <1>2
    <3>2. Denoted(bits \o (<<b>> \o t)) = LengthFor(rank, <<b>> \o t)
      BY <1>1, <1>6, <3>1, Zenon DEF ChoiceTold
    <3>3. LengthFor(rank, <<0>> \o t) = Further(rank, Number(SubSeq(t, 1, LowBits)), From(t, LowBits + 1))
      BY <2>2, LengthBits
    <3>4. 0 + Number(SubSeq(t, 1, LowBits)) = Number(SubSeq(t, 1, LowBits))
      BY <1>3, <2>2, TreePlanted
    <3> QED BY <1>6, <3>1, <3>2, <3>3, <3>4, Zenon
  <2>3. Pow2[LevelsOf("LenLow")] = Pow2[LowBits]
    BY DEF LevelsOf
  <2> QED BY <1>3, <1>5, <2>1, <2>2, <2>3
<1>7. CASE q.of = "LenChoice2" /\ b = 0
  <2>1. off' = Pow2[LowBits] /\ Plant("LenMid", q.x, posState, MidBits)
    BY <1>7 DEF ChoiceBit, Asking
  <2>2. ASSUME NEW t \in Seq(Binary), MidBits <= Len(t)
        PROVE  Denoted(bits' \o t) = Further(rank, Pow2[LowBits] + Number(SubSeq(t, 1, MidBits)), From(t, MidBits + 1))
    <3>1. <<b>> \o t \in Seq(Binary) /\ bits' \o t = bits \o (<<b>> \o t)
      BY <1>2
    <3>2. Denoted(bits \o (<<b>> \o t)) = LengthFor(rank, <<1>> \o (<<b>> \o t))
      BY <1>1, <1>7, <3>1, Zenon DEF ChoiceTold
    <3>3. LengthFor(rank, <<1>> \o (<<0>> \o t)) = Further(rank, Pow2[LowBits] + Number(SubSeq(t, 1, MidBits)), From(t, MidBits + 1))
      BY <2>2, LengthBits
    <3> QED BY <1>7, <3>1, <3>2, <3>3, Zenon
  <2>3. Pow2[LevelsOf("LenMid")] = Pow2[MidBits] /\ Pow2[LowBits] \in Nat
    BY <1>3, Pow2Step DEF LevelsOf
  <2> QED BY <1>3, <1>5, <2>1, <2>2, <2>3
<1>8. CASE q.of = "LenChoice2" /\ b = 1
  <2>1. off' = Pow2[LowBits] + Pow2[MidBits] /\ Plant("LenHigh", q.x, 0, HighBits)
    BY <1>8 DEF ChoiceBit, Asking
  <2>2. ASSUME NEW t \in Seq(Binary), HighBits <= Len(t)
        PROVE  Denoted(bits' \o t) = Further(rank, Pow2[LowBits] + Pow2[MidBits] + Number(SubSeq(t, 1, HighBits)), From(t, HighBits + 1))
    <3>1. <<b>> \o t \in Seq(Binary) /\ bits' \o t = bits \o (<<b>> \o t)
      BY <1>2
    <3>2. Denoted(bits \o (<<b>> \o t)) = LengthFor(rank, <<1>> \o (<<b>> \o t))
      BY <1>1, <1>8, <3>1, Zenon DEF ChoiceTold
    <3>3. LengthFor(rank, <<1>> \o (<<1>> \o t)) = Further(rank, Pow2[LowBits] + Pow2[MidBits] + Number(SubSeq(t, 1, HighBits)), From(t, HighBits + 1))
      BY <2>2, LengthBits
    <3> QED BY <1>8, <3>1, <3>2, <3>3, Zenon
  <2>3. Pow2[LevelsOf("LenHigh")] = Pow2[HighBits] /\ Pow2[LowBits] + Pow2[MidBits] \in Nat
    BY <1>3, Pow2Step DEF LevelsOf
  <2> QED BY <1>3, <1>5, <2>1, <2>2, <2>3
<1>9. q.of \in {"LenChoice", "LenChoice2"}
  BY DEF ChoiceBit, Asking
<1> QED BY <1>1, <1>4, <1>6, <1>7, <1>8, <1>9

LEMMA NothingLeft ==
  ASSUME NEW t \in Seq(Binary), NEW m \in Nat
  PROVE  /\ m * Pow2[0] + Number(SubSeq(t, 1, 0)) = m /\ From(t, 1) = t
         /\ Number(SubSeq(t, 1, 0)) = 0
<1>1. SubSeq(t, 1, 0) = <<>>
  BY SubSeqEmpty
<1>2. Number(<<>>) = 0 /\ Pow2[0] = 1
  BY ValueNone, Pow2Is DEF Number
<1>3. From(t, 1) = t
  BY SubSeqFull DEF From
<1>4. Number(SubSeq(t, 1, 0)) = 0
  BY <1>1, <1>2, Zenon
<1>5. m * 1 + 0 = m
  OBVIOUS
<1> QED BY <1>2, <1>3, <1>4, <1>5, Zenon

\* What holds of all that may come behind a bit holds when nothing comes.
LEMMA AllRead ==
  ASSUME bits' \in Seq(Binary), NEW v, \A t \in Seq(Binary) : t = <<>> => Denoted(bits' \o t) = v,
         Done(v)
  PROVE  SymbolInv'
<1>1. q'.of = "done" /\ token' = v
  BY FieldsOf DEF Done
<1>2. <<>> \in Seq(Binary) /\ bits' \o <<>> = bits'
  BY ConcatEmptySeq
<1>3. Denoted(bits') = v
  BY <1>2
<1>4. DoneTold'
  BY <1>1, <1>3 DEF DoneTold
<1> QED BY <1>1, <1>4, NotAsked DEF SymbolInv, FlagKinds

LEMMA LengthSpelt ==
  ASSUME BitsInv, SymbolInv, NEW b \in Binary, bits' = Append(bits, b), LenBit(b) PROVE SymbolInv'
<1> DEFINE lv == LevelsOf(q.of)
           symbol == 2 * q.mi + b
<1>1. /\ bits \in Seq(Binary) /\ LengthTold /\ q.of \in {"LenLow", "LenMid", "LenHigh"}
      /\ rank' = rank /\ off' = off /\ QuestionInv
  BY DEF SymbolInv, LenBit, BitsInv
<1>2. /\ bits' \in Seq(Binary)
      /\ \A t \in Seq(Binary) :
           /\ <<b>> \o t \in Seq(Binary) /\ Len(<<b>> \o t) = Len(t) + 1 /\ Len(t) \in Nat
           /\ bits' \o t = bits \o (<<b>> \o t)
  BY <1>1, BitRead
<1>3. /\ q.mi \in Nat /\ lv \in Nat \ {0} /\ InTree(lv) /\ left \in Nat \ {0} /\ off \in Nat
      /\ Pow2[lv] \in Nat /\ symbol \in Nat /\ b \in 0 .. 1 /\ left \in Int
  <2>1. lv \in Nat \ {0} /\ InTree(lv)
    BY <1>1, FieldWidths DEF BitsInv, TreeInv, LevelsOf
  <2>2. InNode(q.mi, lv, left)
    BY <2>1, Zenon DEF InTree
  <2> HIDE DEF lv
  <2>3. left \in Nat \ {0}
    BY <2>1, <2>2 DEF InNode
  <2>4. q.mi \in Nat /\ off \in Nat
    BY DEF BitsInv, QuestionInv, RegistersInv
  <2>5. b \in 0 .. 1 /\ symbol \in Nat
    BY <2>4 DEF Binary
  <2>6. lv \in Nat /\ left \in Int
    BY <2>1, <2>3
  <2>7. Pow2[lv] \in Nat
    BY <2>6, Pow2Step
  <2> QED BY <2>1, <2>3, <2>4, <2>5, <2>6, <2>7, Zenon
<1>4. ASSUME NEW t \in Seq(Binary), left - 1 <= Len(t)
      PROVE  Denoted(bits' \o t) =
               Further(rank, off + ((symbol * Pow2[left - 1] + Number(SubSeq(t, 1, left - 1))) - Pow2[lv]), From(t, left))
  <2>0. TreeSum(<<b>> \o t) = symbol * Pow2[left - 1] + Number(SubSeq(t, 1, left - 1)) /\ From(<<b>> \o t, left + 1) = From(t, left)
    <3>1. q.mi \in Nat /\ left \in Nat \ {0} /\ left - 1 <= Len(t)
      BY <1>3, <1>4
    <3> QED BY <3>1, TreeBit DEF TreeSum
  <2> DEFINE more == <<b>> \o t
  <2>1. more \in Seq(Binary) /\ Len(more) = Len(t) + 1 /\ bits' \o t = bits \o more /\ Len(t) \in Nat
    BY <1>2
  <2>2. TreeSum(more) = symbol * Pow2[left - 1] + Number(SubSeq(t, 1, left - 1)) /\ From(more, left + 1) = From(t, left)
    BY <2>0
  <2> HIDE DEF more
  <2>3. left <= Len(more)
    BY <1>3, <1>4, <2>1
  <2>4. Denoted(bits \o more) = Further(rank, off + (TreeSum(more) - Pow2[lv]), From(more, left + 1))
    BY <1>1, <2>1, <2>3, Zenon DEF LengthTold
  <2> QED BY <2>1, <2>2, <2>4, Zenon
<1>5. CASE left > 1
  <2>1. Climb(b)
    BY <1>5 DEF LenBit
  <2>2. q'.of = q.of /\ q'.mi = symbol /\ left' = left - 1
    BY <1>1, <1>3, <1>5, <2>1, Climbed
  <2>3. (left - 1) + 1 = left
    BY <1>3
  <2>4. LengthTold'
    BY <1>1, <1>4, <2>2, <2>3 DEF LengthTold, TreeSum
  <2> QED BY <1>1, <1>2, <2>2, <2>4, NotAsked DEF SymbolInv, FlagKinds
<1>6. CASE ~ (left > 1)
  <2>1. left = 1 /\ left - 1 = 0
    BY <1>3, <1>6
  <2>2. len' = TreeValue(b) + off
    BY <1>6 DEF LenBit
  <2>3. len' = off + (symbol - Pow2[lv]) /\ len' \in Int
    <3> DEFINE p == Pow2[lv]
    <3>1. len' = 2 * q.mi + b - p + off
      BY <2>2 DEF TreeValue
    <3>2. p \in Nat /\ q.mi \in Nat /\ b \in 0 .. 1 /\ off \in Nat
      BY <1>3
    <3> HIDE DEF p
    <3>3. len' = off + (symbol - p) /\ len' \in Int
      BY <3>1, <3>2
    <3> QED BY <3>3 DEF p
  <2>4. ASSUME NEW t \in Seq(Binary) PROVE Denoted(bits' \o t) = Further(rank, len', t)
    <3>1. /\ symbol * Pow2[0] + Number(SubSeq(t, 1, 0)) = symbol /\ From(t, 1) = t
      BY <1>3, NothingLeft
    <3>2. 0 <= Len(t)
      BY <1>2
    <3> HIDE DEF symbol
    <3>3. Denoted(bits' \o t) = Further(rank, off + ((symbol * Pow2[0] + Number(SubSeq(t, 1, 0))) - Pow2[lv]), From(t, 1))
      BY <1>4, <2>1, <3>2, Zenon
    <3> QED BY <2>3, <3>1, <3>3, Zenon
  <2>5. CASE rank = -1
    <3>1. Plant("PosSlot", LenState(len'), 0, SlotBits)
      BY <1>6, <2>5 DEF LenBit
    <3>2. SlotBits \in Nat \ {0}
      BY FieldWidths
    <3>3. q'.of = "PosSlot" /\ q'.mi = 1 /\ left' = SlotBits
      BY <3>1, <3>2, Planted
    <3>4. ASSUME NEW t \in Seq(Binary), SlotBits <= Len(t)
          PROVE  Denoted(bits' \o t) =
                   NewMatch(len', (1 * Pow2[SlotBits] + Number(SubSeq(t, 1, SlotBits))) - Pow2[SlotBits], From(t, SlotBits + 1))
      <4>1. (1 * Pow2[SlotBits] + Number(SubSeq(t, 1, SlotBits))) - Pow2[SlotBits] = Number(SubSeq(t, 1, SlotBits))
        BY <3>2, <3>4, TreePlanted
      <4>2. Denoted(bits' \o t) = Further(-1, len', t)
        BY <2>4, <2>5, Zenon
      <4>3. Denoted(bits' \o t) = NewMatch(len', Number(SubSeq(t, 1, SlotBits)), From(t, SlotBits + 1))
        BY <4>2 DEF Further
      <4> QED BY <4>1, <4>3, Zenon
    <3>5. SlotTold'
      BY <3>3, <3>4 DEF SlotTold, TreeSum
    <3> QED BY <1>2, <3>3, <3>5, NotAsked DEF SymbolInv, FlagKinds
  <2>6. CASE rank # -1
    <3>1. Done([kind |-> "rep", rank |-> rank, len |-> len' + MinLen])
      BY <1>6, <2>6 DEF LenBit
    <3>2. ASSUME NEW t \in Seq(Binary), t = <<>>
          PROVE  Denoted(bits' \o t) = [kind |-> "rep", rank |-> rank, len |-> len' + MinLen]
      BY <2>4, <2>6 DEF Further
    <3> QED BY <1>2, <3>1, <3>2, AllRead
  <2> QED BY <2>5, <2>6
<1> QED BY <1>5, <1>6

LEMMA WholePart ==
  ASSUME NEW w \in Nat \ {0}, NEW c \in Nat, NEW y \in Nat
  PROVE  (w * c + y) % w = y % w
<1> DEFINE k == y \div w
           r == y % w
           x == w * c + y
           l == x \div w
           s == x % w
<1>1. k \in Nat /\ r \in Nat /\ r < w /\ y = w * k + r
  BY Remainder
<1>2. x \in Nat
  <2>1. w * c \in Nat
    OBVIOUS
  <2> QED BY <2>1
<1>3. l \in Nat /\ s \in Nat /\ s < w /\ x = w * l + s
  <2> HIDE DEF x
  <2> QED BY <1>2, Remainder
<1>4. x = w * c + y
  OBVIOUS
<1> HIDE DEF k, r, x, l, s
<1>5. x = w * (c + k) + r
  <2>1. w * (c + k) = w * c + w * k /\ w * c \in Nat /\ w * k \in Nat /\ w * (c + k) \in Nat
    BY <1>1
  <2> QED BY <1>1, <1>4, <2>1
<1>6. c + k \in Nat /\ w * (c + k) \in Nat /\ w * l \in Nat
  BY <1>1, <1>3
<1>7. l = c + k
  <2>1. w * (c + k) <= x /\ x < w * (c + k) + w
    BY <1>1, <1>5, <1>6
  <2>2. x \div w = c + k
    BY <1>2, <1>6, <2>1, QuotientIs
  <2> QED BY <2>2 DEF l
<1>8. s = r
  <2>1. w * l = w * (c + k)
    BY <1>7
  <2> HIDE DEF k
  <2> DEFINE g == w * l
  <2>2. g \in Nat /\ x = g + s /\ x = g + r
    BY <1>3, <1>5, <1>6, <2>1
  <2> HIDE DEF g
  <2> QED BY <1>1, <1>3, <2>2
<1> QED BY <1>8 DEF s, r, x

\* A distance may be reduced before its low bits are put behind it, or after.
Same(w, x, k, z) == ((x % w) * k + z) % w = (x * k + z) % w

LEMMA Reduced ==
  ASSUME NEW w \in Nat \ {0}, NEW x \in Nat, NEW k \in Nat, NEW z \in Nat
  PROVE  Same(w, x, k, z)
<1> DEFINE d == x \div w
           r == x % w
<1>1. d \in Nat /\ r \in Nat /\ x = w * d + r
  BY Remainder
<1> HIDE DEF d, r
<1>2. x * k + z = w * (d * k) + (r * k + z)
  <2>1. x * k = (w * d + r) * k
    BY <1>1
  <2>2. (w * d + r) * k = w * (d * k) + r * k
    BY <1>1
  <2>3. w * (d * k) \in Nat /\ r * k \in Nat
    BY <1>1
  <2> QED BY <2>1, <2>2, <2>3
<1>3. d * k \in Nat /\ r * k + z \in Nat
  BY <1>1
<1>4. (w * (d * k) + (r * k + z)) % w = (r * k + z) % w
  BY <1>3, WholePart
<1>5. (x * k + z) % w = (r * k + z) % w
  BY <1>2, <1>4, Zenon
<1> QED BY <1>5, Zenon DEF r, Same

LEMMA PartsBinary ==
  ASSUME NEW t \in Seq(Binary), NEW k \in Nat, k <= Len(t)
  PROVE  /\ SubSeq(t, 1, k) \in Seq(Binary) /\ From(t, k + 1) \in Seq(Binary)
         /\ Number(SubSeq(t, 1, k)) \in Nat /\ Number(Reverse(From(t, k + 1))) \in Nat
<1>1. Len(t) \in Nat /\ \A i \in 1 .. Len(t) : t[i] \in Binary
  OBVIOUS
<1>2. SubSeq(t, 1, k) \in Seq(Binary)
  <2>1. (\A i \in 1 .. k : t[i] \in Binary) /\ 1 \in Int /\ k \in Int
    BY <1>1
  <2> QED BY <2>1, SubSeqProperties
<1>3. From(t, k + 1) \in Seq(Binary)
  <2>1. (\A i \in k + 1 .. Len(t) : t[i] \in Binary) /\ k + 1 \in Int /\ Len(t) \in Int
    BY <1>1
  <2>2. SubSeq(t, k + 1, Len(t)) \in Seq(Binary)
    BY <2>1, SubSeqProperties
  <2> QED BY <2>2 DEF From
<1>4. Number(SubSeq(t, 1, k)) \in Nat
  BY <1>2, BinaryRow
<1>5. Reverse(From(t, k + 1)) \in Seq(Binary)
  BY <1>3, BinaryRow
<1>6. Number(Reverse(From(t, k + 1))) \in Nat
  BY <1>5, BinaryRow
<1> QED BY <1>2, <1>3, <1>4, <1>6

\* A distance by its slot.
LEMMA DistanceIs ==
  ASSUME NEW slot \in 0 .. Pow2[SlotBits] - 1, NEW t \in Seq(Binary)
  PROVE  /\ slot < StartPosModelIndex => Distance(slot, t) = slot
         /\ slot >= StartPosModelIndex /\ slot < EndPosModelIndex =>
              Distance(slot, t) = SlotBase(slot) + Number(Reverse(t))
         /\ slot >= EndPosModelIndex /\ Follow(slot) - AlignBits <= Len(t) =>
              Distance(slot, t) =
                ((2 + (slot % 2)) * Pow2[Follow(slot) - AlignBits] + Number(SubSeq(t, 1, Follow(slot) - AlignBits)))
                  * Pow2[AlignBits] + Number(Reverse(From(t, Follow(slot) - AlignBits + 1)))
<1> DEFINE n == Follow(slot)
           h == 2 + (slot % 2)
<1>1. slot \in Nat /\ h \in Nat /\ (slot >= StartPosModelIndex => n \in Nat)
      /\ 4 <= EndPosModelIndex /\ EndPosModelIndex \in Nat /\ AlignBits \in Nat
  <2>1. slot \in Nat
    BY SlotFacts
  <2>2. slot % 2 \in 0 .. 1
    BY <2>1
  <2>3. slot >= StartPosModelIndex => n \in Nat
    BY SlotFacts
  <2> QED BY <2>1, <2>2, <2>3, FieldWidths
<1>2. CASE slot < StartPosModelIndex
  <2>1. slot < 4 /\ ~ (slot >= StartPosModelIndex) /\ ~ (slot >= EndPosModelIndex)
    BY <1>1, <1>2 DEF StartPosModelIndex
  <2>2. Distance(slot, t) = slot
    BY <2>1 DEF Distance
  <2> QED BY <2>1, <2>2
<1>3. CASE slot >= StartPosModelIndex /\ slot < EndPosModelIndex
  <2>1. ~ (slot < 4) /\ ~ (slot >= EndPosModelIndex) /\ ~ (slot < StartPosModelIndex) /\ n \in Nat /\ 0 + 1 = 1
    BY <1>1, <1>3 DEF StartPosModelIndex
  <2>2. Distance(slot, t) = h * Pow2[n] + Number(SubSeq(t, 1, 0)) * Pow2[n - 0] + Number(Reverse(From(t, 0 + 1)))
    BY <1>3, <2>1 DEF Distance, Follow
  <2>3. Number(SubSeq(t, 1, 0)) = 0 /\ From(t, 1) = t
    BY NothingLeft
  <2>4. SlotBase(slot) = h * Pow2[n]
    BY DEF SlotBase, Follow
  <2>5. Number(Reverse(t)) \in Nat
    <3>1. Reverse(t) \in Seq(Binary)
      BY BinaryRow
    <3> QED BY <3>1, BinaryRow
  <2>6. n \in Nat
    BY <2>1
  <2> HIDE DEF n, h
  <2>7. n - 0 = n /\ Pow2[n] \in Nat
    <3>1. Pow2[n] \in Nat
      BY <2>6, Pow2Step
    <3>2. n - 0 = n
      BY <2>6
    <3> QED BY <3>1, <3>2
  <2>8. Distance(slot, t) = h * Pow2[n] + 0 * Pow2[n] + Number(Reverse(t))
    BY <2>1, <2>2, <2>3, <2>7
  <2>9. Distance(slot, t) = h * Pow2[n] + Number(Reverse(t))
    <3> DEFINE p == Pow2[n]
               v == Number(Reverse(t))
    <3>1. p \in Nat /\ v \in Nat
      BY <2>5, <2>7
    <3> HIDE DEF p, v
    <3>2. h * p \in Nat
      BY <1>1, <3>1
    <3>3. h * p + 0 * p + v = h * p + v
      BY <3>1, <3>2
    <3> QED BY <2>8, <3>3 DEF p, v
  <2> QED BY <2>1, <2>4, <2>9
<1>4. CASE slot >= EndPosModelIndex
  <2> DEFINE d == n - AlignBits
  <2>1. ~ (slot < 4) /\ ~ (slot < EndPosModelIndex) /\ ~ (slot < StartPosModelIndex) /\ slot >= StartPosModelIndex
    BY <1>1, <1>4 DEF StartPosModelIndex
  <2>2. d \in Nat /\ n \in Nat /\ n = d + AlignBits /\ n - d = AlignBits
    <3>1. Follow(slot) - AlignBits \in Nat
      BY <1>4, SlotFacts
    <3> QED BY <1>1, <2>1, <3>1
  <2> SUFFICES ASSUME d <= Len(t)
               PROVE  Distance(slot, t) = (h * Pow2[d] + Number(SubSeq(t, 1, d))) * Pow2[AlignBits] + Number(Reverse(From(t, d + 1)))
    BY <2>1
  <2>3. Distance(slot, t) = h * Pow2[n] + Number(SubSeq(t, 1, d)) * Pow2[n - d] + Number(Reverse(From(t, d + 1)))
    BY <2>1 DEF Distance, Follow
  <2>4. Number(SubSeq(t, 1, d)) \in Nat /\ Number(Reverse(From(t, d + 1))) \in Nat
    BY <2>2, PartsBinary
  <2> HIDE DEF n, h, d
  <2>5. Pow2[n] = Pow2[d] * Pow2[AlignBits] /\ Pow2[d] \in Nat /\ Pow2[AlignBits] \in Nat
    <3>1. Pow2[d + AlignBits] = Pow2[d] * Pow2[AlignBits]
      BY <1>1, <2>2, Pow2Sum
    <3> QED BY <1>1, <2>2, <3>1, Pow2Step
  <2> DEFINE p == Pow2[d]
             a == Pow2[AlignBits]
             v == Number(SubSeq(t, 1, d))
             z == Number(Reverse(From(t, d + 1)))
  <2>6. p \in Nat /\ a \in Nat /\ v \in Nat /\ z \in Nat /\ h \in Nat
    BY <1>1, <2>4, <2>5
  <2>7. Distance(slot, t) = h * (p * a) + v * a + z
    BY <2>2, <2>3, <2>5
  <2> HIDE DEF p, a, v, z
  <2>8. h * (p * a) + v * a + z = (h * p + v) * a + z
    <3>1. h * (p * a) = (h * p) * a /\ (h * p + v) * a = (h * p) * a + v * a
      BY <2>6
    <3>2. (h * p) * a \in Nat /\ v * a \in Nat
      BY <2>6
    <3> QED BY <2>6, <3>1, <3>2
  <2> QED BY <2>7, <2>8 DEF p, a, v, z
<1>5. slot < StartPosModelIndex \/ (slot >= StartPosModelIndex /\ slot < EndPosModelIndex) \/ slot >= EndPosModelIndex
  BY <1>1 DEF StartPosModelIndex
<1> QED BY <1>2, <1>3, <1>4, <1>5

LEMMA SlotSpelt ==
  ASSUME BitsInv, SymbolInv, NEW b \in Binary, bits' = Append(bits, b), SlotBit(b) PROVE SymbolInv'
<1> DEFINE symbol == 2 * q.mi + b
           slot == symbol - Pow2[SlotBits]
<1>1. /\ bits \in Seq(Binary) /\ SlotTold /\ q.of = "PosSlot" /\ len' = len /\ QuestionInv
  BY DEF SymbolInv, SlotBit, Asking, BitsInv
<1>2. /\ bits' \in Seq(Binary)
      /\ \A t \in Seq(Binary) :
           /\ <<b>> \o t \in Seq(Binary) /\ Len(<<b>> \o t) = Len(t) + 1 /\ Len(t) \in Nat
           /\ bits' \o t = bits \o (<<b>> \o t)
  BY <1>1, BitRead
<1>3. /\ q.mi \in Nat /\ SlotBits \in Nat \ {0} /\ InTree(SlotBits) /\ left \in Nat \ {0}
      /\ Pow2[SlotBits] \in Nat /\ symbol \in Nat /\ b \in 0 .. 1 /\ left \in Int
  <2>1. SlotBits \in Nat \ {0} /\ InTree(SlotBits)
    BY <1>1, FieldWidths DEF BitsInv, TreeInv
  <2>2. InNode(q.mi, SlotBits, left)
    BY <2>1, Zenon DEF InTree
  <2>3. left \in Nat \ {0}
    BY <2>1, <2>2 DEF InNode
  <2>4. q.mi \in Nat
    BY DEF BitsInv, QuestionInv
  <2>5. b \in 0 .. 1 /\ symbol \in Nat
    BY <2>4 DEF Binary
  <2>6. Pow2[SlotBits] \in Nat
    BY Sizes
  <2>7. left \in Int
    BY <2>3
  <2> QED BY <2>1, <2>3, <2>4, <2>5, <2>6, <2>7, Zenon
<1>4. ASSUME NEW t \in Seq(Binary), left - 1 <= Len(t)
      PROVE  Denoted(bits' \o t) =
               NewMatch(len, (symbol * Pow2[left - 1] + Number(SubSeq(t, 1, left - 1))) - Pow2[SlotBits], From(t, left))
  <2>1. TreeSum(<<b>> \o t) = symbol * Pow2[left - 1] + Number(SubSeq(t, 1, left - 1)) /\ From(<<b>> \o t, left + 1) = From(t, left)
    <3>1. q.mi \in Nat /\ left \in Nat \ {0} /\ left - 1 <= Len(t)
      BY <1>3, <1>4
    <3> QED BY <3>1, TreeBit DEF TreeSum
  <2> DEFINE more == <<b>> \o t
  <2>2. more \in Seq(Binary) /\ Len(more) = Len(t) + 1 /\ bits' \o t = bits \o more /\ Len(t) \in Nat
    BY <1>2
  <2>3. TreeSum(more) = symbol * Pow2[left - 1] + Number(SubSeq(t, 1, left - 1)) /\ From(more, left + 1) = From(t, left)
    BY <2>1
  <2> HIDE DEF more
  <2>4. left <= Len(more)
    BY <1>3, <1>4, <2>2
  <2>5. Denoted(bits \o more) = NewMatch(len, TreeSum(more) - Pow2[SlotBits], From(more, left + 1))
    BY <1>1, <2>2, <2>4, Zenon DEF SlotTold
  <2> QED BY <2>2, <2>3, <2>5, Zenon
<1>5. CASE left > 1
  <2>1. Climb(b)
    BY <1>5 DEF SlotBit
  <2>2. q'.of = q.of /\ q'.mi = symbol /\ left' = left - 1
    BY <1>1, <1>3, <1>5, <2>1, Climbed
  <2>3. (left - 1) + 1 = left
    BY <1>3
  <2>4. SlotTold'
    BY <1>1, <1>4, <2>2, <2>3 DEF SlotTold, TreeSum
  <2> QED BY <1>1, <1>2, <2>2, <2>4, NotAsked DEF SymbolInv, FlagKinds
<1>6. CASE ~ (left > 1)
  <2>1. left = 1 /\ left - 1 = 0
    BY <1>3, <1>6
  <2>2. TreeValue(b) = slot
    <3>1. LevelsOf(q.of) = SlotBits
      BY <1>1 DEF LevelsOf
    <3>2. TreeValue(b) = 2 * q.mi + b - Pow2[SlotBits]
      BY <3>1 DEF TreeValue
    <3> DEFINE p == Pow2[SlotBits]
    <3>3. p \in Nat /\ q.mi \in Nat /\ b \in 0 .. 1 /\ TreeValue(b) = 2 * q.mi + b - p
      BY <1>3, <3>2
    <3> HIDE DEF p
    <3>4. TreeValue(b) = symbol - p
      BY <3>3
    <3> QED BY <3>4 DEF p
  <2>3. slot \in 0 .. Pow2[SlotBits] - 1
    <3>1. ~ (left > 1) /\ left \in Nat /\ InNode(q.mi, SlotBits, left)
      BY <1>3, <1>6 DEF InTree
    <3>2. 2 * q.mi + b - Pow2[SlotBits] \in 0 .. Pow2[SlotBits] - 1
      BY <1>3, <3>1, NodeLeaf
    <3> DEFINE p == Pow2[SlotBits]
               m == q.mi
    <3>3. p \in Nat /\ m \in Nat /\ b \in 0 .. 1 /\ m * 2 + (b - p) \in 0 .. p - 1 /\ slot = (2 * m + b) - p
      <4>1. 2 * m + (b - p) \in 0 .. p - 1
        BY <3>2
      <4>2. m \in Nat /\ p \in Nat /\ b \in 0 .. 1
        BY <1>3
      <4> HIDE DEF p, m
      <4>3. m * 2 + (b - p) \in 0 .. p - 1
        BY <4>1, <4>2
      <4> QED BY <4>2, <4>3 DEF p, m
    <3> HIDE DEF p, m, slot
    <3>4. slot \in 0 .. p - 1
      BY <3>3
    <3> QED BY <3>4 DEF p
  <2>4. ASSUME NEW t \in Seq(Binary) PROVE Denoted(bits' \o t) = NewMatch(len, slot, t)
    <3>1. /\ symbol * Pow2[0] + Number(SubSeq(t, 1, 0)) = symbol /\ From(t, 1) = t
      BY <1>3, NothingLeft
    <3>2. 0 <= Len(t)
      BY <1>2
    <3> HIDE DEF symbol
    <3>3. Denoted(bits' \o t) = NewMatch(len, (symbol * Pow2[0] + Number(SubSeq(t, 1, 0))) - Pow2[SlotBits], From(t, 1))
      BY <1>4, <2>1, <3>2, Zenon
    <3> QED BY <3>1, <3>3, Zenon
  <2> HIDE DEF slot
  <2>5. \/ slot < StartPosModelIndex /\ Found(slot)
        \/ /\ slot \in StartPosModelIndex .. EndPosModelIndex - 1
           /\ rep0' = SlotBase(slot) /\ off' = 1 /\ Plant("SpecPos", slot, 0, NumDirectBits(slot))
        \/ /\ slot >= EndPosModelIndex
           /\ rep0' = 2 + (slot % 2) /\ off' = 1 /\ Plant("Direct", slot, 0, NumDirectBits(slot) - AlignBits)
    BY <1>6, <2>2 DEF SlotBit
  <2>6. CASE slot < StartPosModelIndex /\ Found(slot)
    <3>1. Done([kind |-> "match", distance |-> (slot + 1) % Wrap, len |-> len + MinLen])
      BY <2>6 DEF Found
    <3>2. ASSUME NEW t \in Seq(Binary), t = <<>>
          PROVE  Denoted(bits' \o t) = [kind |-> "match", distance |-> (slot + 1) % Wrap, len |-> len + MinLen]
      <4>1. Distance(slot, t) = slot
        BY <2>3, <2>6, DistanceIs
      <4> QED BY <2>4, <4>1 DEF NewMatch
    <3> QED BY <1>2, <3>1, <3>2, AllRead
  <2>7. CASE /\ slot \in StartPosModelIndex .. EndPosModelIndex - 1
             /\ rep0' = SlotBase(slot) /\ off' = 1 /\ Plant("SpecPos", slot, 0, NumDirectBits(slot))
    <3>1. slot >= StartPosModelIndex /\ slot < EndPosModelIndex
      BY <2>7, FieldWidths DEF StartPosModelIndex
    <3>2. q'.of = "SpecPos"
      BY <2>7, FieldsOf DEF Plant
    <3>3. ASSUME NEW t \in Seq(Binary)
          PROVE  Denoted(bits' \o t) =
                   [kind |-> "match", distance |-> ((SlotBase(slot) + 1 * Number(Reverse(t))) + 1) % Wrap, len |-> len + MinLen]
      <4>1. Distance(slot, t) = SlotBase(slot) + Number(Reverse(t))
        BY <2>3, <3>1, DistanceIs
      <4>2. 1 * Number(Reverse(t)) = Number(Reverse(t))
        <5>1. Reverse(t) \in Seq(Binary)
          BY BinaryRow
        <5>2. Number(Reverse(t)) \in Nat
          BY <5>1, BinaryRow
        <5> QED BY <5>2
      <4> QED BY <2>4, <4>1, <4>2 DEF NewMatch
    <3>4. LowTold'
      BY <1>1, <2>7, <3>2, <3>3 DEF LowTold, MatchAt
    <3> QED BY <1>2, <3>2, <3>4, NotAsked DEF SymbolInv, FlagKinds
  <2>8. CASE /\ slot >= EndPosModelIndex
             /\ rep0' = 2 + (slot % 2) /\ off' = 1 /\ Plant("Direct", slot, 0, NumDirectBits(slot) - AlignBits)
    <3> DEFINE d == Follow(slot) - AlignBits
               h == 2 + (slot % 2)
    <3>1. q'.of = "Direct" /\ left' = d
      BY <2>8, FieldsOf DEF Plant, NumDirectBits, Follow
    <3>2. ASSUME NEW t \in Seq(Binary), d <= Len(t)
          PROVE  Denoted(bits' \o t) =
                   [kind |-> "match",
                    distance |-> (((h * Pow2[d] + Number(SubSeq(t, 1, d))) * Pow2[AlignBits] + Number(Reverse(From(t, d + 1)))) + 1) % Wrap,
                    len |-> len + MinLen]
      <4>1. Distance(slot, t) = (h * Pow2[d] + Number(SubSeq(t, 1, d))) * Pow2[AlignBits] + Number(Reverse(From(t, d + 1)))
        BY <2>3, <2>8, <3>2, DistanceIs
      <4>2. Denoted(bits' \o t) = NewMatch(len, slot, t)
        BY <2>4
      <4> HIDE DEF d, h
      <4> QED BY <4>1, <4>2, Zenon DEF NewMatch
    <3> HIDE DEF d
    <3>3. rep0' = h
      BY <2>8
    <3> HIDE DEF h
    <3>4. DirectTold'
      BY <1>1, <3>1, <3>2, <3>3, Zenon DEF DirectTold, MatchAt
    <3> QED BY <1>2, <3>1, <3>4, NotAsked DEF SymbolInv, FlagKinds
  <2> QED BY <2>5, <2>6, <2>7, <2>8
<1> QED BY <1>5, <1>6

LEMMA LowSpelt ==
  ASSUME BitsInv, SymbolInv, NEW b \in Binary, bits' = Append(bits, b), LowBit(b) PROVE SymbolInv'
<1>1. /\ bits \in Seq(Binary) /\ LowTold /\ q.of \in {"SpecPos", "Align"} /\ len' = len /\ QuestionInv
      /\ off' = 2 * off
  BY DEF SymbolInv, LowBit, BitsInv
<1>2. /\ bits' \in Seq(Binary)
      /\ \A t \in Seq(Binary) :
           /\ <<b>> \o t \in Seq(Binary) /\ Len(<<b>> \o t) = Len(t) + 1 /\ Len(t) \in Nat
           /\ bits' \o t = bits \o (<<b>> \o t)
  BY <1>1, BitRead
<1>3. left \in Nat \ {0} /\ rep0 \in Nat /\ off \in Nat /\ (b = 0 \/ b = 1)
  <2>1. \E lv \in Nat : InTree(lv)
    <3>1. CASE q.of = "SpecPos"
      <4>1. q.x \in StartPosModelIndex .. EndPosModelIndex - 1 /\ InTree(Follow(q.x))
        BY <3>1 DEF BitsInv, QuestionInv, Kinds, Asked, TreeInv
      <4>2. q.x \in Nat /\ StartPosModelIndex <= q.x
        BY <4>1, FieldWidths DEF StartPosModelIndex
      <4>3. Follow(q.x) \in Nat
        BY <4>2, SlotNext
      <4> QED BY <4>1, <4>3
    <3>2. CASE q.of = "Align"
      BY <3>2, FieldWidths DEF BitsInv, TreeInv
    <3> QED BY <1>1, <3>1, <3>2
  <2>2. left \in Nat \ {0}
    BY <2>1 DEF InTree, InNode
  <2>3. off \in Nat /\ rep0 \in Nat
    BY WrapIs DEF BitsInv, RegistersInv
  <2> QED BY <2>2, <2>3 DEF Binary
<1>4. ASSUME NEW t \in Seq(Binary), Len(t) = left - 1
      PROVE  /\ Denoted(bits' \o t) = MatchAt((rep0 + b * off) + (2 * off) * Number(Reverse(t)))
             /\ Number(Reverse(t)) \in Nat
  <2>1. Number(Reverse(<<b>> \o t)) = 2 * Number(Reverse(t)) + b
    BY NumberTurned
  <2>2. Number(Reverse(t)) \in Nat
    <3>1. Reverse(t) \in Seq(Binary)
      BY BinaryRow
    <3> QED BY <3>1, BinaryRow
  <2> DEFINE more == <<b>> \o t
             v == Number(Reverse(t))
  <2>3. more \in Seq(Binary) /\ Len(more) = Len(t) + 1 /\ bits' \o t = bits \o more /\ v \in Nat
        /\ Number(Reverse(more)) = 2 * v + b
    BY <1>2, <2>1, <2>2
  <2> HIDE DEF more, v
  <2>4. Len(more) = left
    BY <1>3, <1>4, <2>3
  <2>5. Denoted(bits \o more) = MatchAt(rep0 + off * Number(Reverse(more)))
    BY <1>1, <2>3, <2>4, Zenon DEF LowTold
  <2>6. rep0 + off * (2 * v + b) = (rep0 + b * off) + (2 * off) * v
    BY <1>3, <2>3
  <2>7. Denoted(bits' \o t) = MatchAt((rep0 + b * off) + (2 * off) * v)
    BY <2>3, <2>5, <2>6, Zenon
  <2> QED BY <2>2, <2>7 DEF v
<1>5. CASE left > 1
  <2>1. Climb(b) /\ rep0' = rep0 + b * off
    BY <1>5 DEF LowBit
  <2>2. q'.of = q.of /\ left' = left - 1
    <3>1. q = Question(q.of, q.x, q.y, q.mi) /\ q' = [q EXCEPT !.mi = 2 * q.mi + b] /\ left' = left - 1
      BY <1>1, <2>1 DEF QuestionInv, Climb
    <3>2. q' = Question(q.of, q.x, q.y, 2 * q.mi + b)
      BY <3>1 DEF Question
    <3> QED BY <3>1, <3>2, FieldsOf
  <2>3. LowTold'
    BY <1>1, <1>4, <2>1, <2>2 DEF LowTold, MatchAt
  <2> QED BY <1>1, <1>2, <2>2, <2>3, NotAsked DEF SymbolInv, FlagKinds
<1>6. CASE ~ (left > 1)
  <2>1. Found(rep0 + b * off) /\ left = 1
    BY <1>3, <1>6 DEF LowBit
  <2> DEFINE r == rep0 + b * off
  <2>2. Done([kind |-> "match", distance |-> (r + 1) % Wrap, len |-> len + MinLen])
    BY <2>1 DEF Found
  <2>3. ASSUME NEW t \in Seq(Binary), t = <<>>
        PROVE  Denoted(bits' \o t) = [kind |-> "match", distance |-> (r + 1) % Wrap, len |-> len + MinLen]
    <3>1. Len(t) = left - 1 /\ Reverse(t) = <<>>
      <4>1. Len(t) = 0
        BY <2>3
      <4>2. Reverse(t) \in Seq(Binary) /\ Len(Reverse(t)) = 0
        BY <4>1, ReverseShape
      <4>3. Reverse(t) = <<>>
        BY <4>2
      <4> QED BY <2>1, <4>1, <4>3
    <3>2. Number(Reverse(t)) = 0
      BY <3>1, ValueNone DEF Number
    <3>3. Denoted(bits' \o t) = MatchAt(r + (2 * off) * Number(Reverse(t)))
      BY <1>4, <3>1
    <3>4. r + (2 * off) * 0 = r
      BY <1>3
    <3> HIDE DEF r
    <3>5. Denoted(bits' \o t) = MatchAt(r)
      BY <3>2, <3>3, <3>4, Zenon
    <3> QED BY <3>5, Zenon DEF MatchAt
  <2> QED BY <1>2, <2>2, <2>3, AllRead
<1> QED BY <1>5, <1>6

LEMMA DirectSpelt ==
  ASSUME BitsInv, SymbolInv, NEW b \in Binary, bits' = Append(bits, b), DirectBit(b) PROVE SymbolInv'
<1> DEFINE x == 2 * rep0 + b
<1>1. /\ bits \in Seq(Binary) /\ DirectTold /\ q.of = "Direct" /\ len' = len /\ off' = off
  BY DEF SymbolInv, DirectBit, Asking
<1>2. /\ bits' \in Seq(Binary)
      /\ \A t \in Seq(Binary) :
           /\ <<b>> \o t \in Seq(Binary) /\ Len(<<b>> \o t) = Len(t) + 1 /\ Len(t) \in Nat
           /\ bits' \o t = bits \o (<<b>> \o t)
  BY <1>1, BitRead
<1>3. left \in Nat \ {0} /\ rep0 \in Nat /\ off = 1 /\ x \in Nat /\ Wrap \in Nat \ {0} /\ AlignBits \in Nat
      /\ Pow2[AlignBits] \in Nat
  <2>1. left \in Nat \ {0} /\ off = 1
    BY <1>1 DEF BitsInv, TreeInv
  <2>2. rep0 \in Nat /\ Wrap \in Nat \ {0} /\ AlignBits \in Nat /\ Pow2[AlignBits] \in Nat
    BY WrapIs, FieldWidths DEF BitsInv, RegistersInv
  <2> QED BY <2>1, <2>2 DEF Binary
<1>4. ASSUME NEW t \in Seq(Binary), left - 1 <= Len(t)
      PROVE  Denoted(bits' \o t) =
               MatchAt((x * Pow2[left - 1] + Number(SubSeq(t, 1, left - 1))) * Pow2[AlignBits]
                         + Number(Reverse(From(t, left))))
  <2>1. /\ rep0 * Pow2[left] + Number(SubSeq(<<b>> \o t, 1, left)) = x * Pow2[left - 1] + Number(SubSeq(t, 1, left - 1))
        /\ From(<<b>> \o t, left + 1) = From(t, left)
    <3>1. rep0 \in Nat /\ left \in Nat \ {0} /\ left - 1 <= Len(t)
      BY <1>3, <1>4
    <3> QED BY <3>1, TreeBit
  <2> DEFINE more == <<b>> \o t
  <2>2. more \in Seq(Binary) /\ Len(more) = Len(t) + 1 /\ bits' \o t = bits \o more /\ Len(t) \in Nat
    BY <1>2
  <2>3. /\ rep0 * Pow2[left] + Number(SubSeq(more, 1, left)) = x * Pow2[left - 1] + Number(SubSeq(t, 1, left - 1))
        /\ From(more, left + 1) = From(t, left)
    BY <2>1
  <2> HIDE DEF more, x
  <2>4. left <= Len(more)
    BY <1>3, <1>4, <2>2
  <2>5. Denoted(bits \o more) =
          MatchAt((rep0 * Pow2[left] + Number(SubSeq(more, 1, left))) * Pow2[AlignBits] + Number(Reverse(From(more, left + 1))))
    BY <1>1, <2>2, <2>4, Zenon DEF DirectTold
  <2> QED BY <2>2, <2>3, <2>5, Zenon
<1> HIDE DEF x
<1>5. CASE left > 1
  <2> DEFINE n == left - 1
  <2>1. rep0' = x % Wrap /\ left' = n /\ q'.of = "Direct"
    BY <1>1, <1>5 DEF DirectBit, x
  <2>2. n \in Nat /\ n + 1 = left
    BY <1>3
  <2>3. ASSUME NEW t \in Seq(Binary), n <= Len(t)
        PROVE  Denoted(bits' \o t) =
                 [kind |-> "match",
                  distance |-> ((((x % Wrap) * Pow2[n] + Number(SubSeq(t, 1, n))) * Pow2[AlignBits]
                                    + Number(Reverse(From(t, n + 1)))) + 1) % Wrap,
                  len |-> len + MinLen]
    <3> DEFINE p == Pow2[n]
               a == Pow2[AlignBits]
               v == Number(SubSeq(t, 1, n))
               z == Number(Reverse(From(t, n + 1)))
               r == x % Wrap
    <3>1. p \in Nat /\ a \in Nat /\ v \in Nat /\ z \in Nat /\ r \in Nat
      <4>1. v \in Nat /\ z \in Nat
        BY <2>2, <2>3, PartsBinary
      <4>2. p \in Nat
        BY <2>2, Pow2Step
      <4>3. r \in Nat
        BY <1>3, InWrap
      <4> QED BY <1>3, <4>1, <4>2, <4>3
    <3>2. Denoted(bits' \o t) = MatchAt((x * p + v) * a + z)
      <4>1. Denoted(bits' \o t) = MatchAt((x * Pow2[n] + Number(SubSeq(t, 1, n))) * Pow2[AlignBits] + Number(Reverse(From(t, left))))
        BY <1>4, <2>3
      <4> HIDE DEF n
      <4> QED BY <2>2, <4>1
    <3> HIDE DEF p, a, v, z
    <3>3. (((r * p + v) * a + z) + 1) % Wrap = (((x * p + v) * a + z) + 1) % Wrap
      <4> HIDE DEF r
      <4>1. ASSUME NEW y \in Nat PROVE ((y * p + v) * a + z) + 1 = y * (p * a) + (v * a + z + 1)
        <5>1. (y * p + v) * a = y * (p * a) + v * a
          BY <3>1
        <5>2. y * (p * a) \in Nat /\ v * a \in Nat
          BY <3>1
        <5> QED BY <3>1, <5>1, <5>2
      <4>2. p * a \in Nat /\ v * a + z + 1 \in Nat
        BY <3>1
      <4> DEFINE k == p * a
                 w == v * a + z + 1
      <4>3. ((r * p + v) * a + z) + 1 = r * k + w /\ ((x * p + v) * a + z) + 1 = x * k + w
        BY <1>3, <3>1, <4>1
      <4>4. k \in Nat /\ w \in Nat
        BY <4>2
      <4> HIDE DEF k, w
      <4>5. ((x % Wrap) * k + w) % Wrap = (x * k + w) % Wrap
        <5>1. Same(Wrap, x, k, w)
          BY <1>3, <4>4, Reduced, Zenon
        <5> QED BY <5>1, Zenon DEF Same
      <4>6. (r * k + w) % Wrap = (x * k + w) % Wrap
        BY <4>5 DEF r
      <4> QED BY <4>3, <4>6, Zenon
    <3>4. Denoted(bits' \o t) = [kind |-> "match", distance |-> (((x * p + v) * a + z) + 1) % Wrap, len |-> len + MinLen]
      BY <3>2, Zenon DEF MatchAt
    <3>5. Denoted(bits' \o t) = [kind |-> "match", distance |-> (((r * p + v) * a + z) + 1) % Wrap, len |-> len + MinLen]
      BY <3>3, <3>4, Zenon
    <3> QED BY <3>5 DEF p, a, v, z, r
  <2> HIDE DEF n
  <2>4. DirectTold'
    BY <1>1, <2>1, <2>3, Zenon DEF DirectTold, MatchAt
  <2> QED BY <1>2, <2>1, <2>4, NotAsked DEF SymbolInv, FlagKinds
<1>6. CASE ~ (left > 1)
  <2>1. rep0' = (x * Pow2[AlignBits]) % Wrap /\ Plant("Align", q.x, 0, AlignBits) /\ left = 1 /\ left - 1 = 0
    BY <1>3, <1>6 DEF DirectBit, x
  <2>2. q'.of = "Align"
    BY <2>1, FieldsOf DEF Plant
  <2> DEFINE a == Pow2[AlignBits]
             y == x * a
  <2>3. a \in Nat /\ y \in Nat
    <3>1. a \in Nat
      BY <1>3
    <3> HIDE DEF a
    <3> QED BY <1>3, <3>1
  <2>4. ASSUME NEW t \in Seq(Binary)
        PROVE  Denoted(bits' \o t) =
                 [kind |-> "match", distance |-> (((y % Wrap) + 1 * Number(Reverse(t))) + 1) % Wrap, len |-> len + MinLen]
    <3> DEFINE v == Number(Reverse(t))
    <3>1. v \in Nat
      <4>1. Reverse(t) \in Seq(Binary)
        BY BinaryRow
      <4> QED BY <4>1, BinaryRow
    <3>2. x * Pow2[0] + Number(SubSeq(t, 1, 0)) = x /\ From(t, 1) = t
      BY <1>3, NothingLeft
    <3>3. Denoted(bits' \o t) = MatchAt(y + v)
      <4>1. 0 <= Len(t)
        BY <1>2
      <4>2. Denoted(bits' \o t) = MatchAt((x * Pow2[0] + Number(SubSeq(t, 1, 0))) * a + Number(Reverse(From(t, 1))))
        BY <1>4, <2>1, <4>1, Zenon
      <4> QED BY <3>2, <4>2, Zenon
    <3> HIDE DEF v, y
    <3>4. ((y % Wrap) + v + 1) % Wrap = (y + v + 1) % Wrap
      <4>1. ((y % Wrap) * 1 + (v + 1)) % Wrap = (y * 1 + (v + 1)) % Wrap
        <5> DEFINE k == 1
                   d == v + 1
        <5>1. k \in Nat /\ d \in Nat
          BY <3>1
        <5> HIDE DEF k, d
        <5>2. Same(Wrap, y, k, d)
          BY <1>3, <2>3, <5>1, Reduced, Zenon
        <5>3. ((y % Wrap) * k + d) % Wrap = (y * k + d) % Wrap
          BY <5>2, Zenon DEF Same
        <5> QED BY <5>3 DEF k, d
      <4>2. y % Wrap \in Nat
        BY <2>3, InWrap, <1>3
      <4> DEFINE r == y % Wrap
      <4>3. r \in Nat
        BY <4>2
      <4> HIDE DEF r
      <4>4. r * 1 + (v + 1) = r + v + 1 /\ y * 1 + (v + 1) = y + v + 1
        BY <2>3, <3>1, <4>3
      <4>5. (r * 1 + (v + 1)) % Wrap = (y * 1 + (v + 1)) % Wrap
        BY <4>1 DEF r
      <4>6. (r + v + 1) % Wrap = (y + v + 1) % Wrap
        BY <4>4, <4>5
      <4> QED BY <4>6 DEF r
    <3>5. 1 * v = v
      BY <3>1
    <3>6. Denoted(bits' \o t) = [kind |-> "match", distance |-> (y + v + 1) % Wrap, len |-> len + MinLen]
      BY <3>3, Zenon DEF MatchAt
    <3>7. Denoted(bits' \o t) = [kind |-> "match", distance |-> ((y % Wrap) + 1 * v + 1) % Wrap, len |-> len + MinLen]
      BY <3>4, <3>5, <3>6, Zenon
    <3> QED BY <3>7 DEF v
  <2> HIDE DEF y
  <2>5. rep0' = y % Wrap
    BY <2>1 DEF y
  <2>6. LowTold'
    BY <1>1, <1>3, <2>2, <2>4, <2>5 DEF LowTold, MatchAt
  <2> QED BY <1>2, <2>2, <2>6, NotAsked DEF SymbolInv, FlagKinds
<1> QED BY <1>5, <1>6

LEMMA SymbolStart == Init => SymbolInv
<1> SUFFICES ASSUME Init PROVE SymbolInv
  OBVIOUS
<1>1. bits = <<>> /\ q = Question("IsMatch", at.state, posState, 0)
  BY DEF Init
<1>2. q.of = "IsMatch"
  BY <1>1, FieldsOf
<1>3. bits \in Seq(Binary)
  BY <1>1
<1>4. FlagsTold /\ LiteralTold /\ ChoiceTold
  BY <1>1, <1>2 DEF FlagsTold, LiteralTold, ChoiceTold
<1>5. LengthTold /\ SlotTold /\ DirectTold /\ LowTold /\ DoneTold
  BY <1>2 DEF LengthTold, SlotTold, DirectTold, LowTold, DoneTold
<1> QED BY <1>3, <1>4, <1>5 DEF SymbolInv

LEMMA SymbolKeep == BitsInv /\ SymbolInv /\ [Next]_vars => SymbolInv'
<1> SUFFICES ASSUME BitsInv, SymbolInv, [Next]_vars PROVE SymbolInv'
  OBVIOUS
<1>1. CASE UNCHANGED vars
  <2>1. /\ at' = at /\ q' = q /\ left' = left /\ match' = match /\ off' = off /\ rank' = rank
        /\ len' = len /\ rep0' = rep0 /\ bits' = bits /\ token' = token
    BY <1>1 DEF vars
  <2>2. bits' \in Seq(Binary) /\ FlagsTold' /\ LiteralTold' /\ ChoiceTold'
    BY <2>1 DEF SymbolInv, FlagsTold, LiteralTold, ChoiceTold, TreeSum, InTree
  <2>3. LengthTold' /\ SlotTold'
    BY <2>1 DEF SymbolInv, LengthTold, SlotTold, TreeSum
  <2>4. DirectTold' /\ LowTold' /\ DoneTold'
    BY <2>1 DEF SymbolInv, DirectTold, LowTold, DoneTold, MatchAt
  <2> QED BY <2>2, <2>3, <2>4 DEF SymbolInv
<1>2. CASE Next
  <2>1. PICK b \in 0 .. 1 :
          /\ bits' = Append(bits, b)
          /\ MatchBit(b) \/ LiteralBit(b) \/ KindBit(b) \/ ChoiceBit(b) \/ LenBit(b) \/ SlotBit(b)
               \/ DirectBit(b) \/ LowBit(b)
    BY <1>2 DEF Next, Bit
  <2>2. b \in Binary
    BY DEF Binary
  <2> QED BY <2>1, <2>2, MatchTold, LiteralSpelt, KindSpelt, ChoiceSpelt, LengthSpelt, SlotSpelt, DirectSpelt, LowSpelt
<1> QED BY <1>1, <1>2

\* Whatever the widths and the setting, the registers with which LzmaDecode reads a symbol
\* (the node of a tree, the offset of a length, rep0 built up bit by bit and reduced early
\* or late) come to the literal, the length or the distance that the bits denote.
THEOREM SymbolsRight == Spec => []RightSymbol
<1>1. Init => BitsInv /\ SymbolInv
  BY BitsStart, SymbolStart
<1>2. (BitsInv /\ SymbolInv) /\ [Next]_vars => (BitsInv /\ SymbolInv)'
  BY BitsKeep, SymbolKeep
<1>3. BitsInv /\ SymbolInv => RightSymbol
  BY DEF SymbolInv, DoneTold, RightSymbol, Asking
<1> QED BY <1>1, <1>2, <1>3, PTL DEF Spec
=============================================================================
