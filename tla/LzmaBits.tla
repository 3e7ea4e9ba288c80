------------------------------ MODULE LzmaBits ------------------------------
(***************************************************************************)
(* How one symbol is spelt in bits (the body of the loop of LzmaDecode):   *)
(* which probability each bit is asked under, where it lies in the table   *)
(* and what the bits come to.  LzmaDecode says what a symbol does,         *)
(* RangeCoder how a bit is taken from the data.                            *)
(*                                                                         *)
(* The widths are parameters; the code has PosBits = 4, LowBits = 3,       *)
(* MidBits = 3, HighBits = 8, SlotBits = 6, EndPosModelIndex = 14,         *)
(* AlignBits = 4, LitBits = 8 and MinLen = 2.                              *)
(***************************************************************************)
EXTENDS Powers, SequencesExt

CONSTANTS
  PosBits, LowBits, MidBits, HighBits, SlotBits, EndPosModelIndex, AlignBits,
  LitBits, MinLen,
  Settings       \* records [nowPos, pb, lp, lc]: a place in a stream

\* Slots below EndPosModelIndex have their own probabilities for the bits that
\* follow; those above have at least one direct bit in front of the aligned ones.
ASSUME BitsAssumption ==
  /\ {PosBits, LowBits, MidBits, HighBits, SlotBits, AlignBits, LitBits, MinLen} \subseteq Nat \ {0}
  /\ EndPosModelIndex \in 4 .. Pow2[SlotBits]
  /\ EndPosModelIndex % 2 = 0 /\ (EndPosModelIndex \div 2) - 1 > AlignBits
  /\ \A s \in Settings :
       {s.nowPos, s.pb, s.lp, s.lc} \subseteq Nat /\ s.pb <= PosBits /\ s.lc <= LitBits

NumStates == 12
NumLitStates == 7
StartPosModelIndex == 4
NumLenToPosStates == 4
NumFullDistances == Pow2[EndPosModelIndex \div 2]
LitSize == 3 * Pow2[LitBits]

\* The distances there are: 2^32.
Wrap == Pow2[Pow2[SlotBits - 1]]

\* The table of the probabilities.
IsMatch == 0
IsRep == IsMatch + NumStates * Pow2[PosBits]
IsRepG0 == IsRep + NumStates
IsRepG1 == IsRepG0 + NumStates
IsRepG2 == IsRepG1 + NumStates
IsRep0Long == IsRepG2 + NumStates
PosSlot == IsRep0Long + NumStates * Pow2[PosBits]
SpecPos == PosSlot + NumLenToPosStates * Pow2[SlotBits]
Align == SpecPos + NumFullDistances - EndPosModelIndex
LenCoder == Align + Pow2[AlignBits]

LenChoice == 0
LenChoice2 == LenChoice + 1
LenLow == LenChoice2 + 1
LenMid == LenLow + Pow2[PosBits] * Pow2[LowBits]
LenHigh == LenMid + Pow2[PosBits] * Pow2[MidBits]
NumLenProbs == LenHigh + Pow2[HighBits]

RepLenCoder == LenCoder + NumLenProbs
Literal == RepLenCoder + NumLenProbs
NumProbs(s) == Literal + LitSize * Pow2[s.lc + s.lp]

-----------------------------------------------------------------------------
(* The place of a probability.  A question tells what the next bit is for: *)
(* the kind of bit, what its probabilities are selected by (x and y), and  *)
(* the node mi of the tree of bits.                                        *)

Question(of, x, y, mi) == [of |-> of, x |-> x, y |-> y, mi |-> mi]

Coder(x) == IF x = 0 THEN LenCoder ELSE RepLenCoder

\* rep0 when the slot has been read and the tree of its bits is selected.
SlotBase(slot) == (2 + (slot % 2)) * Pow2[(slot \div 2) - 1]

SpecPlaceEarly(slot, mi) == SpecPos + SlotBase(slot) - slot - 2 + mi
SpecPlace(slot, mi) == SpecPos + SlotBase(slot) - slot - 1 + mi

\* y is 0, or what a matched bit adds: 0x100 and the bit of the matched byte.
LiteralPlace(x, y, mi) == Literal + LitSize * x + y * Pow2[LitBits] + mi

Place(q) ==
  CASE q.of = "IsMatch" -> IsMatch + q.x * Pow2[PosBits] + q.y
    [] q.of = "IsRep" -> IsRep + q.x
    [] q.of = "IsRepG0" -> IsRepG0 + q.x
    [] q.of = "IsRepG1" -> IsRepG1 + q.x
    [] q.of = "IsRepG2" -> IsRepG2 + q.x
    [] q.of = "IsRep0Long" -> IsRep0Long + q.x * Pow2[PosBits] + q.y
    [] q.of = "LenChoice" -> Coder(q.x) + LenChoice
    [] q.of = "LenChoice2" -> Coder(q.x) + LenChoice2
    [] q.of = "LenLow" -> Coder(q.x) + LenLow + q.y * Pow2[LowBits] + q.mi
    [] q.of = "LenMid" -> Coder(q.x) + LenMid + q.y * Pow2[MidBits] + q.mi
    [] q.of = "LenHigh" -> Coder(q.x) + LenHigh + q.mi
    [] q.of = "PosSlot" -> PosSlot + q.x * Pow2[SlotBits] + q.mi
    [] q.of = "SpecPos" -> SpecPlace(q.x, q.mi)
    [] q.of = "Align" -> Align + q.mi
    [] q.of = "Literal" -> LiteralPlace(q.x, q.y, q.mi)

-----------------------------------------------------------------------------
VARIABLES
  at,            \* where in the stream: a setting, and the state
  q,             \* the question the next bit answers; q.of is "done" at the end
  left,          \* levels of the tree still to go
  match,         \* what is left of the matched byte
  off,           \* offset of the length being read, or of the aligned bits
  rank,          \* the distance used: 0 .. 3, or -1 for a new one
  len, rep0,     \* len, rep0
  bits,          \* history: the bits of the symbol so far
  token          \* the symbol read

vars == <<at, q, left, match, off, rank, len, rep0, bits, token>>

posState == at.nowPos % Pow2[at.pb]

LiteralContext(previousByte) ==
  (at.nowPos % Pow2[at.lp]) * Pow2[at.lc] + (previousByte \div Pow2[LitBits - at.lc])

Done(t) == q' = Question("done", 0, 0, 0) /\ token' = t

\* The first question of a tree.
Plant(of, x, y, levels) == q' = Question(of, x, y, 1) /\ left' = levels

\* One node further down a tree.
Climb(b) == q' = [q EXCEPT !.mi = 2 * q.mi + b] /\ left' = left - 1

Asking(of) == q.of = of

\* The bit of the matched byte now in question, as a part of a literal's table.
MatchPart(byte) == 1 + (((2 * byte) \div Pow2[LitBits]) % 2)

\* A literal, matched with the byte at rep0 if it comes after a match.
MatchBit(b) ==
  /\ Asking("IsMatch")
  /\ IF b = 0
       THEN \E previousByte, matchByte \in 0 .. Pow2[LitBits] - 1 :
              IF at.state >= NumLitStates
                THEN /\ match' = 2 * matchByte
                     /\ Plant("Literal", LiteralContext(previousByte), MatchPart(matchByte), LitBits)
                ELSE /\ match' = 0
                     /\ Plant("Literal", LiteralContext(previousByte), 0, LitBits)
       ELSE q' = Question("IsRep", at.state, 0, 0) /\ UNCHANGED <<left, match>>
  /\ UNCHANGED <<at, off, rank, len, rep0, token>>

\* After a bit that differs the literal goes on like any other.
StillMatched(b) == q.y # 0 /\ b = q.y - 1

LiteralBit(b) ==
  /\ Asking("Literal")
  /\ left' = left - 1
  /\ LET symbol == 2 * q.mi + b IN
       IF symbol < Pow2[LitBits]
         THEN /\ q' = [q EXCEPT !.mi = symbol, !.y = IF StillMatched(b) THEN MatchPart(match) ELSE 0]
              /\ match' = IF StillMatched(b) THEN 2 * match ELSE 0
              /\ UNCHANGED token
         ELSE /\ Done([kind |-> "literal", byte |-> symbol % Pow2[LitBits]])
              /\ UNCHANGED match
  /\ UNCHANGED <<at, off, rank, len, rep0>>

\* The bits that tell the kinds of match apart.
LenFrom(coder, r) ==
  q' = Question("LenChoice", coder, 0, 0) /\ rank' = r /\ UNCHANGED token

KindBit(b) ==
  /\ \/ Asking("IsRep") /\ b = 0 /\ LenFrom(0, -1)
     \/ /\ Asking("IsRep") /\ b = 1
        /\ q' = Question("IsRepG0", at.state, 0, 0) /\ UNCHANGED <<rank, token>>
     \/ /\ Asking("IsRepG0") /\ b = 0
        /\ q' = Question("IsRep0Long", at.state, posState, 0) /\ UNCHANGED <<rank, token>>
     \/ Asking("IsRep0Long") /\ b = 0 /\ Done([kind |-> "short"]) /\ UNCHANGED rank
     \/ Asking("IsRep0Long") /\ b = 1 /\ LenFrom(1, 0)
     \/ /\ Asking("IsRepG0") /\ b = 1
        /\ q' = Question("IsRepG1", at.state, 0, 0) /\ UNCHANGED <<rank, token>>
     \/ Asking("IsRepG1") /\ b = 0 /\ LenFrom(1, 1)
     \/ /\ Asking("IsRepG1") /\ b = 1
        /\ q' = Question("IsRepG2", at.state, 0, 0) /\ UNCHANGED <<rank, token>>
     \/ Asking("IsRepG2") /\ LenFrom(1, 2 + b)
  /\ UNCHANGED <<at, left, match, off, len, rep0>>

\* A length.
ChoiceBit(b) ==
  /\ \/ /\ Asking("LenChoice") /\ b = 0
        /\ off' = 0 /\ Plant("LenLow", q.x, posState, LowBits)
     \/ /\ Asking("LenChoice") /\ b = 1
        /\ q' = Question("LenChoice2", q.x, 0, 0) /\ UNCHANGED <<off, left>>
     \/ /\ Asking("LenChoice2") /\ b = 0
        /\ off' = Pow2[LowBits] /\ Plant("LenMid", q.x, posState, MidBits)
     \/ /\ Asking("LenChoice2") /\ b = 1
        /\ off' = Pow2[LowBits] + Pow2[MidBits] /\ Plant("LenHigh", q.x, 0, HighBits)
  /\ UNCHANGED <<at, match, rank, len, rep0, token>>

LevelsOf(of) ==
  CASE of = "LenLow" -> LowBits [] of = "LenMid" -> MidBits [] of = "LenHigh" -> HighBits
    [] of = "PosSlot" -> SlotBits

TreeValueWithTop(b) == 2 * q.mi + b

\* RangeDecoderBitTreeDecode, once its last bit is there.
TreeValue(b) == 2 * q.mi + b - Pow2[LevelsOf(q.of)]

LenState(n) == IF n < NumLenToPosStates THEN n ELSE NumLenToPosStates - 1

LenBit(b) ==
  /\ q.of \in {"LenLow", "LenMid", "LenHigh"}
  /\ IF left > 1
       THEN Climb(b) /\ UNCHANGED <<len, token>>
       ELSE /\ len' = TreeValue(b) + off
            /\ IF rank = -1
                 THEN Plant("PosSlot", LenState(len'), 0, SlotBits) /\ UNCHANGED token
                 ELSE Done([kind |-> "rep", rank |-> rank, len |-> len' + MinLen]) /\ left' = 0
  /\ UNCHANGED <<at, match, off, rank, rep0>>

FoundUnwrapped(r) ==
  /\ rep0' = r + 1
  /\ Done([kind |-> "match", distance |-> rep0', len |-> len + MinLen])

\* ++rep0, and the end of the symbol; 0 is the end marker.
Found(r) ==
  /\ rep0' = (r + 1) % Wrap
  /\ Done([kind |-> "match", distance |-> rep0', len |-> len + MinLen])

\* How many bits follow the slot.
NumDirectBits(slot) == (slot \div 2) - 1

\* A distance: first its slot, that is its two high bits and how many follow.
SlotBit(b) ==
  /\ Asking("PosSlot")
  /\ IF left > 1
       THEN Climb(b) /\ UNCHANGED <<off, rep0, token>>
       ELSE LET slot == TreeValue(b) IN
            \/ /\ slot < StartPosModelIndex
               /\ Found(slot) /\ left' = 0 /\ UNCHANGED off
            \/ /\ slot \in StartPosModelIndex .. EndPosModelIndex - 1
               /\ rep0' = SlotBase(slot) /\ off' = 1
               /\ Plant("SpecPos", slot, 0, NumDirectBits(slot)) /\ UNCHANGED token
            \/ /\ slot >= EndPosModelIndex
               /\ rep0' = 2 + (slot % 2) /\ off' = 1
               /\ Plant("Direct", slot, 0, NumDirectBits(slot) - AlignBits) /\ UNCHANGED token
  /\ UNCHANGED <<at, match, rank, len>>

\* Bits that have no probabilities.
DirectBit(b) ==
  /\ Asking("Direct")
  /\ rep0' = (IF left > 1 THEN 2 * rep0 + b ELSE (2 * rep0 + b) * Pow2[AlignBits]) % Wrap
  /\ IF left > 1
       THEN left' = left - 1 /\ UNCHANGED q
       ELSE Plant("Align", q.x, 0, AlignBits)
  /\ UNCHANGED <<at, match, off, rank, len, token>>

\* The lowest bits, from the lowest up; off is the code's i.
LowBit(b) ==
  /\ q.of \in {"SpecPos", "Align"}
  /\ off' = 2 * off
  /\ IF left > 1
       THEN Climb(b) /\ rep0' = rep0 + b * off /\ UNCHANGED token
       ELSE Found(rep0 + b * off) /\ left' = 0
  /\ UNCHANGED <<at, match, rank, len>>

Init ==
  /\ \E s \in Settings, st \in 0 .. NumStates - 1 :
       at = [nowPos |-> s.nowPos, pb |-> s.pb, lp |-> s.lp, lc |-> s.lc, state |-> st]
  /\ q = Question("IsMatch", at.state, posState, 0)
  /\ left = 0 /\ match = 0 /\ off = 0 /\ rank = -1 /\ len = 0 /\ rep0 = 1
  /\ bits = << >> /\ token = [kind |-> "none"]

Bit(b) ==
  /\ bits' = Append(bits, b)
  /\ MatchBit(b) \/ LiteralBit(b) \/ KindBit(b) \/ ChoiceBit(b) \/ LenBit(b) \/ SlotBit(b)
       \/ DirectBit(b) \/ LowBit(b)

Next == \E b \in 0 .. 1 : Bit(b)

Spec == Init /\ [][Next]_vars

-----------------------------------------------------------------------------
Kinds ==
  {"IsMatch", "IsRep", "IsRepG0", "IsRepG1", "IsRepG2", "IsRep0Long", "LenChoice",
   "LenChoice2", "LenLow", "LenMid", "LenHigh", "PosSlot", "SpecPos", "Align", "Literal"}

\* The longest match.
MaxLen == MinLen + Pow2[LowBits] + Pow2[MidBits] + Pow2[HighBits] - 1

TypeOK ==
  /\ at.state \in 0 .. NumStates - 1
  /\ q.of \in Kinds \cup {"Direct", "done"} /\ q.mi \in Nat
  /\ left \in Int /\ off \in Nat
  /\ rank \in -1 .. 3
  /\ rep0 \in 0 .. Wrap - 1
  /\ token.kind \in {"none", "literal", "short", "rep", "match"}
  /\ token.kind \in {"rep", "match"} => token.len \in MinLen .. MaxLen

\* All questions a decoder may ask at some place of a stream with lc and lp.
Questions ==
  LET Node(n) == 1 .. Pow2[n] - 1
      Pos == 0 .. Pow2[PosBits] - 1
      State == 0 .. NumStates - 1
  IN  [of : {"IsMatch", "IsRep0Long"}, x : State, y : Pos, mi : {0}]
      \cup [of : {"IsRep", "IsRepG0", "IsRepG1", "IsRepG2"}, x : State, y : {0}, mi : {0}]
      \cup [of : {"LenChoice", "LenChoice2"}, x : 0 .. 1, y : {0}, mi : {0}]
      \cup [of : {"LenLow"}, x : 0 .. 1, y : Pos, mi : Node(LowBits)]
      \cup [of : {"LenMid"}, x : 0 .. 1, y : Pos, mi : Node(MidBits)]
      \cup [of : {"LenHigh"}, x : 0 .. 1, y : {0}, mi : Node(HighBits)]
      \cup [of : {"PosSlot"}, x : 0 .. NumLenToPosStates - 1, y : {0}, mi : Node(SlotBits)]
      \cup (UNION {[of : {"SpecPos"}, x : {slot}, y : {0}, mi : Node((slot \div 2) - 1)] :
                     slot \in StartPosModelIndex .. EndPosModelIndex - 1})
      \cup [of : {"Literal"}, x : 0 .. Pow2[at.lc + at.lp] - 1, y : 0 .. 2, mi : Node(LitBits)]

\* Every probability asked for lies in the table whose size LzmaDecode resets,
\* and belongs to this question alone: no two kinds of bits share what they
\* have learnt, for all that their tables are laid out by sums of shifted numbers.
\* (The aligned bits of all slots share one table, as they should.)
OwnPlace ==
  q.of \in Kinds =>
    /\ Place(q) \in 0 .. NumProbs(at) - 1
    /\ q.of # "Align" => q \in Questions
    /\ \A r \in Questions : Place(r) = Place(q) => r = q

\* The definition of the code of bits, from the front.
From(s, k) == SubSeq(s, k, Len(s))
Number(s) == Value(s, 2)
Distance(slot, s) ==
  LET n == (slot \div 2) - 1
      d == IF slot < EndPosModelIndex THEN 0 ELSE n - AlignBits
  IN  IF slot < 4 THEN slot
      ELSE (2 + (slot % 2)) * Pow2[n] + Number(SubSeq(s, 1, d)) * Pow2[n - d] + Number(Reverse(From(s, d + 1)))

\* A length and what follows it.
LengthAnd(s, After(_, _)) ==
  LET low == Pow2[LowBits]
      mid == Pow2[MidBits] IN
  IF s[1] = 0 THEN After(Number(SubSeq(s, 2, LowBits + 1)), From(s, LowBits + 2))
  ELSE IF s[2] = 0 THEN After(low + Number(SubSeq(s, 3, MidBits + 2)), From(s, MidBits + 3))
  ELSE After(low + mid + Number(SubSeq(s, 3, HighBits + 2)), From(s, HighBits + 3))

Denoted(s) ==
  LET Repeated(r, t) == LengthAnd(t, LAMBDA n, rest : [kind |-> "rep", rank |-> r, len |-> n + MinLen])
  IN  IF s[1] = 0 THEN [kind |-> "literal", byte |-> Number(Tail(s))]
      ELSE IF s[2] = 0 THEN
        LengthAnd(From(s, 3), LAMBDA n, rest :
          [kind |-> "match", len |-> n + MinLen,
           distance |-> (Distance(Number(SubSeq(rest, 1, SlotBits)), From(rest, SlotBits + 1)) + 1) % Wrap])
      ELSE IF s[3] = 0 THEN IF s[4] = 0 THEN [kind |-> "short"] ELSE Repeated(0, From(s, 5))
      ELSE IF s[4] = 0 THEN Repeated(1, From(s, 5))
      ELSE Repeated(2 + s[5], From(s, 6))

\* What the registers of the decoder come to is what the bits denote.
RightSymbol == Asking("done") => token = Denoted(bits)
=============================================================================
