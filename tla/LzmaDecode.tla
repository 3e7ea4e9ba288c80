----------------------------- MODULE LzmaDecode -----------------------------
(***************************************************************************)
(* The LZMA decoder (src/LzmaDecode.c, called by src/lzma.c), symbol by    *)
(* symbol: the four last distances, the state that selects probabilities,  *)
(* the output and the copying of matches byte by byte.  What the bits say  *)
(* is up to the stream, and arbitrary here: module LzmaBits models how a   *)
(* symbol is spelt in bits, RangeCoder how a bit is taken from the data.   *)
(*                                                                         *)
(* Input may run out at any bit.  The decoder then returns at once: what   *)
(* it had already changed of its local variables is dead and left alone    *)
(* here.                                                                   *)
(***************************************************************************)
EXTENDS Integers, Sequences

CONSTANTS
  Bytes,         \* values of a byte
  Sizes,         \* uncompressed sizes a header may announce
  MinLen,        \* kMatchMinLen
  MaxLen,        \* the longest match LzmaBits can spell
  Wrap           \* 2^32: the UInt32 distance wraps here

ASSUME LzmaDecodeAssumption ==
  /\ 0 \in Bytes /\ Wrap \in Nat /\ Sizes \subseteq 0 .. Wrap - 1
  /\ MinLen \in Nat /\ MinLen >= 1 /\ MaxLen \in Nat /\ MaxLen >= MinLen
  /\ Wrap >= 2

Lengths == MinLen .. MaxLen
Ranks == 0 .. 3

VARIABLES
  pc,            \* "start", "init", "loop", "copy", "last", "done"
  ret,           \* result of lzma_gogogo
  outSize,       \* lzma_outsize
  out,           \* outStream; its length is nowPos
  rep,           \* rep0 .. rep3
  state,         \* state
  previousByte,  \* previousByte
  len,           \* len, in the copy loop
  text, recent   \* history: out and rep when the last symbol was complete

vars == <<pc, ret, outSize, out, rep, state, previousByte, len, text, recent>>

nowPos == Len(out)

NumLitStates == 7

Return(r) ==
  /\ pc' = "done" /\ ret' = r
  /\ UNCHANGED <<outSize, out, rep, state, previousByte, len, text, recent>>

-----------------------------------------------------------------------------
\* lzma_init_props takes the header and finds the properties good or bad.
InitProps ==
  /\ pc = "start"
  /\ \/ Return(-1)
     \/ /\ pc' = "init"
        /\ UNCHANGED <<ret, outSize, out, rep, state, previousByte, len, text, recent>>

\* The variables of LzmaDecode; RC_INIT.
Start ==
  /\ pc = "init"
  /\ pc' = "loop" /\ out' = << >> /\ rep' = [i \in Ranks |-> 1]
  /\ state' = 0 /\ previousByte' = 0 /\ len' = 0
  /\ text' = << >> /\ recent' = rep'
  /\ UNCHANGED <<ret, outSize>>

\* RC_TEST fails at some bit: LZMA_RESULT_DATA_ERROR.
InputEnds == pc \in {"init", "loop", "last"} /\ Return(-2)

InLoop == pc = "loop" /\ nowPos < outSize

AfterLiteral(s) == IF s < 4 THEN 0 ELSE IF s < 10 THEN s - 3 ELSE s - 6

DecodeLiteralInPlace ==
  /\ InLoop
  /\ \E b \in Bytes : previousByte' = b
  /\ state' = AfterLiteral(state)
  /\ UNCHANGED <<pc, ret, outSize, out, rep, len, text, recent>>

DecodeLiteral ==
  /\ InLoop
  /\ \E b \in Bytes : previousByte' = b /\ out' = Append(out, b)
  /\ state' = AfterLiteral(state)
  /\ text' = out' /\ recent' = rep
  /\ UNCHANGED <<pc, ret, outSize, rep, len>>

\* outStream[nowPos - rep0]
Back(d) == out[nowPos - d + 1]

\* A symbol "one byte at rep0".
DecodeShortRep ==
  /\ InLoop
  /\ \/ nowPos = 0 /\ Return(-2)
     \/ /\ nowPos # 0
        /\ state' = IF state < NumLitStates THEN 9 ELSE 11
        /\ previousByte' = Back(rep[0]) /\ out' = Append(out, previousByte')
        /\ text' = out' /\ recent' = rep
        /\ UNCHANGED <<pc, ret, outSize, rep, len>>

TooFarLate(d) == d > nowPos + 1

\* Is there a byte that far back?
TooFar(d) == d > nowPos

\* The check of rep0 = r[0] and the entry into the copy loop.
Copy(r, s) ==
  \/ TooFar(r[0]) /\ Return(-2)
  \/ /\ ~TooFar(r[0])
     /\ pc' = "copy" /\ rep' = r /\ state' = s
     /\ len' \in Lengths
     /\ UNCHANGED <<ret, outSize, out, previousByte, text, recent>>

RotatedShort(k) ==
  [rep EXCEPT ![0] = rep[k],
              ![1] = IF k >= 1 THEN rep[0] ELSE @,
              ![2] = IF k >= 2 THEN rep[1] ELSE @]

\* rep0 .. rep3 once the k-th of them is used again.
Rotated(k) ==
  [rep EXCEPT ![0] = rep[k],
              ![1] = IF k >= 1 THEN rep[0] ELSE @,
              ![2] = IF k >= 2 THEN rep[1] ELSE @,
              ![3] = IF k = 3 THEN rep[2] ELSE @]

DecodeRep ==
  /\ InLoop
  /\ \E k \in Ranks : Copy(Rotated(k), IF state < NumLitStates THEN 8 ELSE 11)

\* Has ++rep0 come out as 0?
Marker(d) == d = 0

\* The end of a stream version: break.
EndMarker ==
  /\ pc' = "last"
  /\ UNCHANGED <<ret, outSize, out, rep, state, previousByte, len, text, recent>>

\* A match at a new distance.
DecodeMatch ==
  /\ InLoop
  /\ \E x \in 0 .. Wrap - 1 : LET d == (x + 1) % Wrap IN
       \/ Marker(d) /\ EndMarker
       \/ /\ ~Marker(d)
          /\ Copy([i \in Ranks |-> IF i = 0 THEN d ELSE rep[i - 1]],
                  IF state < NumLitStates THEN 7 ELSE 10)

MoreUnlimited == len' # 0

\* The test at the end of the copy loop.
More == len' # 0 /\ nowPos' < outSize

CopyByte ==
  /\ pc = "copy"
  /\ previousByte' = Back(rep[0]) /\ out' = Append(out, previousByte')
  /\ len' = len - 1
  /\ IF More THEN pc' = "copy" /\ UNCHANGED <<text, recent>>
             ELSE pc' = "loop" /\ text' = out' /\ recent' = rep
  /\ UNCHANGED <<ret, outSize, rep, state>>

\* The output is full.
LoopEnds ==
  /\ pc = "loop" /\ nowPos >= outSize
  /\ pc' = "last"
  /\ UNCHANGED <<ret, outSize, out, rep, state, previousByte, len, text, recent>>

LastNormalize == pc = "last" /\ Return(0)

Init ==
  /\ pc = "start" /\ ret = 0 /\ outSize \in Sizes
  /\ out = << >> /\ rep = [i \in Ranks |-> 1] /\ state = 0
  /\ previousByte = 0 /\ len = 0
  /\ text = << >> /\ recent = rep

Next ==
  InitProps \/ Start \/ InputEnds \/ DecodeLiteral \/ DecodeShortRep \/ DecodeRep
    \/ DecodeMatch \/ CopyByte \/ LoopEnds \/ LastNormalize

Spec == Init /\ [][Next]_vars

\* Straight-line code on one processor: it goes on until it returns.
FairSpec == Spec /\ WF_vars(Next)

-----------------------------------------------------------------------------
TypeOK ==
  /\ pc \in {"start", "init", "loop", "copy", "last", "done"}
  /\ ret \in {0, -1, -2} /\ outSize \in Sizes
  /\ out \in Seq(Bytes) /\ text \in Seq(Bytes)
  /\ rep \in [Ranks -> 1 .. Wrap - 1] /\ recent \in [Ranks -> 1 .. Wrap - 1]
  /\ state \in 0 .. 11
  /\ previousByte \in Bytes
  /\ len \in 0 .. MaxLen

\* Every byte read back from the output has been written: in the copy loop, as
\* the byte a literal after a match is matched with, and for a short repetition.
\* The last two are read without looking at rep0, the reps behind it included.
ReadsInside ==
  /\ pc = "copy" => rep[0] \in 1 .. nowPos
  /\ InLoop /\ state >= NumLitStates => nowPos > 0
  /\ InLoop /\ nowPos > 0 => \A k \in Ranks : rep[k] \in 1 .. nowPos

\* Nothing is written at or behind the size the header announced, which is all
\* the room the loader has granted.
WritesInside == nowPos <= outSize /\ (pc = "copy" => nowPos < outSize)

\* The next literal's probabilities are selected by the byte before it.
PreviousInv ==
  pc \in {"loop", "copy"} => previousByte = IF nowPos = 0 THEN 0 ELSE out[nowPos]

\* In the copy loop, out is text and the copies made so far.
CopyInv ==
  pc = "copy" =>
    /\ len \in 1 .. MaxLen
    /\ rep[0] \in 1 .. Len(text) /\ Len(text) < outSize
    /\ Len(text) <= nowPos
    /\ len + (nowPos - Len(text)) \in Lengths
    /\ \A k \in 1 .. Len(text) : out[k] = text[k]
    /\ \A k \in Len(text) + 1 .. nowPos : out[k] = out[k - rep[0]]
    /\ \/ \E k \in Ranks : rep = [i \in Ranks |-> IF i = 0 THEN recent[k]
                                     ELSE IF i <= k THEN recent[i - 1] ELSE recent[i]]
       \/ rep = [i \in Ranks |-> IF i = 0 THEN rep[0] ELSE recent[i - 1]]

\* Outside the copy loop the last symbol is complete.
SyncInv ==
  /\ pc \notin {"copy", "done"} => text = out /\ recent = rep
  /\ pc \in {"start", "init"} => out = << >> /\ rep = [i \in Ranks |-> 1]

\* A distance is 1, as at the start, or one that was once checked.
RepInv ==
  /\ pc = "loop" => \A k \in Ranks : rep[k] = 1 \/ rep[k] <= nowPos
  /\ pc = "loop" /\ nowPos = 0 => state = 0
  /\ pc = "copy" => \A k \in Ranks : rep[k] <= nowPos

IInv ==
  TypeOK /\ ReadsInside /\ WritesInside /\ PreviousInv /\ CopyInv /\ SyncInv /\ RepInv

\* The decoder decodes: symbol by symbol, its output is the text the stream
\* denotes and its reps are the distances used last.
Lz == INSTANCE Lz77 WITH limit <- outSize, ended <- (pc = "done")
Decodes == Lz!Spec

\* Decoding comes to an end whatever the stream says, as every symbol but the
\* end marker makes the output longer.
Terminates == <>(pc = "done")
=============================================================================
