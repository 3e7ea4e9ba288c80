-------------------------------- MODULE Printf --------------------------------
(***************************************************************************)
(* How lp_Print (src/printf.c) reads a format: characters printed as they  *)
(* are, and directives with their flags, width and conversion, whose       *)
(* fields are laid out in a buffer.                                        *)
(***************************************************************************)
EXTENDS Powers, SequencesExt, FiniteSetsExt

CONSTANTS
  Chars,         \* the characters of formats
  Meanings,      \* sequences of items that are spelt as formats
  Raw,           \* formats nobody meant anything by
  Lengths,       \* of strings and numbers
  LP_MAX_BUF

Conversions == {"b", "d", "D", "o", "O", "u", "U", "x", "X", "c", "s"}
Digits == [d \in {"0", "5", "7"} |-> CASE d = "0" -> 0 [] d = "5" -> 5 [] d = "7" -> 7]
NUL == "NUL"

Plain(ch) == [conv |-> "plain", char |-> ch]
Directive(conv, long, left, zero, width) ==
  [conv |-> conv, long |-> long, left |-> left, zero |-> zero, width |-> width]

Unmeant == <<Plain(NUL)>>   \* stands for what a raw format means

Directives ==
  {Directive(conv, long, toLeft, zero, width) :
     conv \in Conversions, long \in BOOLEAN, toLeft \in BOOLEAN, zero \in BOOLEAN, width \in {0, 5, 70}}
Items == {Plain(ch) : ch \in Chars} \cup Directives

\* What digits come to.
Decimal(s) == Value([k \in 1 .. Len(s) |-> Digits[s[k]]], 10)

\* Formats end where their NUL is, and ask for no field wider than buf: the widest
\* the program asks for is 8.
ASSUME FormatAssumption ==
  /\ {"%", "l", "-", "."} \cup DOMAIN Digits \cup Conversions \subseteq Chars /\ NUL \notin Chars
  /\ Meanings \subseteq Seq(Items) /\ Raw \subseteq Seq(Chars)
  /\ LP_MAX_BUF \in Nat /\ LP_MAX_BUF >= 70 /\ Lengths \subseteq Nat
  /\ \A s \in Raw : \A k \in 1 .. Len(s) : s[k] = "%" =>
       \A i \in k + 1 .. Len(s), j \in k .. Len(s) - 1 :
         (\A n \in k + 1 .. i - 1 : s[n] \in {"l", "-", "0"}) /\ (\A n \in i .. j : s[n] \in DOMAIN Digits) =>
           Decimal(SubSeq(s, i, j)) <= LP_MAX_BUF

VARIABLES
  reading,            \* "scan", "directive", "done", "fatal", "wild": anything
  format, meant,      \* the format, and the items it spells
  fmt,           \* the next character
  out,           \* the items that have been read
  filled         \* history: the most of buf that a field has filled

Stops == {"fatal", "wild"}

formatVars == <<reading, format, meant, fmt, out, filled>>

At(k) == IF k <= Len(format) THEN format[k] ELSE NUL

\* Where the characters of a set that begin at k end.
After(k, chars) == CHOOSE e \in k .. Len(format) + 1 : At(e) \notin chars /\ \A j \in k .. e - 1 : At(j) \in chars
Skip(k, ch) == IF At(k) = ch THEN k + 1 ELSE k

\* The string up to the next '%' is printed as it is, if it is not too long.
Scan ==
  /\ reading = "scan" /\ UNCHANGED <<format, meant, filled>>
  /\ LET e == CHOOSE k \in fmt .. Len(format) + 1 :
                 At(k) \in {"%", NUL} /\ \A j \in fmt .. k - 1 : At(j) # "%"
     IN  IF e - fmt > LP_MAX_BUF THEN reading' = "fatal" /\ UNCHANGED <<fmt, out>>
         ELSE /\ out' = out \o [k \in 1 .. e - fmt |-> Plain(At(fmt + k - 1))]
              /\ IF At(e) = NUL THEN reading' = "done" /\ fmt' = e ELSE reading' = "directive" /\ fmt' = e + 1

\* Prefixes in the order the code looks for them: l, -, 0, width, precision.
Left == Skip(fmt, "l")
Zero == Skip(Left, "-")
Width == Skip(Zero, "0")
Point == After(Width, DOMAIN Digits)
Conv == IF At(Point) = "." THEN After(Point + 1, DOMAIN Digits) ELSE Point

Read(width) ==
  Directive(At(Conv), Left # fmt, Zero # Left, Width # Zero, width)

NarrowDirective ==
  /\ reading = "directive" /\ UNCHANGED <<format, meant, filled>> /\ reading' = "scan"
  /\ out' = CASE At(Conv) = NUL -> out
              [] At(Conv) \in Conversions ->
                   Append(out, Read(IF Point = Width THEN 0 ELSE Digits[At(Point - 1)]))
              [] OTHER -> Append(out, Plain(At(Conv)))
  /\ fmt' = IF At(Conv) = NUL THEN Conv ELSE Conv + 1

NoStepBack ==
  /\ reading = "directive" /\ UNCHANGED <<format, meant, out, filled>> /\ reading' = "scan"
  /\ fmt' = Conv + 1

\* What the argument comes to: a string has any length, a number at most ten digits and
\* a sign; for base 2 and 8 there are no digits at all.
ArgumentLengths ==
  CASE At(Conv) = "s" -> Lengths
    [] At(Conv) = "c" -> {1}
    [] At(Conv) \in {"b", "o", "O"} -> {0}
    [] OTHER -> {n \in Lengths : n \in 1 .. 11}

\* A field is laid out in buf, as wide as asked for or as long as the argument, and
\* then its length is compared with the size of buf: by then a longer one has overrun the
\* stack behind buf, and lp_Print may come to the comparison or not.
Field(width) ==
  \E n \in ArgumentLengths :
    LET length == Max({width, n}) IN
      /\ filled' = Max({filled, length})
      /\ IF length > LP_MAX_BUF THEN reading' \in Stops /\ UNCHANGED <<fmt, out>>
         ELSE reading' = "scan" /\ fmt' = Conv + 1 /\ out' = Append(out, Read(width))

\* One directive; any other character is printed as it is; at the end of the string
\* the code steps back so as not to step over it.
ReadDirective ==
  /\ reading = "directive" /\ UNCHANGED <<format, meant>>
  /\ \/ At(Conv) \in Conversions /\ Field(Decimal(SubSeq(format, Width, Point - 1)))
     \/ At(Conv) = NUL /\ reading' = "scan" /\ fmt' = Conv /\ UNCHANGED <<out, filled>>
     \/ /\ At(Conv) \notin Conversions \cup {NUL}
        /\ reading' = "scan" /\ fmt' = Conv + 1 /\ out' = Append(out, Plain(At(Conv)))
        /\ UNCHANGED filled

-----------------------------------------------------------------------------
\* How an item is spelt; a precision may be given and has no effect.
Spellings(item) ==
  IF item.conv = "plain"
  THEN {IF item.char = "%" THEN <<"%", "%">> ELSE <<item.char>>}
  ELSE LET flag(on, ch) == IF on THEN <<ch>> ELSE <<>>
           width == CASE item.width = 0 -> <<>> [] item.width = 5 -> <<"5">> [] item.width = 70 -> <<"7", "0">>
       IN  {<<"%">> \o flag(item.long, "l") \o flag(item.left, "-") \o flag(item.zero, "0")
              \o width \o prec \o <<item.conv>> : prec \in {<<>>, <<".", "5">>}}

FormatInit ==
  /\ reading = "scan" /\ fmt = 1 /\ out = <<>> /\ filled = 0
  /\ \/ /\ meant \in Meanings
        /\ format \in {FlattenSeq(s) : s \in
             {t \in [1 .. Len(meant) -> UNION {Spellings(meant[k]) : k \in 1 .. Len(meant)}] :
                \A k \in 1 .. Len(meant) : t[k] \in Spellings(meant[k])}}
     \/ meant = Unmeant /\ format \in Raw

FormatNext == Scan \/ ReadDirective
FormatSpec == FormatInit /\ [][FormatNext]_formatVars

-----------------------------------------------------------------------------
\* The reader stays inside the format and its NUL, also where a directive breaks off.
FormatTypeOK ==
  /\ reading \in {"scan", "directive", "done"} \cup Stops
  /\ fmt \in 1 .. Len(format) + 1
  /\ Len(out) <= Len(format) /\ filled \in Nat

\* What is read from a format is what it spells; only a stretch without directives that
\* is longer than LP_MAX_BUF stops the program, and only an argument that is longer does
\* so after it has overrun buf, if nothing worse comes of that.
ReadsWhatIsMeant ==
  /\ reading = "done" /\ meant # Unmeant => out = meant
  /\ reading \in Stops =>
       \/ /\ reading = "fatal" /\ filled <= LP_MAX_BUF
          /\ \E k \in 1 .. Len(format) : \A j \in k .. k + LP_MAX_BUF : At(j) \notin {"%", NUL}
       \/ \E n \in Lengths : n > LP_MAX_BUF /\ filled = n
=============================================================================
