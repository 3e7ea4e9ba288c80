--------------------------------- MODULE Uart ---------------------------------
(***************************************************************************)
(* A string on its way to the serial line: printf_output (src/printf.c),   *)
(* serial_putc (src/qcom_uart.c) and the transmitter it drives.            *)
(***************************************************************************)
EXTENDS Integers, Sequences, SequencesExt

CONSTANTS
  Texts,         \* what is printed
  Words          \* how many words the FIFO takes

ASSUME UartAssumption == Words \in Nat \ {0} /\ Texts \subseteq Seq(STRING)

NUL == "0"
LF == "n"
CR == "r"

VARIABLES
  sending,            \* "text", "empty?", "wait", "chars", "clear", "room", "done"
  text, i,       \* s and i of printf_output
  c,             \* the character serial_putc was called with
  fifo,          \* the transmitter: words in the FIFO, each a sequence of characters
  shift,         \* the character going out
  remaining,     \* NO_CHARS_FOR_TX, counted down
  txReady,       \* the TX_READY interrupt
  line, garbled  \* history: characters that went out; a transfer was cut off

transmitter == <<fifo, shift, remaining, txReady, line, garbled>>
uartVars == <<sending, text, i, c, transmitter>>

-----------------------------------------------------------------------------
(* The transmitter. *)

TXEMT == fifo = <<>> /\ shift = <<>>
TXRDY == Len(fifo) < Words

\* The next character of the transfer goes from the FIFO to the shift register;
\* with the last one the rest of its word is dropped.
Load ==
  /\ fifo # <<>> /\ shift = <<>> /\ remaining > 0
  /\ shift' = <<Head(Head(fifo))>>
  /\ remaining' = remaining - 1
  /\ fifo' = IF remaining = 1 \/ Len(Head(fifo)) = 1 THEN Tail(fifo)
             ELSE <<Tail(Head(fifo))>> \o Tail(fifo)
  /\ txReady' = (txReady \/ remaining = 1)
  /\ UNCHANGED <<sending, text, i, c, line, garbled>>

Emit ==
  /\ shift # <<>> /\ line' = line \o shift /\ shift' = <<>>
  /\ UNCHANGED <<sending, text, i, c, fifo, remaining, txReady, garbled>>

-----------------------------------------------------------------------------
(* The program. *)

Goto(place) == sending' = place /\ UNCHANGED <<text, i, c>>

\* printf_output: the special termination call prints nothing.
NextChar ==
  /\ sending = "text"
  /\ IF i > Len(text) \/ text = <<NUL>> THEN Goto("done")
     ELSE sending' = "empty?" /\ c' = text[i] /\ UNCHANGED <<text, i>>
  /\ UNCHANGED transmitter

EmptyClears ==
  /\ sending = "empty?" /\ txReady' = FALSE
  /\ Goto(IF TXEMT THEN "chars" ELSE "wait")
  /\ UNCHANGED <<fifo, shift, remaining, line, garbled>>

\* serial_putc: while characters are going out, wait for TX_READY.
Empty ==
  /\ sending = "empty?"
  /\ Goto(IF TXEMT THEN "chars" ELSE "wait") /\ UNCHANGED transmitter

WaitNot == sending = "wait" /\ Goto("chars") /\ UNCHANGED transmitter

WaitReady == sending = "wait" /\ txReady /\ Goto("chars") /\ UNCHANGED transmitter

NoCharsForTx ==
  /\ sending = "chars" /\ Goto("clear")
  /\ remaining' = 1 /\ garbled' = (garbled \/ remaining > 0)
  /\ UNCHANGED <<fifo, shift, txReady, line>>

ClearReady ==
  /\ sending = "clear" /\ Goto("room") /\ txReady' = FALSE
  /\ UNCHANGED <<fifo, shift, remaining, line, garbled>>

\* Characters of a word, lowest byte first.
TxWord == IF c = LF THEN <<LF, CR>> ELSE <<c>>

\* Behind serial_putc, in printf_output: a line feed is followed by a carriage return.
Return ==
  IF c = LF THEN c' = CR /\ sending' = "empty?" /\ UNCHANGED <<text, i>>
  ELSE c' = c /\ i' = i + 1 /\ sending' = "text" /\ UNCHANGED text

\* Once there is room, the word is written.
WriteWord ==
  /\ sending = "room" /\ TXRDY
  /\ fifo' = Append(fifo, TxWord) /\ Return
  /\ UNCHANGED <<shift, remaining, txReady, line, garbled>>

PutString == NextChar \/ Empty \/ WaitReady \/ NoCharsForTx \/ ClearReady \/ WriteWord

\* RouterBOOT may have left a character in the shift register, and one behind it.
UartInit ==
  /\ sending = "text" /\ text \in Texts /\ i = 1 /\ c = NUL
  /\ \/ fifo = <<>> /\ shift = <<>> /\ remaining = 0 /\ txReady \in BOOLEAN
     \/ fifo = <<>> /\ shift = <<"b">> /\ remaining = 0 /\ txReady = TRUE
     \/ fifo = <<<<"b">>>> /\ shift = <<"b">> /\ remaining = 1 /\ txReady = FALSE
  /\ line = <<>> /\ garbled = FALSE

UartNext == PutString \/ Load \/ Emit
UartSpec == UartInit /\ [][UartNext]_uartVars

\* The processor goes on, and the transmitter sends what it is given.
UartFairSpec == UartSpec /\ WF_uartVars(PutString) /\ WF_uartVars(Load) /\ WF_uartVars(Emit)

-----------------------------------------------------------------------------
\* What may go out for a string: each character in its place, a line feed with a carriage
\* return on one side of it.
Printings(s) ==
  IF s = <<NUL>> THEN {<<>>}
  ELSE {FlattenSeq([k \in 1 .. Len(s) |-> IF s[k] # LF THEN <<s[k]>>
                                          ELSE IF fed[k] THEN <<LF, CR>> ELSE <<CR, LF>>]) :
          fed \in [1 .. Len(s) -> BOOLEAN]}

\* Without what RouterBOOT had left.
Own(s) == SelectSeq(s, LAMBDA x : x # "b")

UartTypeOK ==
  /\ sending \in {"text", "empty?", "wait", "chars", "clear", "room", "done"}
  /\ text \in Texts /\ i \in 1 .. Len(text) + 1 /\ c \in {NUL, CR} \cup ToSet(text)
  /\ Len(fifo) <= Words /\ Len(shift) <= 1 /\ remaining \in {0, 1}
  /\ txReady \in BOOLEAN /\ garbled \in BOOLEAN

\* "before writing TX_FIFO must be empty as indicated by TX_READY" (qcom_uart.c:100):
\* NO_CHARS_FOR_TX is never written while a transfer is under way.
TransferKept == ~garbled

\* All of the string goes out, no character lost, doubled or out of order, and with each
\* line feed a carriage return on either side of it, whatever the transmitter was doing
\* before (serial_putc and printf_output).
AllSent == <>(sending = "done" /\ Own(line) \in Printings(text))
=============================================================================
