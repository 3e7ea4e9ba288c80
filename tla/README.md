# Verification of qcom-ipq-aux-loader

TLA+ models, TLC runs and TLAPS proofs for the auxiliary kernel loader of
Qualcomm IPQ-4XXX/806X boards: a bare-metal program that RouterBOOT starts from
an ELF file, that carries a kernel image (a legacy uImage or a FIT image with an
LZMA kernel and a device tree), puts the kernel in its place and jumps to it.

## The system

| Part | Code | State it keeps | Operations |
|---|---|---|---|
| head loader | `head.S`, `loader2.lds` | registers | set up the watchdog again, copy loader and image to `CONFIG_SYS_TEXT_BASE`, jump |
| start-up | `start.S`, `loader.lds`, `kernel-data.lds` | vector table, `.bss`, stack | clear `.bss`, call `loader_main`; every exception is a dead loop |
| loader | `loader.c` | `kernel_entry`, `kernel_p0..p2`, the image | `loader_main`, `handle_legacy_header`, `handle_fit_header`, `my_memcpy`, RB3011 pre-initialisation |
| watchdog | `watchdog.c` | the device's enable, route and count | `watchdog_setup`, `watchdog_resetup`, `reset_cpu` |
| caches, MMU | `cpu.c` | SCTLR, `page_table`, cache contents | `enable_caches`, `cleanup_before_linux` |
| LZMA | `lzma.c`, `LzmaDecode.c` | `lzma_data`, `lzma_datasize`, decoder state, probabilities at `workspace` | `lzma_gogogo`, `LzmaDecodeProperties`, `LzmaDecode` |
| FIT walker | `fdt.c` | none | `fdt_check_header`, `fdt_get_prop` |
| output | `printf.c`, `qcom_uart.c` | UART FIFO | `printf`, `serial_putc` |
| RB3011 devices | `timer.c`, `mdio.c`, `gpio.c` | device registers | `udelay`, MDIO reads and writes, GPIO |
| board | `board.c` | none | `ntohl`, dead loops |

One processor runs one program with interrupts off: there are no threads.  What
happens beside the program, and makes it hard, is
- the watchdog, which counts all the time and may or may not be running when
  RouterBOOT hands over;
- the memory system, which fills and evicts cache lines when it likes;
- the UART, the timer, the MDIO buses and the PHYs, which work at their own pace
  and may be slow or silent;
- memory that survives a reset: an earlier boot leaves its variables and its
  image behind;
- one flat memory in which loader, stack, image, decoder tables, page table and
  the kernel have to fit next to each other, with no check by the program.

The parts meet in `handle_fit_header`: it looks properties up in the tree
(`fdt.c`), gives itself time (`watchdog.c`), switches caches on, decodes,
switches them off (`cpu.c`, `lzma.c`), copies the device tree over the
decoder's tables, and returns the entry point to `loader_main`.

What makes each part correct:
- *head, start, loader*: the kernel that is entered is in place, with the
  arguments of this boot; nothing the loader runs on is overwritten.
- *watchdog*: no dead loop is left without an armed watchdog, and a boot ends in
  a kernel or in another boot.
- *caches*: memory looks plain to the program throughout, and the kernel finds
  nothing cached.
- *LZMA*: the output is the text the symbols denote; no access outside buffers.
- *FIT walker*: it finds the property a tree holds, and comes to an end.
- *timer*: waits last as long as they should and end.
- *MDIO and PHYs*: every PHY is powered down or reported, before the watchdog bites.
- *GPIO*: the switches get a whole reset pulse, whatever RouterBOOT left.
- *output*: every character goes out once and in order; a number reads as itself.

## Modules

| Module | Models | Checked by | Proved in |
|---|---|---|---|
| `Watchdog` | `watchdog.c` and the device | with `Loader` | `LoaderProofs` |
| `Loader` | `head.S`, `start.S`, `loader.c`, linker scripts | `boot`, `lzma_failed`, `legacy_short` | `LoaderProofs` |
| `PlainMemory` | what a program takes memory to be | refined by `Caches` | |
| `Caches` | `cpu.c` and the memory system | `caches` | `CachesProofs` |
| `RangeCoder` | the `RC_` and `Bit` macros, `lzma_get_byte`, the bytes shown after an error | `range_coder`, `range_coder_short` | `RangeCoderProofs` |
| `LzmaProperties` | `LzmaDecodeProperties` | `routines` | `RoutinesProofs` |
| `LzmaBits` | how a symbol is spelt in bits, the probability table | `lzma_bits` | `BitsProofs` |
| `Powers` | powers of two, bits of a word, values of digits | with the three that use it | `RoutinesProofs` |
| `Lz77` | the text that a sequence of symbols denotes | refined by `LzmaDecode` | |
| `LzmaDecode` | the symbol loop of `LzmaDecode`, `lzma_gogogo` | `lzma_decode` | `LzmaDecodeProofs` |
| `Fdt` | `fdt.c` | `fdt`, `fdt_damaged` | `FdtProofs` |
| `Timer` | `timer.c` and the counter | `devices` | `DevicesProofs` |
| `Phys` | `do_phys_pwdown`, `mdio.c`, the buses, PHYs and watchdog | `devices` | `DevicesProofs` |
| `Gpio` | the rest of the RB3011 pre-initialisation, `gpio.c`, the pins | `devices` | `DevicesProofs` |
| `Uart` | `printf_output`, `serial_putc`, the transmitter | `devices` | `DevicesProofs` |
| `Printf` | how `lp_Print` reads a format | `routines` | `RoutinesProofs` |
| `PrintNum` | `my_dec2str`, `my_hex2str`, `PrintNum` | `routines` | `RoutinesProofs` |
| `EveryLine` | what a set/way operation promises | refined by `SetWay` | `RoutinesProofs` |
| `SetWay` | geometry, loops and operands of `cpu.c:97-244` | `routines` | `RoutinesProofs` |
| `Memcpy` | `my_memcpy` | `routines` | `RoutinesProofs` |
| `Devices` | `Timer`, `Gpio`, `Phys` and `Uart` together | `devices` | `DevicesProofs` |
| `Routines` | `Memcpy`, `LzmaProperties`, `SetWay`, `Printf` and `PrintNum` together | `routines` | `RoutinesProofs` |

An `MC` module gives the constants of its runs their values.  `Routines` and
`Devices` hold several components that share no state: in a behaviour one of
them begins and the others have come to their end, so their states add up and
do not multiply.  Their names are therefore distinct: `TimerInit`, `PhysNext`,
`walking`, and so on, where the other modules have `Init`, `Next` and `pc`.

### Watchdog and Loader

`Watchdog` holds one variable `wdt` (which SoC it is part of, enabled, expiry routed
to the reset line, ticks left) and the code's calls as action fragments: `watchdog_setup` writes
registers with nothing in between that another actor could see, so it is one
assignment.  `Loader` extends it.

`Loader` is one processor walking through a boot: `pc` names the place in the
code, and each action is one piece of code between two places, with the pieces
that store to memory taken a cell at a time.  `mem` is a small array of *tagged*
cells: a cell says what was last written there (the k-th cell of the image, of
the uncompressed kernel, code, `.bss`, page table, probabilities, junk).  So
"the kernel is in place" (`Placed`) is a statement about memory, not about
which actions ran, and a store that hits loader code, stack, `.bss` or (with the
MMU on) the page table moves to `pc = "wild"`: anything may happen then.  A store or
a load of a copy loop where there is no RAM moves to `"abort"`, a place of its own beside the
exceptions that may come at any time (`"fault"`).  The probabilities are stores
like any other; how many there are (`probsLen`) depends on the image, since
`lc + lp` does.  An image is a record with what
the code can find out about it (magic, header check, properties, sizes,
addresses, what the decoder makes of it).  `reads[k]` says which input cell is
needed when output cell `k` is written, which is how decoding over the
decoder's own input shows.

Mapping of variables: `cr` is SCTLR's I, C and M bits; `kernel_entry`,
`kernel_p1`, `kernel_p2` the globals of `loader.c`; `ret` and `lz` the results
of the handler and of `lzma_gogogo`; `i` the index of the copy loop running.

A reset leads to `pc = "off"`, from where RouterBOOT may start the next boot
with any image: variables keep the values of the boot before until the code
sets them, as they do in RAM.

### Caches

Lines are one per 1 MB section of the page table; level 1 (data) and level 2 are
functions from lines to invalid, clean or dirty copies, `ic` is the set of lines
in the instruction cache.  `FillData`, `Evict` and `FillInstructions` are the
processor, at any moment the bits of SCTLR allow them.  The set/way loops go
over the lines of a level one at a time in any order, level by level as CLIDR
tells, so fills and evictions come between any two of them.

The comment at `cpu.c:480-488` argues that nothing dirty can enter the cache
between the flush and the write to SCTLR, because nothing is pushed on the
stack.  The C code cannot promise that (the compiler decides).  The model has
two kinds of build: one that keeps the promise, on a processor that may write
back lines even when the cache is off, and one that breaks it (`Spill`), on a
processor that does not.  With both at once (`CachesAssumption` excludes it) a
stale stack line written back late overwrites memory and `Transparent` fails: that
is what the promise is needed for.

`PlainMemory` is the abstract specification; `Caches` implements it under the
refinement `found <- [l \in Line |-> View(l).live]`, what a load would return now.

### The LZMA decoder

The decoder is one function of 600 lines made of macros.  Three modules cut it
where one level hands the next a value, so that each can be explored with every
value the level below might deliver:

- `RangeCoder` takes a bit off the data.  Which bit is asked for, and whether
  under an adaptive probability or as a direct bit, is arbitrary.  `range`,
  `code`, `p` are `Range`, `Code` and the probabilities; `left` is
  `lzma_datasize` and then `BufferLim - Buffer`, modulo a word; `taken` counts bytes
  read.  The data is of any size, shorter than its header too, since nothing checks
  that; RAM ends somewhere behind it (`room`), and a read behind that is a data abort.
  After a data error `lzma_decompress` shows 16 bytes at `lzma_data` without a look at
  the size (`DataError`).
  `number` and `low` are what the bytes spell and what an encoder of the bits has at least.
- `LzmaBits` spells one symbol: which probability each bit is decoded under,
  and what the bits come to.  `OwnPlace` says that no two questions share an
  entry of the table and none lies outside it, `RightSymbol` that the bits
  denote the literal, length or distance that the format gives them.
- `LzmaDecode` is the loop over symbols: `out` is `outStream` up to `nowPos`,
  `rep` the four distances.  Each symbol the bits could spell may come next.
  `text` and `recent` remember `out` and `rep` as they were when the last symbol
  was complete; with them `LzmaDecode` implements `Lz77`.

Out of data, the decoder returns from wherever it is; what its local variables
held is dead, so `InputEnds` leaves them as they were before the symbol.
The branches for `_LZMA_OUT_READ` and `_LZMA_IN_CB` are not compiled.

### Fdt

`Fdt` walks over a sequence of items (a tag with its name or its length) that
has been laid out in bytes: `Starts` says where each begins.  The code's walk
knows only `offset`, which each action advances as the code does, and sees the
item that begins there, so that `OnTrack` (there is one) is a claim about the
arithmetic.  What should be found is defined on the nesting of the items
(`ParentOf`, `Candidates`) without the walk's flag `is_node_found`.  A name is a
sequence of characters, since the comparison is one of the hazards.

The items are what memory holds, whether or not the tree and the data reach as
far: the code does not look where a name ends, nor where the length of another
node's property lies.  A length is a `u32`, and so is the offset, modulo `Wrap`.
One that is damaged may lead behind the tree (the walk ends), out of RAM
(`Abort`), so far that the pointer wraps (`Stray`), or around the
address space back into the tree: to a tag (the walk goes on there) or between two
(`Stray`).  What a walk does that has gone astray is not followed.  `Fits` says how
far the lengths of a tree lead; the properties name it where they need it.

### Timer

`count` is the counter and `part` how far it is into its period: a pass of the
loop takes between one part and `Lag` parts, so that it reads the same value
twice or the next one.  `last`, `runcount`, `val` and `usec` are the code's, in
words of `Word`.  `modulus` is where the counter starts again: at `GPT_FREQ`,
which is what the code's correction assumes, or at the width of the register,
which is what `timer_init` leaves if it was so.  `began`, `first` and `periods`
remember when the delays began and count edges; `Elapsed` is the time since.
`mdelay` is the same delay several times, so a loss per call would add up.

### Phys

A bus has at most one operation in flight; `Complete` ends it at any moment or
never, and what a later write to the address register does to one still in
flight is open (`Accept`).  A word is a set of bits, as far as they matter: PDOWN,
a bit the PHY has set and one it has not.  Reading a PHY that is not ready gives
all ones, and so does giving up; nothing tells them apart in the code.  `spent`
is time as the watchdog counts it: it goes on by `Short` and `Long` for
`udelay(10)` and `udelay(1000)`, and at `Period` the watchdog resets the board.
`worst` remembers the slowest operation: `Settled` is about buses on which none
has been given up.  A PHY that is said to be NOT READY also gets the LCD switched
on; `reported` stands for both.

With the numbers of the code, a bus that answers at once and PHYs that are never
ready take 10 x 100 x (1 + 32) periods of 32 kHz and a bit, 1.03 s.  A bus that
never answers takes each of the 1000 reads 10 ms more: 10.8 s, and the watchdog
(10 s, `head.S:43`) resets the board every time.

### Gpio

`Preinits` is the sequence of calls of `ipq806x_rb3011_preinits`; each call is one
action for each register it writes.  `levels` keeps what each pin was driven to,
with the milliseconds it lasted, so that `ResetPulse` is about what the
switches saw.  It is about the moment
`do_phys_pwdown` is called.

### Uart

The FIFO holds words of up to four characters; `NO_CHARS_FOR_TX` says how many
are sent, and TX_READY comes with the last of them.  `Load` and `Emit` are the
transmitter.  `line` is what went out.  Characters of RouterBOOT may still be on
their way.  `AllSent` leaves it open on which side of a line feed its carriage return goes out
(`Printings`): the comment of the code and the code differ there.

### Printf and PrintNum

`Printf` has formats as sequences of characters, made by spelling items out, so
that `ReadsWhatIsMeant` compares what is read with what was spelt.  Only the
lengths of the fields are kept; behind a field longer than `buf`, which overruns
the stack, the program may stop or do anything (`Stops`).  `PrintNum` has the arithmetic of the digits and
the layout backwards and reversed; `sum` and `weight` remember what the digits
written so far come to.

### SetWay and Memcpy

`SetWay` has words as sets of bits, so that fields that meet show: `Named` is
what the processor makes of an operand, `Operand` what the code puts together
from CCSIDR.  It implements `EveryLine`; this is what `Caches`, where the loops go
over the lines of a level as such, takes for granted.

`Memcpy` is the copy in bytes of memory, where `Loader` has cells.

## Runs

| Run | Instance | Shows |
|---|---|---|
| `boot` | 18 cells, 14 images, IPQ806X and IPQ4XXX, `FairSpec` | `KernelPlaced`, `NothingVitalLost`, `EntryContract`, `HangArmed`, `RebootIn5`; `BootResolves`: every boot ends in Linux or in a reset |
| `lzma_failed` | damaged images only | violation: a kernel that was not extracted is entered |
| `legacy_short` | an image shorter than its header | violation: the size check wraps |
| `caches` | 3 sections, 3 levels, both builds | `Transparent` and the invariants of the hand-over |
| `range_coder` | 2-bit bytes; no data, and data of 1 to 7 bytes with RAM ending at different places behind it | `InputInside`, `ProbInside`, `OneByteEnough`, `BitsOfStream` |
| `range_coder_short` | the same data | violation: of data shorter than its header, bytes behind it are decoded |
| `lzma_decode` | outputs of 0, 1 and 7 bytes | `ReadsInside`, `WritesInside`, the refinement `Decodes`, `Terminates` |
| `lzma_bits` | narrow tables, one symbol from every state | `OwnPlace`, `RightSymbol` |
| `fdt` | trees of up to 12 tags, whole, cut and damaged; good and bad headers; lengths that lead out of RAM and around the address space | `OnTrack`, `FindsWanted`, `WithinData`, `WalkEnds` |
| `fdt_damaged` | the same trees, `FairSpec` | violation: a length that wraps leads back, and the walk does not end |
| `routines` | copies of up to 7 bytes, every properties byte, 320 processors, 16 000 formats, 138 numbers | `RoutinesTypeOK`, `Copied`, `AsCommented`, the refinement `AllLines`, `ReadsWhatIsMeant`, `ReadsAsInC` |
| `devices` | rows of 1, 2 or 5 delays; pins left as outputs or to another function; 2 buses with 2 PHYs each; strings of up to 4 characters | `DevicesTypeOK`, `Waited`, `NotTooLong`, `ResetPulse`, `Settled`, `InTime`, `PhysEnd`, `TransferKept`, `AllSent` |

Bounds.  The memory map of `MCLoader` has every region of the linker scripts
once, next to its neighbours, at least one cell each; images of five cells are
enough for a header, a two-cell body and a device tree.  The images are
one of every kind the handlers tell apart, including a kernel too large for its
place, more probabilities than there is room for, a device tree that leads out of
RAM and a compressed body that is longer than the image.  A tick stands for 5
seconds, so that the counts of 5, 10 and 30 seconds are 1, 2 and 6.  Counters do
not grow: every boot starts anew.  In `caches`, one section each for the
kernel's place, for stack, loader and source, and for the page table; words have
two values.  A third level without cache exercises the end of the level loop.

`range_coder`: bytes of two bits, 8 probability steps and words of three bytes
keep every relation the code's widths have (`RangeCoderAssumption`), and in 7
bytes probabilities reach both of their limits and ranges are normalised at each
place.  `lzma_decode`: with a shortest match of one byte, 7 bytes of output are
enough for four different distances and for a match that runs into itself or
over the end; distances wrap at 9, so that every distance inside the output, the
first ones outside it and the end marker occur.  `lzma_bits`: 16 slots, distances
up to slot 7 in trees, 2 align bits and 4 lengths per coder, so that every branch
has at least two sizes.  `fdt`: names of up to two characters, one the
beginning of the other; lengths that need no padding and that need some; nodes
below, beside and after each other; totals that end in or before the last tags,
and inside the header of a property.  Damaged lengths are short, lead out of RAM, past
2^32, back between two tags, back to the same tag and to one before it.

`devices`: a counter of 7 or 32 values and delays of 1 to 4 ticks, so that rows of
delays pass the place where it starts again, more than once.  Limits of two
instead of 100 and 10 keep the first and the last of each loop of
`do_phys_pwdown` and `mdio.c`; a period of 44 is longer than what all tries on a
fast bus take (40) and shorter than on a slow one, as in the code.  A pin was an
output or had another function, with its output bit either way.  Four characters
pass through a FIFO of two words while two of RouterBOOT's are still going out.

`routines`: copies at distances from -7 to 7 in words of 3 bytes are nearer and
further than a word and than the copy.  Ways and sets are powers of two, are not,
and are one; levels lie beside, behind and far behind each other.  Formats have
three items after each other, the middle one any of them, or are any string of
up to four characters, so that a directive breaks off at every place.  TLC's
integers end before 32 bits, so numbers end at 2^28; the proof has them all.

Fairness.  `lzma_decode` and `fdt` assume that the processor goes on
(`WF(Next)`): both are straight-line code of one processor that waits for
nothing.  So do the loops over the caches in `routines`.  In
`boot` the processor executes instructions (`WF(LoaderStep)`), the watchdog's clock runs (`WF(Tick)`) and a watchdog that
ran out resets (`WF(Bite)`).  In `devices` the processor and the watchdog go on
(`WF(PowerDown)`, `WF(Bite)`, `WF(PutString)`) and the transmitter sends what it
has been given (`WF(Load)`, `WF(Emit)`); the buses and the PHYs need not answer:
`PhysEnd` is about runs in which every operation is done in time.
These are hardware; nothing is assumed of RouterBOOT, of exceptions, or of the kernel that was entered.

## Disagreements between the code and its comments

- `loader.c:162` drops the result of `lzma_gogogo`: run `lzma_failed`.
- `loader.c:81` compares with an unsigned difference that wraps for an image
  shorter than the legacy header: run `legacy_short`.
- `fdt.c:127` adds a length it has not looked at to a `u32`, and the walk may go
  round for ever where the comment at `fdt.c:140` has it return NULL: run `fdt_damaged`.
- `loader.c:147` says that the size of the compressed kernel is checked; one that is too
  small is not, and `lzma_get_byte` and the decoder read on behind it: run
  `range_coder_short`.

Others are in the modules as the code has them, and no run is about them:
- `loader.c:158` makes the extraction, not only the caches, depend on the load
  address lying below the image; the kernel is entered either way.
- `timer.c:55` takes the counter to start again at GPT_FREQ, which nobody asks it
  to; on one that runs to the width of its register, a delay across its end is
  cut short.  `timer.c:39` calls one period the shortest delay, and an edge may
  come at once.
- `loader.c:265` takes a failed read for data, and `loader.c:267` drops a failed
  write: a PHY may end up neither powered down nor reported.
- `gpio.c:26` documents a direction where the argument is the output value;
  `gpio.c:49` can set an output but not clear it.
- `fdt.c:93` reads a tag before the "out of range protection" of the next lines
  looks at where it lies (`Abort`).
- `qcom_uart.c:119` promises "\r\n" and "\n\r" goes out (`TxWord`); no property takes
  either side.
- `printf.c:203` compares a length with the size of a buffer it has already filled.

## Proofs

All for every value of the constants that the named assumptions admit.  The types
(`TypeOK`, `CopyTypeOK`, ...) and the inductive invariants (`IInv`) of most modules
are left to the proofs; the runs check what follows from them.

`LoaderProofs` (assumptions `WatchdogAssumption`, `LoaderAssumption`: the order
of the regions the linker scripts produce, RouterBOOT's copy clear of the
relocated loader, images that end below the page table, shorter than 2^32): `TypeCorrect`, `WatchdogCovers`
(`HangArmed`), `RebootWithinFive` (`RebootIn5`), `KernelHandover` (`EntryContract`), `ImageSafe`
(`KernelPlaced`), `VitalMemorySafe` (`NothingVitalLost`), `Inductive`,
`BootShortens`.  `KernelPlaced` is not
inductive: that the kernel is complete when it is entered needs, at each earlier
place, how much of it is there (`BodyPlaced(i)`), that the image it comes from
is still whole (`Copied`), and which handler runs (`PathInv`); `IInv` says this,
with memory claims only for images that fit.  The proof has one lemma per action
for memory, because each uses the layout differently.  `NothingVitalLost` covers
the copy loops, the decoder's output and its probabilities.  `BootShortens` is the safety of
`BootResolves`: the measure `StepsLeft` counts the passes left of each loop and the
steps around them; every step of the loader lowers it, and no watchdog tick, bite,
exception or reset raises it unless it starts the next boot.

`CachesProofs` (assumption `CachesAssumption`): `Inductive`, `TypeCorrect`,
`KernelEnteredClean`, `PageTableUncached`, `DiscardsNothing`, and
`CachesTransparent`, the refinement of `PlainMemory`.  The invariant needs: which
bits may be set at which place (`PhaseInv`); that caches which are off are empty,
apart from what is being invalidated (`EmptyInv`); that a clean copy is a copy of
what is below it and that only mapped lines are cached (`CopyInv`); and, during
the flush, that a dirty line among those already flushed is the stack's and its
live word is below as well (`FlushInv`).

`RangeCoderProofs` (assumption `RangeCoderAssumption`; the code's widths satisfy
it): `Inductive`, `TypeCorrect`, `ReadsInside`, `ProbabilitiesInside`,
`RangeStaysNormal`, `CodeStaysInside`, `BitsRight`.  The
argument for one byte being enough: a probability stops at `Unit - 1` from 0 and
from `Total`, so either part of a normal range is at least
`(Top \div Total) * (Unit - 1)`, and that times `Byte` is at least `Top`.  `Code`
stays below `Range` with two exceptions, which `sound` remembers: a stream whose
first bytes are already outside, and a direct bit that halves an odd range.
Apart from these, `Code` is what the number spelt by the bytes exceeds the lower
end `low` of an encoder's interval by.  The decoder computes it modulo a word; that this
loses nothing follows from `Code` being below a range below `Top` whenever it is
shifted, and `BitsOfStream` (`BitsRight`) from both together.
`ReadsInside` (`InputInside`) is for data of any size and any RAM behind it: what it
says of data that holds its header needs that the sum of what was taken and what is
left has never wrapped; of shorter data nothing can be said, and TLC has the run that
shows it.

`LzmaDecodeProofs` (assumption `LzmaDecodeAssumption`): `Inductive`, `TypeCorrect`,
`NoWildReads`, `NoWildWrites`, `DecodingShortens`, and `DecodesText`, the refinement of `Lz77`.  Short
repetitions and matched literals read back with no look at `rep0`.  They are
safe because each of the four distances is 1 or was once compared with `nowPos`,
which only grows, and because a state of 7 or more means that something has
been written (`RepInv`).  The refinement needs the copy loop's invariant
(`CopyInv`): `out` is the text before the match followed by bytes each of which is
a copy of the one `rep0` before it, also where the match reads what it wrote.
`DecodingShortens` gives a measure (`Ahead`) that each step lowers: twice the
output that is to come, and a little around it.  It stays a number because nothing
is written behind the announced size.

`DevicesProofs`, four drivers that share no state.  In a behaviour of `Devices` each
does what its own specification has it do or has come to its end (`DevicesApart`,
assumption `DevicesAssumption`: there is a shortest delay and an empty string), so
that what is proved of each holds of all together: `DevicesTypeCorrect`
(`DevicesTypeOK`) and `DevicesSafe`, the invariants that the run checks.

- Timer (`TimerAssumption`: a pass of the loop is shorter than a period, a delay
  shorter than a second): `TimerInductive`, `DelaysWait`, `DelaysBounded`,
  `TimerTypeCorrect`.  Neither bound is inductive: the sum of the delays that are
  over is compared with the edges counted since, and within a delay `runcount` has
  gone on by one for each edge, whether or not the counter has started again
  (`WaitInv`).  A delay ends on an edge, so the next one begins with one: only the
  first can lose part of a period.  `DelaysWait` needs the counter to start again
  where the code takes it to, or not at all (`CountsAsExpected`); `DelaysBounded`
  does not.
- PHYs (`PhysAssumption`, any number of PHYs, tries and polls): `PhysInductive`,
  `PhysSettled`, `PhysTypeCorrect`.  `Settled` speaks of the PHYs behind the loop; that
  the one it is at comes to be settled needs that at most one operation is in
  flight, and which (`BusInv`), and what its BMCR and the word read from it are at
  each place (`CurrentInv`).  All of it is conditional, as `Settled` is, on no bus
  operation having been given up: one that is late would answer the next.
  `TimeInductive` and `PhysInTime` (`InTime`) are not: the time spent is at most that of
  the PHYs gone over, the tries made at this one and the operations of this try
  (`Explained`), each as slow as the slowest so far.  They are the part of `PhysEnd`
  that needs no fairness: where the bus is fast enough, nothing resets the board.
- Serial line (`UartAssumption`): `UartInductive`, `TransfersKept`, `UartTypeCorrect`,
  `StringInOrder`.
  The transmitter is either quiescent or one word is under way with TX_READY not
  yet set (`TransferInv`); only in the first does the driver reach a place from
  which it writes NO_CHARS_FOR_TX.  `InOrder` (`StringInOrder`) is the safety of
  `AllSent`.  What has gone out and what the transmitter still holds is always what
  RouterBOOT had left and then the spelling of the characters written, of a line feed
  perhaps only the first half (`SentInv`), which is one of the ways a string may be
  printed (`PrintedIsPrinting`); the spelling of a text is put together one
  character after another (`Upto`).
- Pins (`GpioAssumption`, any register contents RouterBOOT can leave):
  `PinsInductive`, `ResetsPulsed`, `PinsTypeCorrect`.  Each call has had its effect on the
  registers and no later one undoes it (`ConfigInv`, `OutInv`); a line is at the level its
  registers drive it to (`LevelsInv`), and how long it has been is what `PulseInv`
  adds up.

`RoutinesProofs`, put together as the drivers are: `RoutinesApart` (`RoutinesAssumption`),
`RoutinesTypeCorrect` (`RoutinesTypeOK`) and `RoutinesRight`, the invariants that the
run checks and the safety of `AllLines`.

- `my_memcpy` (`MemcpyAssumption`): `CopyInductive`, `CopiesExactly`, `WritesOnlyThere`,
  `CopyTypeCorrect`, for every word size.  To the left of its source a copy overwrites
  only what it has already read, also by words at a distance that is shorter than
  one: a word is loaded before it is stored.
- `LzmaDecodeProperties`: `PropsInductive`, `PropsTypeCorrect`, `DecodedAsCommented`, for any
  set of numbers in place of the bytes.
- Numbers (`PrintNumAssumption`: words of at most 32 bits): `QuotientAlmost`, the
  comment of `printf.c:291` for every 32-bit number, `NumInductive`, `EveryDigit`,
  `LoopsEnd`, `PrintsAsInC`.  Each of the six shifts loses less than one of its
  result, and together they lose less than one of the quotient.  While the digits
  are taken off, the value of what `buf` holds, read backwards, is `sum` and its last
  digit is not a leading zero (`DigitsInv`); the three ways of laying out are then
  three ways of turning round a sequence put together from parts.
- Formats (`FormatAssumption`: the characters have no NUL among them, and a format
  that spells nothing asks for no field wider than `LP_MAX_BUF`; the widest in the program
  is 8): `FormatsRead`, `FormatTypeCorrect`, for every sequence of items with any precision
  given or not, and every other format.  What is joined item by item has a place where each
  item begins (`Marks`); between two directives the reader stands at such a place
  with exactly the items before it (`BetweenItems`).  A directive is read as written
  because each prefix the code looks for in turn begins differently from all
  that may follow it (`DirectiveRead`).
- Operands of the set/way operations (`SetWayAssumption`: fields as wide as those of
  CCSIDR, and an operand in which they fit): `OperandNamesLine`, `WalkInductive`,
  `WalkVisits`, `WalkLeavesNone`, `WalkTypeCorrect`.  Rounding the logarithm up
  (`RoundUp`) makes each field just wide enough, the
  field of the ways ends with the word, and fields that do not meet are sums; the
  three loops then have ahead of them exactly what `EveryLine` has to do
  (`OverInv`).

`FdtProofs` (assumption `FdtAssumption`: the trees are well formed, with any lengths;
they may be cut anywhere and their headers announce any size; the data lies in RAM,
which ends before 2^32): `WalkInductive`,
`StaysOnTrack`, `WalkFindsWanted`, `WalkWithinData`, `WalkShortens`.  All but
`WalkWithinData`, which holds of every tree, are about trees whose lengths do not lead
around the address space (`Fits`).  Between two tags the walk is at
the start of an item, knows by `found` whether that item belongs to a node with
the name wanted, and has passed nothing wanted (`WalkInv`).  Where items start and
which node an item belongs to are defined by recursive functions of its place;
what the proof needs of them follows from their defining equations and from
taking the least item for which a claim fails.  `WalkShortens`: what lies before the
walk (`ToDo`) shrinks with each tag, because the next item starts behind this one
and the sum does not wrap.

`BitsProofs` (assumption `BitsAssumption`: the code's widths satisfy it, and so
does every `lc`, `lp`, `pb` it accepts): `BitsInductive`, `PlacesOwn`,
`BitsTypeCorrect`, `SymbolsRight`.  The table is twenty ranges one behind the other (`Edge`); a
question lies in that of its kind and coder (`AtHome`), and within it is the
only one with its digits (`PlaceTells`).  The slots of `SpecPos` are trees of
different heights laid one behind the other with no room between (`SlotsApart`),
which is what the odd `- slot - 1` of `LzmaDecode.c:482` is about.  That what is
asked is a question at all needs the level of the tree (`TreeInv`), and that the
distance does not wrap while its low bits are added needs how much is still to
come.  `SymbolsRight` rests on an invariant of its own (`SymbolInv`): whatever bits
may follow, what all of them denote is told by the registers and those that follow
alone.  Each bit read then moves from the bits to come into a register: one level of a
tree (`TreeBit`), the front of the number a reversed sequence stands for
(`NumberTurned`), or a place that is lost in the reduction to a word at the end as it
is when reduced at once (`Reduced`).

The provers have no induction over a recursive definition.  Where one is needed
the proofs take the least counterexample, which the well-foundedness of the
numbers gives (`LeastNumber`), and step back from it by the defining equation.

Only model-checked:

- `BootResolves`, `Terminates`, `WalkEnds`, `AllSent`, `PhysEnd` and the liveness in
  `AllLines`: fairness is out of the provers' reach.  What they say besides that
  something ends is proved (`StringInOrder`, `PhysInTime`, `WalkVisits`), and of
  `BootResolves`, `Terminates` and `WalkEnds` that each step brings the end closer
  (`BootShortens`, `DecodingShortens`, `WalkShortens`): what is left to TLC is that a
  step is taken, and of `BootResolves` that the watchdog's clock goes on;
- the violations.

## Plan

1. `Watchdog`, `Loader` with their proofs: done.
2. `PlainMemory`, `Caches` with their proofs: done.  `EveryLine`, `SetWay` with
   their proofs: done.
3. `Lz77`, `LzmaDecode`, `RangeCoder`, `LzmaProperties` and
   `LzmaBits` with their proofs: done.  Left: the order in which `lzma.c:56` reads the size.
4. `Fdt` with its proof: done.  Left: the six look-ups of `handle_fit_header` composed with `Loader`.
5. `Timer`, `Phys`, `Gpio`, `Uart` with their proofs: done.  Left: the pins, the PHYs
   and the timer in one behaviour.
6. `PrintNum`, `Printf` and `Memcpy` with their proofs: done.

## Not modelled

- Message texts; the blanks around `%s` and `%c`, upper-case digits, and bases 2
  and 8, for which the code writes no digits: no format of the program has them.
- `gpio_get_value`, which is not called; the loop under `if(0)` in the
  pre-initialisation.
- `board.c`: byte swapping (a pure function of one word), dead loops (an
  `Exception` in `Loader`) and a memory dump that is not called.
- Barriers between CSSELR and CCSIDR: the code has none, and `SetWay` takes the
  selection to act at once.
- `LzmaDecode.c` branches for `_LZMA_OUT_READ` and `_LZMA_IN_CB`: not compiled.
- Interrupt masking in `cleanup_before_linux`: interrupts are never enabled.
- L2 error registers and barriers: no state the properties could tell apart.
- Build files and flash packaging (`Makefile`, `openwrt/`, `ubi/`): they fix
  constants.
