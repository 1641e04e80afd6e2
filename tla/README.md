# QUID: specification, model checking and proofs

QUID is a small C library (`src/src/quid.c`, `src/include/quid.h`) that makes,
prints, parses, compares and inspects 128-bit identifiers, with a command line
tool (`src/utils/quidutil.c`) on top. This directory holds TLA+ modules of the
library's state and operations, TLC configurations that check them on small
instances, and TLAPS proofs of their main properties for all values of the
constants.

Paths below are relative to the repository; quid.c stands for `src/src/quid.c`.

## 1. Inventory

| Component | State | Operations |
|---|---|---|
| Timestamps | statics `inited`, `time_last`, `ids_this_tick` of `get_current_time` (quid.c:687) | `get_current_time` |
| System time | none; the operating system's clock | `get_system_time`, `get_tick_count`, `win32_gettimeofday` |
| Random numbers | `max_rnd_seed`, static `rnd_seed_count`, the C library's generator | `true_random`, `quid_set_rnd_seed` |
| Memory seed | `max_mem_seed`, statics `mem_seed_count` and `saved_node`, the file `RANDFILE` | `get_memory_seed`, `quid_set_mem_seed` |
| Identifier layout | none; the caller's `cuuid_t` | `quid_create_rev4`, `quid_create_rev7`, `quid_timeval`, `quid_flag`, `quid_category`, `quid_tag`, `quid_cmp`, `quid_validate`, `strtoquid` |
| Library interface | the caller's structures and strings, static `tag[3]` of `quid_tag` | `quid_create`, `quid_tostring`, `quid_parse` and the above |
| Stream cipher | a context, `chacha_ctx`: 16 words and the rounds | `chacha_init_ctx`, `chacha_init`, `chacha_next`, `chacha_xor` in `src/src/chacha.c`, key stretching in `encrypt_node` (quid.c:488) |
| Command line tool | variables set by options, the interrupt flag, the structure it reuses, the buffer of the output file | `main`, `input_verbose`, `check_fname`, `qusleep`, `set_signint`, `quid_print_file` of quidutil.c |
| Windows option parser | the argument vector, `optind`, `place`, `nonopt_start`, `nonopt_end` | `getopt_long` in `src/utils/win32_getopt.h` |
| C++ wrapper | none | `src/quidpp/quidpp.h` |

**How they interact.** `quid_create` reads the version that the caller's
structure holds, clears the structure and calls one of the two constructors. A
constructor calls `get_current_time` (which reads the system clock, perhaps many
times), `true_random` (which reads it again when it seeds and for the tick
count), and, for REV4, `get_memory_seed` (which reads or creates a file that all
processes of a directory share). REV7 then encrypts the node with a keystream
made from parts of the identifier itself. The accessors depend on the `version`
byte, which is not printed: `quid_parse` finds it again from four bits of the
printed time, by way of `quid_validate`. The tool reads its options with
`getopt_long` (its own copy on Windows), then either checks the identifiers it is
given or creates identifiers in a loop, which a signal may end; runs of the tool
share the file system.

**What is hard.** The library takes no locks and is used from one thread per
process; the processes of a machine share the clock and the seed file.

- Numbers: a count is added to a clock reading; counters are compared with `==`
  against maxima that may be changed at any time; parts of the time may be zero.
- Interleavings: two processes in one tick; two processes that create the seed
  file; a process that reads the file while another writes it.
- Failures: a crash or full disk between the `fopen` that truncates the seed
  file and the `fclose` that fills it; an `fopen` that fails for another reason than
  that there is no file.
- Sequences of calls: structures are reused, and calls leave their version,
  fields and static buffer to those that follow.
- Waiting: `get_current_time` spins until the clock moves; the tool sleeps between
  identifiers and a signal may come at any moment.
- Files: the tool tests whether its output file exists, and opens it a step later;
  what it prints reaches the file block by block, and failures are ignored.
- Texts: two of the three formats do not pad their fields, and a printed
  identifier may come back as the tool's argument.
- Arguments: the option parser permutes the vector while it reads it.

**What makes each component correct.** Timestamps of a process never repeat, a
tick has a quota, and no call waits for ever. The random counter seeds when it
should, however it is set. All processes of a directory agree on one memory
seed and never use an uninitialised one. What went into an identifier comes out
of it, through any sequence of calls, and different origins give different
identifiers. Two processes collide only where their timestamps do. The tool prints
what its command line asks for and as many as it reports, writes over nobody's
file, never takes one identifier's text for another, and comes to an end. The
option parser returns what one would that read the arguments once and in order. A
reader of the cipher recovers what a writer has encrypted, and no block of the
keystream serves twice.

The list of hazards with their lines is in `PROJECT.json`.

## 2. Modules

| Module | Models | Extends |
|---|---|---|
| `StampSource` | what `get_current_time` promises: the abstract specification | |
| `QuidClock` | `get_current_time` in several processes on one clock | |
| `SeedCycle` | the counter that `true_random` and `get_memory_seed` share in form | |
| `QuidRandom` | `true_random`, `quid_set_rnd_seed` | `SeedCycle` |
| `QuidMemSeed` | `get_memory_seed`, `quid_set_mem_seed`, the seed file | `SeedCycle` |
| `QuidCodec` | constructors, accessors, comparison, validation, as operators | |
| `QuidApi` | any sequence of library calls on a program's structures | `QuidCodec` |
| `QuidCreate` | processes that call `quid_create`: clock and codec composed | `QuidClock`, `QuidCodec` |
| `QuidText` | the tool's three output formats, and `quid_parse` on texts, as operators | |
| `QuidUtil` | processes that run the tool on one file system | `QuidText` |
| `OptionTable` | what one option says: letters, long options, abbreviations | |
| `ArgStream` | what `getopt_long` promises: the abstract specification | `OptionTable` |
| `QuidGetopt` | `getopt_long` of `win32_getopt.h`, with its permutation | `OptionTable` |
| `ChaChaBlock` | the block function, `chacha_init`, the key of `encrypt_node`, as operators | |
| `ChaCha` | a writer and a reader of the stream cipher | `ChaChaBlock` |
| `MC...` | instances of these for TLC | |
| `..._proofs` | theorems about these; those on `QuidClock` are in `QuidCreate_proofs`, those on `QuidText` in `QuidUtil_proofs` | |

### QuidClock

`inited`, `time_last` and `ids_this_tick` are the statics, one copy per process.
`clock` counts granules, the steps in which the platform reports time, and
`SystemTime` is `clock * Resolution`, in the 100 ns units of `get_system_time`.
`Resolution` is 10 where `gettimeofday` counts microseconds, 10000 where
`win32_gettimeofday` counts milliseconds. `Enter` is the call with the first
call's initialisation; `NewTick`, `SameTick` and `Spin` are the three ways
through the loop body, each with one reading of the clock, and the first two
return. `Tick` advances the clock by any number of granules up to `MaxJump` and
`StepBack` sets it back. `stamps` (what each process received) and `burst` (how
many since the clock last moved) are history variables for the properties.

The implementation is related to `StampSource`, whose `Issue` gives a process any
stamp later than all earlier ones as long as nobody has set the clock back, and
different from the last one afterwards. The refinement mapping takes
`steady` to `stepBacks = 0` and leaves `stamps` as it is.

### SeedCycle, QuidRandom

`Advance` is `count = (count == max) ? 0 : count + 1` on a C int of `INT_MAX`;
signed overflow, undefined in C, wraps as in the builds the project has. `Draw` is
`true_random`: it seeds when the counter is zero, with the time divided by
`UIDS_PER_TICK` (`bucket`; the folding of that number to 32 bits is left out),
and draws. `drawn` counts the numbers since, and `overrun` records that a
negative cycle, or one below the counter, was set since.

### QuidMemSeed

One action per library call on the file: `OpenToRead`, `Read`, `OpenToWrite` (which
truncates), `Write` (`fwrite` and `fclose`; the buffered bytes reach the file at the
close), `InputOutputFails`, then `Return`, which advances the counter. Where the first
`fopen` fails, the seed is what the stack holds (`TakeStack`): because there is no
file, or none that the process may open (`PickSeed`), or although there is one
(`CannotRead`: no descriptor is left, or Windows refuses to share the file). Nor need
the second `fopen` succeed (`CannotCreate`); the process then goes on with a seed that
is in no file. The history variable `parted` records that, and that another process
has replaced the file: what a process holds may then differ from what is in the file.
`denied` are the processes without permission, from the start of a behaviour to its
end; failures of the others, and crashes, are counted by `faults`. `file` is `Absent`,
`Empty` or a seed. `FATAL_ERROR_BAIL`, which is `exit(-1)`, leads to `exited`, and
`Restart` gives a new run with fresh statics; `Crash` does so in the middle of a call.

### QuidCodec

An integer is the set of its one bits: masks are intersections, shifts are
`Field` and `Place`, exclusive or is the symmetric difference, and the
subtraction of the version in `quid_timeval` is `Minus`, with its borrow. The
widths of the three parts of the timestamp are constants (32, 16, 12 in the
source). The keystream is any function of `time_low` and the clock sequence,
which is what the key and nonce of `encrypt_node` are made from. `ReadsBack`
says that the accessors return what an identifier was made from.

### QuidApi

`slot` are the caller's structures, `text` a string, `tag` the static buffer of
`quid_tag`, and `failed` the assertion that ended the program (`NDEBUG` compiles
them out). `origin` follows an identifier from its constructor through
`quid_tostring` and `quid_parse`. `SetVersion` and `Clear` are what callers do
to a structure themselves; a NULL argument returns at once and is left out. A
text has the fields it shows and a shape: with braces and dashes, without (the
caller's string after `quid_parse` has stripped it), or malformed.

### QuidCreate

A call of `quid_create` (`Ask`) enters `get_current_time`; the step that leaves it
also makes the identifier (`Finish`), since nothing after it is shared but the
seed file, whose races `QuidMemSeed` has. A process that is run again is one more
member of `Procs`. `RandomValues` has the single value zero in the checked
instance: `true_random` converts a double of about 1.7e12 to `uint16_t`
(quid.c:747), which is undefined in C, and the x86-64 build yields zero for every
draw (its identifiers all show the clock sequence `8000`). The theorems hold for
any set.

### QuidText, QuidUtil

A field of an identifier is a number and a text a sequence of digits and marks.
A number has as many digits as it needs (`Digits`), or is padded (`Padded`), and is
read digit by digit (`ValueOf`). `HexText`, `DecText` and `BracketText` are the
formats of `-x`, `-i` and the default, with the padding each has and lacks;
`Accepts` is `quid_parse` returning `QUID_OK`. In a run `Widths` makes the fields
one or two digits wide.

A process goes through `main`: `ReadOption` and `QuitOption` are one round of the
option loop each, `CheckOperand` one operand, `CheckName`, `OpenFile` and `CannotOpen`
the opening of the output file in the two steps it takes, `CreateId`, `TestFlag`,
`Output` and `Rest` one round of the generation loop, `EndLoop` and `CloseFile` its
end. `BailOut` is the `exit(-1)` of `get_memory_seed` inside `quid_create`, which
flushes the buffer on its way. `Interrupt` is the signal. `signal` differs by
platform: where the handler serves one signal only (strict C library modes, Windows),
a second interrupt kills the process, elsewhere the handler runs again; both are
allowed. Identifiers are members of `Fields` whose accessors (`Reading`) return what
was asked for, which is what `OriginReadsBack` shows of the library; they fit the
widths of their C types, and the top bit of the clock sequence is set, as both
constructors set it. The operands are lines that some process has printed on the
screen (a terminal, so that they are out at once) and other texts. The output file is
written through a buffer of `BufSize` pieces, two of which make a line, so that a
block may end within one. `MaxDelay` is the delay whose microseconds still are an int
(`delay * 1000` at quidutil.c:548 is undefined beyond it). `WIN32` selects between the
two bodies of `qusleep` (`Slept`); on POSIX a long is taken to have 64 bits, and a
signal ends the wait. `Tails` says what the report may print behind a tag: the bytes
from the end of `static char tag[3]` (quid.c:329) up to the first zero byte, which is
for the linker to decide. `slept`, `late` and `lossy` are history variables.

### OptionTable, ArgStream, QuidGetopt

An argument is a word, `--`, or an option: letters and a long option behind them. A
long option is the set of the table's entries that begin with it, the one it is
equal to, and whether a `=` follows. `QuidGetopt` keeps in `argv` the position that
each argument had at first. A step is one round of the loop at `start`; the
exchange of two blocks is done by the swaps of `permute_args`, in `gcd` cycles.
`ArgStream` reads the arguments from the first to the last and keeps the operands
in a sequence of their own; the refinement mapping takes that sequence from the
block of words passed over, which the exchanges move.

### ChaChaBlock, ChaCha

Words are sets of bits, and `WordBits` is their number; a byte is a quarter of a
word. `doublerounds` follows the source, odd numbers of rounds included. The
writer and the reader start from the same parameters and call `chacha_next` or
`chacha_xor`, which differ only in the length they take; too few rounds, an unknown
key length and an input of more than a block abort. The run has words of eight bits, in
which the counter overflows. That the real width is right is shown by two
assumptions of `MCChaCha` at 32 bits, which TLC evaluates: published vectors, and
identifiers of `src/test/quid_test.c`, whose nodes the stretched key turns into
version, flag, category and padding.

## 3. Runs

All properties of a passing run have a mutant in `PROJECT.json`: a plausible fault
in the code (an operator whose name has a suffix, next to the one it replaces)
with which TLC finds the property violated.

| Run | Shows | Bounds and why they suffice |
|---|---|---|
| `clock` | stamps increase until the clock is set back, successive ones differ even then, at most quota + 1 per tick, `StampSource` is implemented, calls return | 2 processes, quota 1, resolution 2, 3 granules, 1 step back: within a tick a process opens it, uses the quota up and spins; the clock skips a tick and reopens one |
| `clock_fine` (violation) | quota 3 on resolution 2: stamps of a process repeat | the same relation as 1024 on 10 |
| `random` | the counter is the draws modulo an int; a seed serves its cycle; seeding recurs | ints of 4 bits, so the counter wraps; every int as cycle, at any time |
| `memseed` | no zeroes returned; the file is empty only while written or after a fault; a seed that is returned is in the file unless another process replaced it; a settled seed is replaced only after an `fopen` to read it failed; seeds converge | 2 processes that race, both with permission or one without; 2 faults of any kind, 2 seeds; cycles 1, -1, 0 and 2 and ints of 3 bits, so that the counter passes its cycle and runs through all ints |
| `memseed_poisoned` (violation) | after one crash no later run gets a seed | 1 process, 1 crash |
| `api` | an identifier reads back; equal ones have equal origins; only a time whose lower half is zero is rejected | 1 structure and 1 text, so two identifiers at once; times with bits at both ends of each part and two that differ in one bit; padding, short and no tag; texts of each version, of none, and with no time |
| `create` | a process never repeats an identifier until the clock is set back; equal identifiers have equal stamps and requests | 2 processes, both versions, 1 step back |
| `create_global` (violation) | two processes make the same identifier | 2 processes, no step back |
| `util` | lines match the last values and all flags of the command line and are counted; an interrupt stops; no text is misread; files that exist stay and appended lines too; reports are true; the tool ends | 2 processes with 8 pairs of command lines that use every option; 1 failure, 2 interrupts; counts wrap at 4, so that -1 is a count of 3; blocks of 3 pieces, so that a block ends within a line; fields whose hexadecimal and decimal texts differ in length |
| `util_tag` (violation) | the report prints what stands behind the tag | 1 line with a tag, checked once; a byte behind the buffer that may be other than zero |
| `getopt` | blocks are never empty, exchanges keep the order, the stream parser is implemented, long options fit, types hold, the calls end | the tool's own table; all lines of 3 arguments of 13 kinds, and all of 7 words, `-q` and `-c`, which give blocks of sizes with every small greatest common divisor; permuting and POSIX |
| `chacha` | the reader recovers every message; the two counter words are the first block plus the calls, modulo both words | words of 8 bits, 1 and 3 rounds (1 is refused), the counter at 0 and at the overflow, messages of 6, 64 and 65 bytes, 2 calls of each user |

`api` runs without deadlock checking, since a failed assertion ends the program; so do
the runs of `util`, and `getopt` and `chacha`, in which all processes or calls come to
an end. In `clock` and `create` no call starts in the last granule, and `Horizon`
keeps the finished model going.

**Fairness.** `clock`: weak fairness of `Tick`, since real time passes, and of the
loop of each process, since the operating system runs it; the clock is set back only a
bounded number of times. `random`: weak fairness of `Draw`, a program that keeps
making identifiers. `memseed`, `memseed_poisoned`: a call under way goes on, programs
keep making identifiers, and one that the library ended is started again. Failures,
crashes and settings may come at any moment, the first two at most `MaxFaults` times:
`SeedsConverge` is about what follows the last of them. `util`: weak fairness of the
steps of each process, which the operating system runs; interrupts are not fair and
bounded in number. `getopt`: weak fairness of the next step, a caller that calls until
-1 is returned.

## 4. What the violations say

- `clock_fine`: the quota of 1024 (quid.c:72) does not fit into a microsecond,
  which has 10 units. The eleventh timestamp of a microsecond equals the first
  of the next one (quid.c:714). Compiled and run, one process does not usually
  reach eleven calls in a microsecond on today's machines; the model shows what
  keeps it from happening is speed and not the quota.
- `create_global`: nothing in an identifier depends on the process where
  `true_random` is constant. Two tools that each made 200000 identifiers at the
  same time on x86-64 shared 146370 of them.
- `memseed_poisoned`: the seed file is created in place (quid.c:456), and a crash
  before it is filled leaves it empty for good. For the same reason a process that
  reads the file while another creates it exits.
- `util_tag`: `quid_tag` returns three characters without an end, and `printf` goes
  on to the next zero byte (quid.c:329, quidutil.c:193). In gcc's usual builds that
  byte is the next: padding, or a static that is still zero, since a process that
  checks makes no identifiers. It is the linker that arranges it: with
  `-Os -fdata-sections -Wl,--sort-section=alignment` the tool's variable `flg` is next,
  and `--set-public --set-master --verbose` prints a byte 5 behind the tag; with
  `-O2 -flto -flto-partition=max` a program that has made an identifier before it calls
  `quid_tag` reads a string of four characters. `util` checks the same property with
  a zero byte behind the buffer, where it holds.

Other disagreements of comments and code were met and have no run of their own.

- For one time unit in 2^32 (429 s) the lower half of the time is zero, which
  `quid_validate` takes for impossible (quid.c:829) and an assertion forbids
  (quid.c:493): with assertions, `quid_create` ends the program in that instant.
  `RejectedOnlyForZeroTime` states that this is the only case.
- A process that begins a new cycle finds the seed file that it has read or written in
  the last, and reads it again (quid.c:439), while the comment at `MEM_SEED_CYCLE`
  (quid.c:74) and the usage text (quidutil.c:254) promise a new seed. A process gets
  another one only where the file was replaced, which `SettledStays` confines to races
  at its creation and to failing calls.
- A delay of a second or more is not waited at all, although the usage text promises
  it (quidutil.c:252): `qusleep` gives it to `nanosleep` in nanoseconds only
  (quidutil.c:314). The Windows branch waits.
- The random counter is compared with `==`, so a cycle set below it is passed over:
  the test sets a cycle of 2 after 10000 draws (`src/test/quid_test.c:57`), and the
  counter has then to run through all ints. `SeedServesCycle` and `SeedsAgain` state
  what remains true.
- What `-x` and `-i` print is in general rejected by the tool itself, for lack of
  padding (quidutil.c:72); `NeverMisread` states that it is at least never taken
  for another identifier.
- The usage text offers `--rand-seek` (quidutil.c:253), the option is `rand-seed`
  (quidutil.c:373). Windows' parser takes an abbreviation such as `--set-s` for the
  first entry that fits, because all these entries have the value 0; `LongOptionsFit`
  states what it promises.

Smaller ones: a tick
yields quota + 1 timestamps (quid.c:72), which `TickQuotaAndOne` states as it is;
`quid_cmp` returns the opposite of what its comment says
(quid.c:166) and the tests rely on that; version bits 0xe and 0xf are accepted
(quid.c:837); `quid_create` repeats the version a structure was last given
(quid.c:626, where the comment calls this dangerous).

## 5. Proofs

Every theorem holds for any number of processes and any values of the constants
that meet the named assumptions of its module.

- `QuidCreate_proofs`, on `QuidClock`. `TypeCorrect`, `QuotaHolds` (with `BurstInv`:
  the count of the tick counts the stamps since the clock moved). Assuming
  `QuotaFitsTick`, `UIDS_PER_TICK < Resolution`: `SuccessiveDiffer`, `Increase`,
  `Refinement`. None of these is inductive as it stands, because a stamp says nothing
  of the statics: `StaticsInv` adds that the last stamp is `time_last` plus the count
  and that `time_last` is a reading; `IncreaseInv` adds that, until the clock is set
  back, `time_last` is not ahead of it and no stamp is above that sum. The arithmetic
  is `ReadingsApart`: different readings are `Resolution` apart.
- `QuidRandom_proofs`. `RandomTypeCorrect`, `CountTracksDrawn`, `CycleServed`; the
  last needs `CycleInv`: without an overrun the counter is between zero and the
  cycle, so the comparison with `==` meets it.
- `QuidMemSeed_proofs`. `MemSeedTypeCorrect`, `SeedReturned` (`LoadedInv`: a process
  past the loading, or with a counter that is not zero, holds a seed),
  `EmptyIsTransient`, and `SettledForGood`, the part of convergence that is a safety
  property: once a seed is in the file and nobody is about to create it, it stays for
  all processes until an `fopen` fails that should have read it. It needs of
  `LoadedInv` that who writes may open the file, so that a process without permission
  does no harm. `SeedIsInFile` follows from `HeldInv`: from the end of the loading to
  the end of the cycle what is held is what is in the file, unless the two have
  parted; while a process replaces the file, it holds nothing that counts. Where one
  process runs at a time, only a file that can be opened in neither mode parts them.
- `QuidCodec_proofs`. `Rev4ReadsBack`, `Rev7ReadsBack`: the accessors invert the
  constructors for all widths, arguments and keystreams, from `FieldsMakeUp` (the
  parts of a time make it up again), `TimeHiUndone` (magic and version are undone),
  `EncryptTwice` and `VersionFound`. `EqualOrigins`: what is printed determines the
  version, and with it all that is read.
- `QuidApi_proofs`. `ApiTypeCorrect`, `OriginsReadBack`, `EqualIdentifiers`, from
  `OriginInv`: a structure or text with a known origin holds what that origin
  makes, and `quid_validate` would find its version.
  `RejectedForZeroTime`: what the library made passes `Genuine` but for `LowTime`.
- `QuidCreate_proofs`, on the composition. `CreateTypeCorrect`, `CollidingStamps`,
  and, assuming `QuotaFitsTick`, `UniqueInProcess`. `UsesClock` says that a behaviour
  of the composed system is one of `QuidClock`, so that `Increase` applies; `MadeInv`
  ties the identifiers to the stamps. `BitsAssumption` says that the modelled times
  fit into the timestamp.
- `QuidUtil_proofs`. `UtilTypeCorrect`, `CountIsAccounted`, `InterruptsStop` and
  `OldFilesAreKept`, for any processes, command lines, files and widths; `DelaysAdd`, on
  Windows or where `MaxDelay` is below a second, which says how far the broken promise
  of the usage text reaches. The
  invariant `UtilInv` says of each process where it is (`Placed`: past the options
  nothing is left of them, and the loop is entered with no line printed), that lines
  and counter differ by one only between output and `++i` (`Counted`), that
  no line has followed the interrupt unless the flag was tested before it
  (`Stopped`), and that the sleep is the
  delay times the counter (`Rested`); the reports on operands play no part in it.
  `StoreInv` adds `FileIsOwn`: a process past `check_fname` writes to a file that was
  absent at first, however many do.
  - `LinesAreAsAsked`. The variables of `main` are overwritten option by option, and
    the structure call by call, while the property speaks of the whole command
    line. `AskedInv` holds between the two: what has been read so far is a prefix of
    the options, and variables and structure are what that prefix asks for
    (`SettingsInv`); every line came from a request of the final settings
    (`LinesInv`). `RequestStays` is the step where the version survives: the
    structure that `quid_create` cleared is given the version that was asked for.
  - `FilesKeepLines`. `KeepInv` says for some m that the file has the first m pieces of
    the process in order and the buffer those that follow, and that m and the length
    of the buffer make up two pieces per line; `OwnPieces` says that nobody else
    writes pieces of the process, so that a block another process writes in between
    does no harm (`OthersPieces`).
  - `PrintedReadsBack`, for fields of any widths. Of the text in braces the marks are
    stripped and the padded digits remain, `CutsBack` finds each field where it was
    put and `ValueOfPlaces` reads the number back. Of `-x` there is no padding: by
    `NoneIsShort` a text that has the length `quid_parse` asks for has no short field,
    and then nothing is shifted. Of `-i` the digit at the place of the version is
    below ten and `quid_validate` refuses it (`DecRefused`). `LinesAreNotMisread` and
    `ReportsAreAsAsked`, the latter assuming `Tails = {""}`, follow with `ReportsInv`,
    by which every report on a line is on one that a process could print.
- `QuidGetopt_proofs`. `BlocksStayInOrder` (`IndexInv`): by `OptionUses` an option
  that leaves nothing of its argument has used it, so that the options behind a block
  of words are at least one when the block is exchanged. `PermuteArgs`: the swaps are
  a walk through a ring of both blocks in strides of one of them; gcd cycles are
  disjoint and together reach every place (`GcdIsGcd`, `AtDistinct`, `AtCovers`), and
  `AfterSwap` says what each swap has done. `OrderStays` (`OrderInv`): words passed
  over and options behind them are increasing runs of positions, and what is unread is
  where it was. `LongOptionsStayFit` and `TypeStays` (`LongInv`): what is left in
  `place` belongs to the argument at `optind`. `ParserReadsStream`: each step is one
  of `ArgStream` or none that it sees; the operands that it keeps apart are the block
  of words, longer by one word after `PassWord` and the same after an exchange
  (`SkippedIs`).
- `ChaCha_proofs`, for words of any width. `EveryMessageRecovered` needs to know that
  the reader will be where the writer was, although only their present contexts are
  state: `RecoverInv` says that there is a sequence of states, one for each call, on
  which both are (`Trace`) and from which each cipher text came; `FlipTwice` does the
  rest. `TypeIsKept` is part of it and has no run of its own, since in a run the
  counter property would show a carry that leaves its word. `CounterIsRight`:
  `PlusOneIs` finds the bit where the carry ends, and `NumberOfNext`, digit by digit,
  that the number is one more, through the overflow of the low word
  (`AdvancedCounts`). `NoStateTwice` follows: within 2^64 calls the states from which
  the blocks are made differ. That different states have different blocks is a matter
  of the cipher and not claimed.

Every invariant and every safety property of the passing runs is thus stated by a
theorem. What computes on texts, vectors and words is written with recursive
functions; the proofs obtain such a function from the existence and uniqueness of
what satisfies its equations, by induction on the numbers, which comes from
`NatLessThanWellFounded` and `WFMin` for a set in place of a predicate.

Only model-checked: the liveness properties `CallReturns`, `SeedsAgain`,
`SeedsConverge`, `Ends` and `Terminates`, and the fairness that `ImplementsStream`
asks for on top of `ParserReadsStream`, since both depend on `ENABLED`; and the
violations, which are counterexamples.

Assumed and not shown: that `Resolution` is above the quota, which is true of
Windows' clock and false on POSIX; that the keystream is a function of the
parts of the identifier; that the fields of an identifier fit their C types and
read back (`ReadingAssumption` of `QuidUtil`, the result of `QuidCodec` in another
representation); that a zero byte stands behind the tag buffer; that the long
options of an argument are entries of the table.

## 6. Not modelled

- The conversion of seconds and microseconds by `quid_timeval` and of Windows'
  file time; the locale's date formats; the tick count, which `true_random` adds to
  a number that is constant on x86-64.
- That rand repeats its numbers when it is seeded within the same time bucket
  (quid.c:740): no identifier depends on them on x86-64.
- Of `win32_getopt.h`, what the tool does not use: `getopt`, `getopt_long_only`,
  optional arguments, flag pointers, `-W`, option strings that begin with `+`, `-` or
  `:`, `optopt`, `optreset`.
- Of the tool, timings, wording and dates, and builds with assertions, in which an
  identifier of a zero time ends the process (modelled in `QuidApi`).
- `Y_EXT` of the cipher, an extension that no build file turns on.
- `quidpp.h`: wrappers around functions that the library does not export; it does
  not compile against `quid.h`. Build files and tests.
- Threads: nothing in the library is written for them.

## 7. Plan

1. Done: clock, random counter, memory seed, codec, interface, composition, the
   tool, its option parser, the cipher, and their proofs.
2. `QuidCreate` with `true_random` and `get_memory_seed` inside the call, so that an
   exit in the memory seed appears in what a process makes, and `QuidUtil` on top
   of it in place of `Reading`.
3. Proofs: a measure that every step of the tool and of the option parser decreases,
   which is what `Ends` and `Terminates` rest on.
