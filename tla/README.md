# Super Debugger in TLA+

The repository holds `super_debugger` (`src/honorsProjekt`): it runs a program
under valgrind, refuses to go on while valgrind reports certain errors,
disassembles the program with objdump to learn which address starts which
line, and then lets the user debug it over ptrace with breakpoints and line
stepping. `src/mdb.c` is an older, independent ptrace debugger that works on
instructions and symbols.

This directory models both debuggers and the session around the first one,
checks them with TLC on small programs, and proves the main safety properties
with TLAPS for every program. The parsers that turn valgrind's and objdump's
text into verdict and line tables, the hash table mdb uses, and the two larger
sample programs are modelled each in a module of its own.

## 1. The system: an inventory

| Part | Source | State it keeps | Operations |
|---|---|---|---|
| main | `honorsProjekt/super_debugger.cpp:85` | none | valgrind, then objdump, then the debugger; a non-zero result ends the session |
| valgrind front end | `parseValgrind.cpp` | `totalErrors`, `dividedErrors[9]`, `memory` | `execValgrind` (pipe, fork, wait, read), `parse`, `examine` (nine categories), `handleNows`, `printMem` |
| objdump front end | `parseObjDump.cpp` | the dump file, `objectDump`, `mainFunct`, `sourceFile`, `x86_code`, `line_to_addr`, `addr_to_line` | `execObjDump` (fork, file, wait), `getObjDump`, `parseAssem`, `fillMaps` |
| ptrace debugger (sdb) | `tryingPtrace.cpp` | `all_brkpts` (address -> saved word), `helper_brkpt` (address -> number), `brkpt_idx` (number -> address), `brkpt_batch`, `brkpt_num`, `reset_brkpt`, `former_brkpt`, `cont_flag`, `former_line` | run, break, rm, continue, next, exit, info, reg, help; the `waitpid` loop; the answer to each kind of stop |
| mdb | `src/mdb.c` | `brptab` (uthash), the last wait `status`, the symbol table | break, next, continue, kill, registers |
| the debuggee | not in the repository | text, rip, running or stopped | executes, traps, faults, exits |
| uthash | `src/uthash.h` (vendored) | buckets with chains (`hh_next`, `hh_prev`) and their limits, the application-order list (`next`, `prev`, `tail`), the counters of expansion | add, find, delete, doubling of the buckets, sort, select, clear; used by mdb only |
| faultyMalloc | `faultyMalloc.c` (and `testers/`) | a list of all blocks and one of the free ones, through headers in the memory itself; the test's dictionary | malloc, free, realloc; a test that keeps, drops and reallocates at random |
| camel_caser | `testCamel_sol.c`, `testCamel.c` (and `testers/`) | the strings it allocates | `camel_caser`, `getSentences`, `parseStr`; the test's comparison |
| other sample debuggees | `collatzTest.cpp`, `test*.c`, `helloworld.cpp`, ... | - | programs to run the debugger on |
| `src/parse.c`, `honorsProjekt/copy` | a stub and hand-kept snapshots | - | nothing builds them |

How the parts interact:

- main calls `execValgrind`, `execObjDump` and `main_debugger` with the same
  `argc, argv`, and each picks its words from them in its own way.
- `execValgrind` talks to valgrind through one pipe and `waitpid`; the program
  under valgrind shares the terminal and passes its exit status on.
- `execObjDump` talks to objdump through a file `<name>_copy.asm` in the
  current directory, which outlives the process when something goes wrong.
- `execObjDump` hands the line tables to the debugger as globals.
- Both debuggers drive a child through ptrace: they write INT 3 into its text a
  *word* at a time, resume it, and learn from `waitpid` that it stopped. There
  are no threads and no signal handlers; the concurrency is debugger against
  debuggee, and parent against child processes.

What is hard here:

- *INT 3 bookkeeping.* A breakpoint is an opcode in somebody else's text. It is
  lifted when hit, must be set again exactly once and only after the program
  has left it, by whichever command comes next; the saved word holds whatever
  stood there when it was saved, neighbours' breakpoints included.
- *What a stop means.* The debugger guesses from `rip - 1` and `rip` why the
  program stopped.
- *A race.* After `continue` past a breakpoint `prog_active` resumes the
  program and reads `rip` at once, while the program may or may not have
  stopped again (`tryingPtrace.cpp:690-704`).
- *Ends.* End of input at every prompt, signals other than SIGTRAP, a program
  that ends under any command.
- *Processes that wait for each other*, and files that outlive a session.
- *Text that is not what the parser expects*: a report that was cut off, a line
  of the program's own output stuck to a line of valgrind's, a dump with the
  name of an inlined function in it, a source that was edited since.
- *Pointers relinked by hand* in several lists at once (uthash, faultyMalloc):
  one forgotten end shows only several calls later.

`PROJECT.json` lists each hazard at its line with the properties that watch it.

## 2. The modules

```
Tracee                 the debuggee, the CPU and the kernel (environment)
  Sdb                  tryingPtrace.cpp
    SdbContract        Sdb implements LineDebugger (INSTANCE ... WITH)
      SdbProofs        its inductive invariants (tables, text, control flow); every
                       step of Sdb is one of LineDebugger or a stutter
    MCSdbSpaced, MCSdbClose, MCSdbShort    three small programs
  Mdb                  mdb.c
    MdbProofs          its inductive invariant
    MCMdb              one small program
LineDebugger           what a line debugger promises (abstract, no ptrace)
SuperDebugger          main, execValgrind, execObjDump, the hand-over
  SessionProofs        its inductive invariant
  MCSuperDebugger      two programs in a directory
LineTables             the parser of execObjDump: dump -> line tables
ValgrindReport         the parser of execValgrind: report -> verdict
  ParserProofs         two inductive invariants of each parser
Uthash                 uthash.h
  UthashProofs         its inductive invariant, and what each macro does to it
CamelCaser             testCamel_sol.c
  CamelCaserProofs     its inductive invariant, and what parseStr computes
FaultyMalloc           faultyMalloc.c
  FaultyMallocProofs   its inductive invariant
MCParts                the five above, one at a time, on small inputs
Induction              induction on numbers, for the proofs
```

Definitions called *Slip* in a comment are variations of the definition that
follows them, as a plausible mistake would have it. Nothing uses them; each
makes one of the properties fail when it is put in place of the original, which
shows that the property can see such a mistake.

### Tracee

The program is a control-flow graph `Succ` over instructions with addresses and
sizes; data is abstracted by nondeterministic branches. `text[x]` says how the
byte at `x` differs from the executable (`"orig"`, `"int3"`, `"zero"`, `"ff"`).
`Execute`, `Exit`, `Trap` (INT 3 leaves `rip` one past itself), `Fault` and
`RunWild` (bytes that are not the program's own) are what a running child does.
`PeekWord`, `PokeWord`, `PeekRip` and `Resume` are the ptrace requests the
debuggers use; they fail when the child is not stopped, and nobody checks
their result, so the model does not either. The actions are external: they are modelled
from how the code in `src/` uses them.

### Sdb

The variables carry the names of the globals in `tryingPtrace.cpp`; `dbg` is
the place where the debugger is. While the child is stopped nothing runs but
the debugger, so what `prog_active` does between two points where the child
runs or the user types is one action:

| Action | Code |
|---|---|
| `FirstStop`, `FirstExit` | first `waitpid` of `main_debugger` (822-836) |
| `Run`, `Continue`, `NextLine` | the resuming commands; `Leave` is the end of `prog_active` (788-804): insert the batch, PTRACE_CONT or PTRACE_SINGLESTEP |
| `Break`, `Remove` | `find_print_brk_loc`, `find_print_rm_loc` |
| `ExitCmd`, `ConfirmNo`, `ConfirmYes`, `ConfirmAgain` | `confirm_exit` |
| `EndOfInput` | `getline` fails |
| `ContinueOver`, `PeekHit`, `PeekMiss` | stepping off a breakpoint under "continue", and the racing read of `rip` |
| `StopAtBrkpt`, `StopBeforeBrkpt`, `StepDone`, `StepOn` | the other answers to SIGTRAP |
| `OtherSignal`, `Reap` | the rest of the `waitpid` loop |

`info`, `reg` and `help` change nothing and are left out. A command's text is
abstracted to the command and its line number.

### LineDebugger and SdbContract

`LineDebugger` says what the user is promised, without text, INT 3 or ptrace:
the program executes only its own instructions; it never passes a breakpoint
that was not reported on this arrival; "continue" comes back only at a
breakpoint, "next" only at a breakpoint or at another line. `SdbContract` maps
Sdb to it: `pos` is `rip`, less one when an INT 3 was just executed; `bps` is
what `helper_brkpt` lists; `reported` is `reset_brkpt`, read in the phase where
it means "the program stands on a breakpoint that was reported".

### Mdb

mdb's loop looks at the last wait status before *every* command, so an action
is a command and the look that follows it (`LoopTop`). `brptab` is a sequence in
which the entries of one key have the order of their chain in uthash: HASH_ADD
puts in front and HASH_FIND returns the first match; `Matching` compares keys
modulo `KeyMod`, as HASH_FIND_INT compares four bytes of an eight-byte address.
When `Capacity` entries (ten in uthash) have met in a bucket the buckets are
doubled, which turns every chain round (`Turned`); which entries share a bucket
is up to the hash, so `Break` may double whenever so many are in the table.
`doubled` remembers it. The disassembly printed by `next` and the register dump
are left out.

### SuperDebugger

Session after session in one directory. `vg` and `od` are the two child processes,
`pipe` the units of text in the pipe, `files` the dump files (parts tagged with the
version of the program they came from), `tables` what the line tables were made
from. A word of the command line is what each part asks of it: does it start with
`-` or `.`, does exec find a program for it (`Found`: `d/p` and, on the PATH, `p` as
well as `./p`), and what is left without its first two characters (`DumpFile`; of a
word of one character nothing is, and `substr` throws: `NoFileName`). So `d/p ./q`
has valgrind check `./q` while `d/p` is dumped and debugged, and `CheckedIsDebugged`
says when checked and debugged are the same. `NewSession` picks any command line and
any recompiled programs; `Interrupt` (^C) may end a session anywhere before the
debugger runs, which leaves whole or partial dump files behind. What `parse` and
`examine` read from a report is abstracted to its verdict; ValgrindReport has the
way from the text to the verdict, and LineTables the way from the dump to the tables
that Sdb takes as constants. `RoundTrip` and `EntriesAreStarts` are what Sdb's
`TablesAssumption` asks of them.

### LineTables

A dump is a sequence of lines of five kinds: the label of a function, an empty
line, a marker `file:number`, an instruction (its address), and any other name.
`pc` goes through the parts of `execObjDump`: `getObjDump` cuts main out of the
file; `SplitInstr`, `SplitMark` and `SplitName` are the three things the loop
over its lines does (the last one is `stoi` throwing); `parseAssem` makes a
block per step; `EraseMain` drops the first block; `fillMaps` enters one block per
step. `"crashed"` stands for an exception that nobody catches and for reading
beyond a vector, which `parseAssem` may do when the source is shorter than it was
when compiled.

### ValgrindReport

A report is a sequence of classified lines, plus what valgrind had to say
(`errors`), which the parser never looks at and the properties compare with.
`rpc` names the loop of `parse` that is running, one iteration is a step, and
the loop over the errors is kept as it is written: it moves only on an empty
line and ends only at exactly `place`, so that it *could* run for ever
(`NextError` is then not enabled, and `NoSpin` false). Then `examine` files one
error a step, and `handleNows`, `ForceOn` and `Continue` are the verdict. Noise
is text of the program's own on the same pipe; a line of the report that noise
without a newline is stuck to is noise as well. In a text without HEAP SUMMARY
`place` is never set: `Kept` then takes any value that tells lines apart, which
is what the stack may hold. A line of an error's body with a `:` is taken for a
frame, whatever it is (`Described`), and `stoi` throws on some (`Throws`).

### Uthash

`table` is the `UT_hash_table` together with the handles of its elements. Both lists
through a handle are kept as pointers, because every macro updates each of them
separately: `next`, `prev` and `tail` in application order, `hh_next` and `hh_prev`
along the chain of a bucket. `InFront` is the relinking at the head of a chain
(adding, and each element of a doubling, `Rehash`), `HASH_DEL_IN_BKT` the one that
takes an element out; `HASH_FSCK` walks both lists as the header's check does and
compares every back pointer and count. An operation of the module is a macro of the
header, with its name. `HASH_SORT` is its merge sort of runs of doubling length;
`HASH_SELECT` walks the buckets of one table into another. `Key` may give two
elements the same key, as mdb does.

### CamelCaser and FaultyMalloc

Two programs the authors debug with. `CamelCaser` takes a step per sentence;
characters are one of each class that the code tells apart. `testCamel.c` is the
same program with its buffers one too short, which is the slip `parseStrShort`.

`FaultyMalloc` keeps the heap as the code does: headers at addresses, each with
`prev`/`next` through all blocks and `prevF`/`nextF` through the free ones, cut
and joined by `malloc` and `free`; a step is one round of the test's loop. The
code repeats each relinking in several places (the first block that is tried, a
later one; four cases in `free`); `UnlinkF`, `AppendF`, `PointBack`, `Split` and
`Absorb` are these repeated pieces. Of the memory only the two words the test
writes into each allocation are kept. A `realloc` that copies beyond the new
block, or from under a header that was just written, does damage that depends
on the build: the behaviour ends there, in `"harmed"`.

## 3. The runs

| Run | Question | Answer |
|---|---|---|
| `sdb_spaced` | Do text, tables and `rip` stay right under every interleaving, and does Sdb implement `LineDebugger`? | yes, when lines are a word apart and start with long instructions |
| `sdb_live` | Is every SIGTRAP stop answered, does "next" come back, does the debugger end when its input does? | yes (no deadlock either) |
| `sdb_close` | Two lines less than a word apart: does "info" say what is armed? | **no** |
| `sdb_short_rewind` | A line that starts with a one-byte instruction: does an instruction ever run twice? | **yes** |
| `sdb_signal_hang` | A program that gets SIGSEGV: is the stop answered? | **no**, the debugger waits for ever |
| `mdb` | Does the text always show the table, with symbols set twice and colliding keys; do waits return? | yes |
| `mdb_break` | Does "break f" set a breakpoint in every state? | **no** |
| `mdb_next` | Does "next" always run an instruction of the program? | **no** |
| `session` | Is what is debugged what was checked, with its own tables; do sessions end? | yes, when reports fit into the pipe |
| `session_pipe` | ... and when they do not? | **no**, parent and valgrind wait for each other |
| `session_force` | Does `-f ./program` debug the program? | **no**, it executes `-f` |
| `parts` | The parsers, the hash table, camel_caser and the allocator, each by itself on every small input: right result, sound structure, no endless loop? | yes |

The properties, and what each is about, are in comments above their
definitions. In short:

- Sdb: `Bookkeeping` (four tables agree), `TextIntegrity` (INT 3 stands exactly
  at the breakpoints inserted and not lifted), `LiftedHere`, `PromptAtLine`,
  `OwnCode`, `NoRewind` (rip moves back only over an executed INT 3),
  `ImplementsLineDebugger`; `StopAnswered`, `StepReturns`, `InputEnds`.
- Mdb: `TextShowsTable` and `UndoneInOrder` (until the buckets are first doubled),
  `WaitReturns`.
- SuperDebugger: `CheckedIsDebugged` (what is debugged is the word that was
  dumped, after a clean verdict, and is what valgrind checked exactly if it starts
  with a dot), `ReadsWhole` (the one read of the pipe finds the whole report),
  `TablesAreCurrent`, `SessionEnds`.
- LineTables: `RoundTrip`, `EntriesAreStarts`, `TablesAreRight` (against a
  definition of the tables in one piece).
- ValgrindReport: `ErrorsRead` (every error with its own frames), `VerdictRight`,
  `NoFalseAlarm` (no text makes up an error), `MemoryIsSummary`, `NoSpin`; both
  parsers: `ParsersEnd`.
- Uthash: `Fscked` (the header's own debug check, after every operation),
  `FindsRight`, `ChainsBounded`, `SortsStably`.
- CamelCaser: `WritesFit`, `CamelRight` (by the test's own `equal`).
- FaultyMalloc: `BlocksTile` (no word lost, none in two blocks),
  `FreeListRight` (once each, both ends, no two free neighbours), `DataKept`.

### Bounds, and why they are enough

- *Programs.* Five to seven instructions. MCSdbSpaced has a loop, a line whose code is
  in two blocks (a `for` header), an instruction that leads to itself (a `rep`
  prefix), a typed line number with no code and one past the end, and startup code with no line. MCSdbClose and
  MCSdbShort each break one of the layout conditions. MCMdb calls a function
  from a loop, and both functions start with a one-byte `push`.
- *Word size* 3 (sdb) and 4 (mdb) instead of 8: what matters is whether another
  breakpoint or instruction starts inside a word, which the layouts decide.
- *Breakpoints.* `MaxBrkpts` bounds the numbers given out: 3 in `sdb_spaced`, which
  is every line of the program, or one line set, removed and set again; 2 in `sdb_live`. In `mdb`
  three entries in the table, so a symbol can be set twice with another one between,
  and `Capacity = 3`, so that the third may double the buckets (what happens then is
  checked for types and progress only); in `mdb_break` and `mdb_next` it is uthash's ten.
- *Session.* Commands of up to two words over six: a flag, another option, `./p`,
  `./q`, `d/p` (a program exec finds, without a leading dot, whose dump goes to the
  file of `./p`) and `p` (one character, not on the PATH). Two words are enough
  for the readings to differ: a third is one more that is passed over, or stands
  behind `-f`, where nothing is debugged. Three versions of one program with dumps of different length and
  main in different places; a pipe of two units and reports of up to two (three
  in `session_pipe`). Sessions repeat without bound.
- *Dumps.* Main with four instructions and every choice of marker, name or
  nothing before each; lines 1 to 3, so that lines repeat, and one of them beyond
  the end of the source; code of another function before main, and another main
  behind it; a dump without main.
- *Reports.* Up to two errors of six sorts, two of them behind a line "Thread 2:", with
  and without leaks, and two empty lines before HEAP SUMMARY, as valgrind prints them;
  each of these with any one line lost to noise, with noise between two lines, and
  (up to one error) with any two neighbouring lines lost or cut off after any line,
  in which case `place` may hold anything. Two errors are enough for one to be mixed
  up with its neighbour.
- *Uthash.* Six elements with keys 0, 0, 4, 1, 1, 1, two buckets at first that double
  at chains of three: every way to add, delete and sort them, doubling once or
  twice, and a bucket in which two keys stay together when there are two buckets and
  four. `Picks` leaves one element out of HASH_SELECT.
- *camel_caser.* All texts of up to three characters (marks among them) before a
  last mark, by themselves, and behind a first word with a sentence that has no mark after them.
- *faultyMalloc.* Five allocations of three sizes with a header of two words; sbrk is
  asked for more than one block for the smallest, as below `SMALL`, and for one otherwise; a
  rest is worth a block for some sizes and not for others.
- `parts` has one behaviour per part and input; the parts do not interact, and
  one run shows all of them. There is no deadlock: a part that has ended repeats
  its last state.
- `sdb_spaced` includes an instruction that may fault, after which the debugger
  does hang; it therefore does not check deadlock. `sdb_live` does, without
  faults.

### Fairness

Weak fairness only, and only of what the code or the kernel does by itself:
the child runs when it is runnable, `waitpid` returns when there is something
to report, the debugger goes on after it (`Wait`, `Peek`, and `EndOfInput` once
the input has ended), main, valgrind and objdump are scheduled, and a parser, which waits
for nothing, runs (`Parse` in `MCParts`). The user is never obliged to type. Where
a property needs the program itself to end or its lines to end, the property
says so (`InputEnds` and `WaitReturns` allow the program to execute for ever)
or the run's program is chosen so (`MCSuccNoRep` in `sdb_live`, where every line ends).

## 4. What is proved

All proofs hold for every value of the constants that satisfies the named
assumptions of the modules: every program, layout, line table and input.

| Theorem | Says | Needs |
|---|---|---|
| `TypeCorrect`, `TablesAgree`, `LiftedIsHere` | `TypeOK`, `Bookkeeping`, `LiftedHere` always hold | nothing of the layout |
| `TextIsProgram` | `TextIntegrity` | `Spaced` |
| `RunsOwnCode` | `OwnCode` | `Spaced`, `Disjoint` |
| `PromptsAtLine` | `PromptAtLine` | `Spaced`, `Disjoint` |
| `NeverRewinds` | `NoRewind` | `Spaced`, `Disjoint`, `LongLines` |
| `KeepsContract` | `ImplementsLineDebugger`: Sdb implements LineDebugger | `Spaced`, `Disjoint`, `LongLines` |
| `ReportIsWhole`, `DebuggedWasChecked` | `ReadsWhole`, `CheckedIsDebugged` | nothing |
| `TablesStayCurrent` | `TablesAreCurrent` | every dump has a main |
| `SessionTyped` | `TypeOK` of SuperDebugger | nothing |
| `MdbTyped` | `TypeOK` of Mdb | nothing of the layout |
| `MdbTextShowsTable`, `MdbUndoneInOrder` | `TextShowsTable`, `UndoneInOrder`: until the buckets are doubled | `Spaced` (symbols a word apart) |
| `DoublesAtCapacity` | they never are | `MaxBrkpts < Capacity` |
| `TablesComplete` | `TablesAreRight` | `FilesAssumption` |
| `TablesTyped`, `TablesAgreeBothWays`, `TablesComeFromMarks` | `TypeOK`, `RoundTrip`, `EntriesAreStarts` of LineTables | dumps are what objdump prints (`FilesAssumption`) |
| `ReportTyped`, `NeverSpins`, `StopsForCause` | `RTypeOK`, `NoSpin`, `NoFalseAlarm` | texts are sequences of classified lines (`ReportsAssumption`) |
| `AllErrorsRead`, `RightVerdict`, `SummaryOnly` | `ErrorsRead`, `VerdictRight`, `MemoryIsSummary` | `ReportsAssumption`; texts are what noise and a broken pipe leave of a report (`PrintedAssumption`) |
| `MTyped`, `NoWordIsLost`, `FreeListIsFreeBlocks`, `ChecksPass` | `MTypeOK`, `BlocksTile`, `FreeListRight`, `DataKept` of FaultyMalloc | what the code asks sbrk for has room for the rest's header (`HeapAssumption`) |
| `CamelTyped`, `BuffersSuffice`, `TestPasses` | `CTypeOK`, `WritesFit`, `CamelRight` of CamelCaser | texts are strings (`TextsAssumption`) |
| `HashInvariant`, `HashTyped` | `HashInv`, `HTypeOK` of Uthash | any hash values; a chain's limit of more than one (`HashAssumption`) |
| `PassesFsck`, `FindsItsKey`, `BoundsChains`, `SortIsStable` | `Fscked`, `FindsRight`, `ChainsBounded`, `SortsStably` | `HashAssumption` |
| `FreeEmpties` | `HASH_FREE` leaves `NoTable`, as `HASH_CLEAR` does | `HashAssumption` |

`Spaced`: two lines are at least a word apart. `Disjoint`: instructions do not
overlap. `LongLines`: no instruction starts one byte after a line starts. The
exact premises stand in the theorems. `sdb_close` and `sdb_short_rewind` show
that `Spaced` and `LongLines` cannot be dropped.

*Sdb, tables.* `Bookkeeping` is not inductive by itself: `LiftedHere` needs that
a prompted user's child is stopped (else `rip` cannot be read by "rm") and that
nothing is lifted before the first stop or after the race of "continue". That
is `Standing`, and `IInv == TypeOK /\ Bookkeeping /\ LiftedHere /\ Standing` is
inductive.

*Sdb, text.* Putting a saved word back restores the program only if the word
holds the program's own bytes, which must be known since it was saved:
`SavedOrig`. With `Spaced`, no other breakpoint lies in the word, so
`TInv == IInv /\ TextIntegrity /\ SavedOrig` is inductive. `RInv` adds where
`rip` can be in each phase, from which `OwnCode`, `PromptAtLine` and
`NoRewind` follow.

*Sdb, refinement.* The last part of `SdbProofs` shows that Init maps to
LineDebugger's Init and every action to a step or a stutter: an instruction of the
child to `Execute` or `End`, an INT 3 or a signal to a stutter; the resuming
commands and the end of the input to `ResumeCont` or `ResumeStep`; "break", "rm" and
"exit" to `SetBrkpt`, `RemoveBrkpt` and `Kill`; the three ways to a prompt at a
breakpoint to `ReportBrkpt`, `StepDone` to `ReportLine`; the rest to stutters. Two
facts carry it. `is_brkpt` is exact (`PastBrkpt`), because no instruction starts one
byte after a line. And which command resumed the program, which the code keeps only
as `cont_flag`, can be told from the flags at every stop: `StopInv` adds to `RInv`
that a single step under "continue" has a breakpoint to set again, and that a
SIGTRAP which is no INT 3 ends a single step.

*SuperDebugger.* `SInv` says what valgrind was started on (`CheckedFirst`: the first
word it could have taken), that a report is read only from a valgrind that has
ended, when all it wrote is in the pipe (`ReportWhole`), that behind the verdict the
report is clean or the session forced, and that what objdump has written so far
stands at the start of the file (`DumpIsPrefix`). The last one gives
`TablesAreCurrent`: the first main in the file is at or before the new dump's own.

*Mdb.* Undoing a hit restores a word only if it was saved clean or the entry above
it is undone first; so `MInv` relates text, table and saved words at once: `Shows`
(every byte is the newest entry's INT 3 or zero, or the program's own) and `Undone`
(each saved word is what the older entries at that symbol make of it). Both are
stated for any text and table, because a command changes them and the look at the
tracee (`LoopTop`) may then undo an entry in the same step. Behind a doubling
neither holds, since the older of two entries at a symbol is undone first;
`DoublesAtCapacity` says from which number of entries on that can happen. A key that
collides takes an entry at another symbol for the hit, and with it moves `rip`
anywhere: that is why `TypeOK` lets `rip` be any integer, and the proof does not
need that keys differ.

*LineTables.* The blocks that are still to be entered have to be of the dump
(`DumpOK`, `InstrsRead`, `MarksRead`: the vectors are what the lines read so far
say), and no two of them start at one address, since every marker is followed by an
instruction with an address of its own. `RoundTrip` follows: an entry of
addr_to_line is never overwritten with another line.
That nothing is missing is the second invariant, `CInv`: the dump is cut out at
main (`Cut`), every mark of a block read so far has its place in the vectors and
these keep the order of the dump (`EveryMark`, `MarksInOrder`, `Leads`), and
the maps are complete up to the block that is entered next (`CompleteTo`). It is
stated about positions in the file, so that a step extends it by one, and at the end
it is `TablesAreRight`.

*ValgrindReport.* `LinesFromText`, `ErrorsFromText` and `FiledRight` trace every
filed error back to a line of the text (`StopsForCause`). `NeverSpins` holds because
both inner loops leave the outer one on an empty line or not at all.
What is read of a whole report needs where the parser stands in it. `PrintedTo[n]`
is the text of the first n errors and `At(n)` the line behind it (`Printing`,
`Places`); `Layout` says which line is which once the text is kept. `WInv` then
says, for each loop, how many errors have been read and how much of the next
one's body (`InBlanks`, `InBody`), that the summary is taken from HEAP SUMMARY
on (`HeapTaken`, `LeaksSeen`, `NoRerun`), that all errors before the one examined
are filed and no others (`FiledTo`), and what `handleNows` showed (`SaidRight`).
`ErrorsRead`, `VerdictRight` and `MemoryIsSummary` follow. A whole report may have
any number of empty lines before HEAP SUMMARY; `place` is then the last of them, and
the loop over the blanks passes all of them at once. `VerdictRight` is about programs
without threads (`OneThread`): in front of another thread's error stands "Thread 2:".
For a spoilt report, the loop that looks for a message reaches the line before HEAP
SUMMARY only over empty lines, so that line alone can be one of an error, and
only if an empty line stands before it: a report that has lost the body of its last
error and the empty line behind it. `MemoryIsSummary` names that one exception, which
the run has (two neighbouring lines lost). `SummaryIsLast` says only that valgrind
prints no error behind HEAP SUMMARY.

*FaultyMalloc.* `BlocksTile` and `FreeListRight` are about walks along the links, and
no step of the allocator can be followed through a walk: it changes links in the
middle. The invariant says the same of the links one by one. `HeapOK` has four
parts. `Tiled`: the next of a block is the header at its end, prev leads back, the
last block ends at brk. `Links`: nextF and prevF of the free blocks lead to free
blocks and back, and end at the two ends of the list. That alone would allow a ring
beside the list, so `Listed` adds that the free blocks have an order (some `rank`)
in which nothing lies between a block and the one its nextF leads to. `Apart`:
no two free blocks are neighbours. Each piece of `malloc` and `free` is a lemma about
the fields it leaves (`UnlinkF`, `AppendF`, `PointBack`, `Split`, `Absorb`), then
about the four parts; in between, while a block is marked but not yet linked, they
hold for a set other than the free blocks, so the parts take that set as a
parameter. A heap that is `HeapOK` is walked from end to end (`GoesThrough`, by
`Induction`, since the order only ever rises), and so `Found` is right about which
block malloc takes.
`MInv` adds the test: what is kept lies in different blocks in use (`KeptIn`), the
block to be reallocated is another one (`Retried`), and after a allocations the heap
has not grown beyond `Reach(a)`, so that every word written is one that exists.
`DataKept` follows: `malloc`, `free` and a harmless copy touch no word inside another
block. `HeapAssumption` is what the code guarantees: less than SMALL is
multiplied by 512 and at least 24 bytes, so the piece left over has room for its
header, and the test's own arrays are far larger than SMALL. `MInv` was first
checked by TLC with the constants of `parts`.

*CamelCaser.* The loop of `parseStr` is compared with a definition that has no loop:
`Camel` says of each letter alone whether it becomes a capital. After n characters
what is written is the camelCase of these (`CamelTo`: the letter for character i
stands at the place that counts what was kept up to i), and `prev` says that
between the last space and here there were only digits (`Leads`); this is shown
for the first word (`FirstWordIs`), for each later character (`LaterIs`) and so,
by `Induction`, for a sentence of any length (`WrittenIs`). The number of letters is
the length without the spaces, which is what was allocated (`KeptAndSpaces`), so
`WritesFit` and `CamelRight` follow from one lemma, `ParseIs`. `CamelInv` adds that
the sentence `getSentences` is at is the next one by the marks (`NthIs`: the k-th
mark has k marks up to it), and that the array of pointers has as many places as
there are marks and one more.

*Uthash.* The macros relink pointers, and no invariant can be followed through a
walk along pointers that are being changed. The proof therefore goes over a second
table, in which a bucket's chain is a sequence (the lemmas' *abstract* table): the
table in memory `Threads` an abstract one if every bucket's head, count and
allowance fit, each element of a chain has the one before and behind it in `hh_prev`
and `hh_next` (`ThreadedAt`), and the other fields are alike. Each macro on memory
threads the macro on sequences: putting in front (`InFrontIs`), taking out of the
middle (`HASH_DEL_IN_BKT`: `DeleteIs`), and the doubling, element by element
(`RehashIs`, `ExpandIs`). A walk along a threaded chain returns the sequence
(`AlongIs`), so that what is said of the sequences is true of the walks that
HASH_FIND, HASH_SELECT and HASH_FSCK take. What the macros keep of the sequences is
said of one list `s`, the application order: `HashInv` is that the table in memory
threads one for which some `s` is `Good`. `Linked`: head, next and prev are those of
`s`, so that a traversal returns `s` itself (`OrderIs`). `Filed`: the chain of a
bucket holds, once each, exactly the elements of `s` whose hash leads there, and its
count is right (`FiledAt`); with the threads and `num_items = Len(s)` that is all of
HASH_FSCK, every `hh_prev` included, since the chains' lengths add up to the number
of elements (`TotalCard`, `FsckIs`). `Sized` bounds the counters. None of this gives
the other two properties. That the last one added is found first is a relation
between two orders, `LastFirst`: of two elements with one key, the earlier in a
chain is the later in `s`. A doubling turns the chains round, so it is kept only
while there are as many buckets as at first. It survives the sort only because the
sort is stable. `ChainsBounded` is not inductive because a doubling sets every
`expand_mult` anew: a chain may be far above the new ideal length. `Bounded`
therefore adds that the multipliers the buckets are allowed, summed (`Allowances`),
do not exceed the number of buckets, from which the new ideal length is at most the
limit `Thresh` (`BoundedGrown`). It is a sum over the table before and after the
doubling, and the argument is one about nonlinear products, which the provers get a
product at a time. `MergeSortIs` follows the merge sort through its three nested
loops. `TurnInv` stands before and after every turn: the elements behind `base` that
were taken are all less than those left of both runs (`LeastLeft`, `MergeTakes`),
and what has been written is sorted in runs of twice the length (`GatherMore`). A
pass makes of sorted runs of w sorted runs of 2 w (`MergeRunsIs`), and the length of
the runs grows until it is that of the list. *Less* is by key and then by the place
in the list to be sorted, so order and stability are one fact. `SelectIs` follows
HASH_SELECT bucket by bucket and element by element; since it counts an element only
behind the doubling its insertion may cause, the doubling divides by an ideal length
one too small: with `Thresh = 1` it would divide by zero, which is why
`HashAssumption` excludes it (`HASH_BKT_CAPACITY_THRESH` is 10).

*Induction.* The prover cannot instantiate the library's induction theorems, which
take an operator as a parameter. `Induction` therefore states induction for a
*set* of numbers (`UpTo`), from the fact that `<` on Nat is well-founded (`Least`),
and proves that a function given by its first value and its steps exists
(`RunExists`). With these two, facts about recursive functions over a text of
any length are proved like any others (`JoinedIs`, `JoinedPrefix`).

Only model-checked: everything under fairness (`StopAnswered`, `StepReturns`,
`InputEnds`, `WaitReturns`, `SessionEnds`, `ParsersEnd`), which is out of this
prover's reach. `PartsTypeOK` is the conjunction of the five parts' type invariants in
the composition that TLC runs; each of the five is proved of its own module
(`TablesTyped`, `ReportTyped`, `HashTyped`, `CamelTyped`, `MTyped`).

## 5. Findings

1. `tryingPtrace.cpp:228, 515` - a hit or a removal writes back the whole word
   saved long before: a breakpoint less than eight bytes further on is lost, or
   comes back after it was removed, while `info` says otherwise (`sdb_close`).
2. `tryingPtrace.cpp:241` - stepping off a breakpoint on a one-byte instruction
   is taken for hitting it: the instruction runs twice (`sdb_short_rewind`).
3. `tryingPtrace.cpp:838` - a stop by a signal other than SIGTRAP is dropped: a
   debugger for memory errors hangs on SIGSEGV (`sdb_signal_hang`).
4. `mdb.c:149` - "break f" one byte into `f` is taken for a hit at once: the
   breakpoint is deleted and the program moved back (`mdb_break`).
5. `mdb.c:176` - a breakpoint zeroes the seven bytes behind it, and the program
   may run them (`mdb_next`).
6. `parseValgrind.cpp:429` - wait before read: a report longer than the pipe
   blocks both processes (`session_pipe`).
7. `tryingPtrace.cpp:856` - `-f` is executed instead of the program
   (`session_force`).

Seen while modelling, not runs of their own: `confirm_exit` asks for ever at
the end of the input (the model has it, `ConfirmAgain`); `mdb` repeats "invalid
or unknown command" for ever there (`Other`); a program that returns 1 ends the
session silently, because valgrind passes its status on (`ValgrindFails`);
after an interrupted session, the dump of a program that has since been
stripped is read from the older one behind it. In a program with threads the
line "Thread 2:" is taken for the message of an error, which then has no category
and passes the verdict. A report that was cut off before HEAP SUMMARY is read up to an
uninitialised bound: with a negative one no error is found and the verdict is clean.
`super_debugger d/p ./q` has `./q` checked and debugs `d/p`. A dump with a name inside
main, and a source shorter than at its compilation, crash the parser (`SplitName`,
`parseAssem`). uthash turns every chain round when it doubles its
buckets: once ten entries have met in a bucket, of two breakpoints at one symbol the
older one would be found first, and mdb would put the newer one's INT 3 back
as the program's own word (`FindsRight`, `UndoneInOrder` and `TextShowsTable` speak of
the time before).
`HASH_SELECT` never moves the tail of the table it fills, so that adding to that
table would lose all but its first element. `realloc` of faultyMalloc copies the
old block's length into a smaller one, and calloc clears only what is NULL; that
program is faulty on purpose.

## 6. Not modelled, and why

- Wording: what `handleNows`, `printMem` and the other printing functions write,
  the bytes and mnemonics that `parseStr` cuts out of an instruction, the text
  of the source lines. `Sdb` takes the line tables as constants under
  `TablesAssumption`; LineTables is not composed with it, because a dump has
  nothing to do with the debugger after the tables are filled.
- A position-independent executable: every address in the tables is wrong
  and every request fails. The tables are assumed to hold running addresses.
- Terminal output, colours, `info`, `reg`, `help`, disassembly.
- A valgrind or objdump killed by a signal in the middle of its text.
- A dump that breaks off behind a marker: `fillMaps` reads the first instruction
  of a block without any.
- uthash: the hash functions (`HashOf` is any function of the key), the Bloom filter and
  key emission, which are compiled out, and an exhausted memory, which ends the process.
- faultyMalloc: `calloc` and the helpers that only commented-out code calls; a
  failing sbrk, and memory that someone else takes from sbrk in between.
- `collatzTest.cpp`, `test*.c`, `helloworld.cpp` and the like: straight-line
  exercises without state of their own; Tracee stands for any program.
- `parse.c`, a stub; the snapshots in `copy/`, earlier versions of the three files
  that are modelled; `testers/`, the same files as their namesakes one directory up.
  These copies are half of the repository's lines.

## 7. Plan

In order of weight:

1. *done* - Tracee, Sdb, LineDebugger, SdbContract; SdbProofs.
2. *done* - Mdb.
3. *done* - SuperDebugger, SessionProofs.
4. *done* - LineTables, ValgrindReport with their proofs; Uthash, CamelCaser,
   FaultyMalloc; MCParts.
5. *done* - MdbProofs; `TypeOK` of SuperDebugger.
6. *done* - the refinement: `Spec => ImplementsLineDebugger` under `Spaced`,
   `Disjoint` and `LongLines`.
7. *done* - the second invariants of LineTables and ValgrindReport: what they
   make of a whole dump and a whole report is complete.
8. *done* - FaultyMallocProofs: the heap, for every sequence of allocations.
9. *done* - CamelCaserProofs: what camel_caser returns, for texts of any length.
10. *done* - UthashProofs: every operation, the merge sort and HASH_SELECT
   included, for tables of any size.
