# EX716: verification models

EX716 is a 16-bit stack computer in software: a CPU emulator with two backends
(Python and C), a macro assembler and linker, a library written in EX716
assembly (control structures, heap, file system, events), and host tools. A
second emulator, `cpu24.py`, gives the machine banks of memory, segments and
rings. This directory has TLA+ models of the parts whose correctness depends on
long sequences of calls, on interleavings and crashes, or on every combination
of flags and operands; the configurations that check them with TLC; and proofs
that the TLA+ proof system checks.

Paths are relative to the repository. `heapmgr.ld` is `lib/heapmgr.ld`,
`ex716disk.py` is `filesys/ex716disk.py`, and so on.

## The system

| part | state it keeps | operations | interacts with |
|---|---|---|---|
| CPU, Python (`cpu.py`, class `microcpu`) | pc, flags, 253-slot hardware stack, 64 KiB memory | 56 instructions, of which CAST and POLL call services | the run loops and the debugger execute it |
| CPU, C (`speedCPU.c`) | the same, borrowed from Python for a call; its own terminal and disk | `step_once` in a loop | `evalpc` calls it; return codes end the loop |
| 24-bit machine (`cpu24.py`, and `speedCPU.c` again) | banks, four segment registers, a ring, a prefix | far calls and jumps, segment and ring instructions, prefixes | as above |
| run loops (`evalpc`, `_evalpc_c`, `_evalpc_py`) | mode, return code | run, step, cross-check | both backends, the debugger |
| debugger (`debugger`) | breakpoints, temporary ones, watch points | n, s, c, r, g, m, b, tb, ... | calls the run loops, is entered from inside them |
| terminal | the terminal's attributes, a copy in each backend | raw mode, echo, restore | programs, the debugger, Ctrl-C, the end of the process |
| block and tape devices | open file, disk pointer | select, seek, read, write, sync | DiskOS |
| assembler (`cpu.py`, `cpu24.py`) | queue of commands, conditional blocks, macro stack, labels with scopes and history, pending references; banks | assemble a line, load a file, patch | the linker, macro libraries |
| dynamic libraries (`cpu.py`) | requests, temporary files | #USE, D, prune, clean up | other processes that assemble |
| library tools (`linklibrary.py`, `lib_scan.py`) | none | order the functions of a library | libraries |
| flag, rotate and comparison macros (`common.mc`) | none: flags of the CPU | set a flag, rotate, jump on an order | every program |
| structured blocks (`structure.asm`) | the assembler's macro stack; loop variables | IF, WHILE, FOR, WHEN, SWITCH | assembler, the jumps of `common.mc` |
| heap (`heapmgr.ld`) | a chain of headers inside the heap's region | define, new, resize, delete, defrag, append, validate | event library, strings, BASIC |
| software stack, containers (`softstack.ld`, `stacktool.ld`, `fifoqueue.ls`) | a stack in memory | subroutine linkage, locals | every subroutine |
| events (`event.ld`) | event table, key ring, timers | add, remove, poll, dispatch | heap, terminal |
| DiskOS (`diskos.ld`) | header, bitmap and directory sectors, open files in heap memory | format, open, read, write, close | heap, block device |
| disk-image tool (`ex716disk.py`) | an image file, its backup | format, import, export, rename, delete, undelete, check | the same images as DiskOS |

What is hard in it, and what makes each part correct:

* **Two CPUs.** Two independent implementations, in two widths, must agree on each
  instruction and service, for every operand, flag word, stack depth and segment.
  The cross check that compares them must not change what it checks.
* **Run loops and debugger.** A debugger that never returns is entered from inside
  a loop that another debugger runs. Breakpoints must hold in both modes, and raw
  mode must stay one that can be undone.
* **Assembler.** References are resolved from three tables and a history, or patched
  at the end; macros name their labels by a stack that they push and pop while they
  are expanded, in skipped text too; files have scopes, code and data have banks.
* **Linker.** The functions that are needed, and no others, are linked, also when
  they use each other; processes at work in one directory remove each other's files.
* **Macros.** The CPU has jumps on single flags only. "Less than" is two or
  three jumps, spelled out in each macro; loops test a wrapped index.
* **Heap.** Objects must stay apart over any sequence of calls; freeing everything must
  give everything back. The chain is kept in bytes with word stores, so each
  store of a flag also writes its neighbour.
* **Disk images.** Deletion flips flags and undelete flips them back, in between
  other commands take what was freed. Commands are processes without a lock that
  may be killed at any point.
* **Disk devices.** One backend keeps a disk pointer, the other a pointer and the
  position of its file; which of them an operation follows and moves differs.
* **DiskOS, events.** Crashes between sector writes, a file opened twice, a ring
  that overflows. Not modelled yet; the lines are in `PROJECT.json` under hazards.

## The modules

| module | models | kind |
|---|---|---|
| `Words` | words, sums, differences, the four flags | operators |
| `Machine` | the state of a CPU, the instructions, what the services print and read | operators |
| `PyCpu`, `CCpu`, `PyCpu24` | one instruction, as each emulator executes it; `CCpu` has both widths | operators |
| `Lockstep` | Python and C on one memory: the cross check of `evalpc` | specification |
| `LockstepProofs` | theorems about `Lockstep`, for machines of every size | proofs |
| `FlagMacros` | flag and rotate macros, executed by either backend | specification on `PyCpu`, `CCpu` |
| `Terminal` | the terminal and the copies that restore it | actions |
| `Emulator` | run loops, faults, Ctrl-C, debugger | specification on `Terminal`, with fairness |
| `EmulatorProofs` | theorems about `Emulator` | proofs |
| `Assembler` | files, blocks, macros, labels, references | specification |
| `StructureMacros` | the macros of `structure.asm`, as tokens for `Assembler` | operators |
| `Structured` | what the jumps of nested structures, and scopes, ought to be | properties of `Assembler` |
| `Assembler24` | banks, entry points and data copies of `cpu24.py`'s assembler, beside `Assembler` | specification |
| `Linker` | #USE and D, temporary libraries, several processes | specification |
| `LibraryTools` | `linklibrary.py` and `lib_scan.py` on the libraries of `Linker` | operators |
| `AssemblerProofs` | theorems about `Assembler24` and `Linker`, for programs and libraries of any length | proofs |
| `Compare` | comparison jumps, IF, WHILE, ranges | specification on `Words` |
| `CompareProofs` | theorems about `Compare`, `Loops` and `FlagMacros`, for words of every width | proofs |
| `Loops` | FOR loops with NEXT, FORBREAK, FORCONTINUE | specification on `Words`, with fairness |
| `Allocator` | what the heap promises its clients | abstract specification |
| `Heap` | the chain as a set of objects | specification, implements `Allocator` |
| `HeapProofs` | theorems about `Heap` | proofs |
| `HeapMem` | the heap in bytes, stores in the code's order, resize in three steps | specification, implements `Heap` |
| `HeapMemProofs` | theorems about `HeapMem`, for regions and bytes of every size | proofs |
| `BlockDevice` | the disk operations of both backends, executed for one program | specification |
| `DiskImage` | the image tool's operations on an image | operators and specification |
| `DiskImageProofs` | theorems about `DiskImage`, for images of every size | proofs |
| `DiskTool` | processes running the tool on one file | specification on `DiskImage` |
| `DiskProofs` | theorems about `DiskTool` and `BlockDevice`, for any number of processes, disks and buffers | proofs |
| `MC*` | instances for TLC: definitions for constants, symmetry | |

### CPU and cross check

An instruction is a record (operation, operand mode, argument); executing it gives
a set of machines, empty where the backend gives up the program (`raiseerror`
enters the debugger in Python, C returns a code). `PyCpu`, `PyCpu24` and `CCpu` are
written from their own sources with their own arithmetic; only the names of the
instructions and their sizes are shared. The segment registers, the ring and the
prefix of the 24-bit machine are one record, `seg`, which is `NoSegments` in the
16-bit one. Fetching and decoding are left out: the next instruction is any. The methods of
`cpu24.py` are those of `cpu.py` over the bank that is active for data (`Window`, and `Back`, which
puts the bank where it was); `PyCpu24` extends `PyCpu`, and the methods that differ, or that refuse
more addresses, have 24 in their names.

OR, AND and XOR are a constant, `Logical`, because nothing here depends on which function of two words they
are: a run gives it the functions bit by bit (module `Bitwise`, in the MC modules), and the theorems hold
for any. `MachineAssumption` is what the emulators take for granted: a word is two bytes and has four bits for
flags, there are fewer stack slots and no more banks than words (the stack pointer is pushed
as a word, a bank is named by one), services are refused a few addresses at least (11 in
`cpu.py`, `Slack`), the characters of ASCII are bytes and are encoded as themselves, digits, signs, white space and the
line end are different characters of ASCII, and a line has room for two at least. `IsMachine` says what a machine is; `LockstepAssumption` asks it of those that a run starts with.

CAST and POLL take a command and a pointer from the stack. What a service prints is
a sequence of items in `out`: the bytes of each character of a text, the number with its format where a number is
printed (its digits are not spelled out), and which stream it goes to. What it reads comes from `typed`, the characters that
wait at the terminal, lines and their ends. Modelled are the ones
that print text, characters and numbers of one and two words, and those that read a number, a
line, a character and the time. `Casts` and `Polls` say which command is which.

The console is where the two are least alike, so the conversions are modelled by what they do, in each module by
its own source: which bytes `PrintStr` and `PrintErrMsg` write in two digits (`castText`, `castError`, `put_text`,
`put_error`, with the constants `RawText`, `RawErrPy`, `RawErrC` for the control characters that they leave alone);
`chr()` and the encoding of the output against a plain byte (`Encoded`, empty for a surrogate, which Python refuses to
write); the digits and minuses that Python collects of a line, and `int()` of them (`justnum`, `IsNumeral`, `int`), against `scanf`,
which passes over white space, takes a sign and digits and leaves the rest (`before_digits`, `run_end`, and `strtol` for numbers past
`LongMax`); and `readline(256)` against a buffer of 256 characters with its zero and `strlen` (`LineMax`, `fgets_takes`).
What is typed is ASCII without carriage returns, and standard output is UTF-8; the buffers of the two runtimes are
one with the terminal, so that a character that `scanf` leaves is there for whatever reads next, and the order
of what goes to different streams is that of the program.

`Lockstep` is one action, one turn of the loop in `evalpc`. Python and C execute on
what the code calls copies; these share the memory (`cpu.py:2139` copies the
machine and not its bytes), so C stores into the memory that Python then reads,
and the terminal (`Shared`).

In `FlagMacros` a macro is a sequence of instructions and every instruction is a
step of the chosen backend.

### Emulator and terminal

`debugger()` never returns: its loop ends by leaving the process. A debugger that is
entered inside a command therefore takes that command's place, and one variable,
`job`, has what is under way. `phase` is "eval" inside `evalpc` and "check" between its
calls: the loops of n, s and c look at breakpoints, watch points and counters there, with
what they read before. `PyExec` is `_evalpc_py`; `CExec` is `_evalpc_c` with one
disjunct for each of C's return codes. `shandler` is Ctrl-C, between two instructions
or in Python inside one. A program has instructions that matter here: push, pop
(which fault at the stack's ends), jump, store, the terminal's calls, the toggle of
tracing and END. `Terminal` has the terminal's three attributes and the copies of
both backends; `restore_tty` restores two of the attributes, as at exit.

### Assembler

A command is a sequence of tokens, and each file that is being read has a queue of
commands (`cmdq`); executing one consumes tokens and puts the rest back in front. The
actions are the turns of `loadfile`'s loop: a line is read, a command is skipped in a
block that is not executing, a block opens or closes, everything else executes. A
macro's body is put back into the queue with its unique number, so what macros do
to the stack of numbers, and the blocks inside them, happen in the code's order.
`src`, `uses` and `defs` are history: lines, references and labels, with where they stand. Addresses
count words. `Tokens` are what a line may consist of, and `Moves` finds the commands among them that place code. The ends of the code are labels
like others: END__ is global from the start and gets its value before the references are patched (`cpu.py:5033, 5046`).

`StructureMacros` has the bodies of `structure.asm`'s macros with their labels, jumps, stack operators
and conditionals, and one word for each run of other code. `Structured` finds the nesting from the
lines alone and says where each jump must go.

`Assembler24` has the handlers of `cpu24.py` that differ, on physical addresses: a bank
times `AddressSize` plus an offset. `banked` is chosen in the initial state: which of
the two programs is at work. The commands that both have are `Assembler`'s. `DataLabelBanks`,
which only the debugger reads, is left out.

### Linker

Each process assembles a program a line at a time. A D directive is the steps of
`FilterLibrary`: prune the temporary files of others (listed first, removed one by one), resolve the uses
(one function a turn), write the copy, load it, remove it. A kill may come between any two. `libs` is
any assignment of uses to functions, cyclic ones included. `LibraryTools` computes the order that each of the
two tools gives to the same lines.

### Heap

`Heap` keeps `objs` (addresses of all objects), `used` (flag not 0) and `req` (the
size the owner asked for: history, the code does not store it). The next pointer
needs no variable: the chain always runs upwards, so the next object is the
closest one above (`IsNext`), and `HeapMem` shows that the bytes say the same. One
action per function; `HeapNewObject` is the disjunction of its five exits.
`result` and `pushed` are the word left on the stack and how many were left.
`wild` records that a header went to a wrapped address; nothing is followed past
that.

`HeapMem` has the bytes. `HeapResizeObject` is three actions there, `ResizeStart`
(its call of `HeapNewObject`), `ResizeCopy` and `ResizeEnd` (its call of
`HeapDeleteObject`), because the first and last are steps of the chain. `stray`
records that the copy stored outside the new object, and `moving` that the
program jumped into nowhere; neither is followed further. Memory outside the
region reads as 0, as the machine starts with: this matters at one place, where
`HeapDefrag` reads the next pointer of object 0, at 0xFFFE. A loop along the chain is a function
of the number of turns, and `Turns` bounds that by the bytes of the region; that the loops
of the code end within them is part of what is proved. `ByteSize` is 256, as on the machine, in the
runs.

Assumed of clients: they delete and resize only objects they hold, and resize to
a size above 0.

### Comparisons and loops

In `Compare` a jump macro is the condition on the
flags under which it jumps, and a block is the condition under which its body is
entered; the state is the words compared. The forms that differ only in where an
operand is kept are one. In `Loops` the state is the loop's index and where
control is; the loop (form, bounds, step) is chosen in the initial state, and its
body may break, continue or run to its end.

### Disk devices

`BlockDevice` has both backends execute one program, each on files of its own. `py`
has DiskPtr (`ptr`) and the position of the file object (`pos`), `c` has
`g_disk_ptr`. An action is one macro of `common.mc`; the direct and the indirect form are
one, except for reads, where they do different things: PollReadSector reads on from
the file's position and PollReadSectorI from DiskPtr, and neither moves DiskPtr.
A sector is one value; disks have a whole number of sectors, as those of the image tool do.

`careful` and `sure` are history: `sure` has the kinds of transfer that need no
seek, by rules a programmer could follow. After DISKSEL, DISKSEEK and DISKWRITE any
transfer; after a read only DISKREAD; after DISKSYNC no DISKREAD, because Python opens its file
again at the start; and only one disk is ever selected, because Python keeps
the first. (`diskos.ld` seeks before each transfer.) A program
that breaks one is not followed any further, nor is a machine after a fault.

### Disk image

An image is a record of functions on directory slots and blocks. A command is an
operator that gives the set of images it may save, empty where it raises
`DiskError`. `DiskImage` applies a command in one step. `DiskTool` has the
processes: read, compute, copy to `.bak` (two steps: the file is torn in between),
write the temporary file, rename, and at every point `kill`. `payload` is
history: what was imported. Images are ones this tool has made.

## The runs

| run | question | bounds, and why they are enough |
|---|---|---|
| `lockstep` | do the emulators agree on every instruction and service, and does the cross check leave the program alone? | 6-bit words and 3-bit bytes: a flag word then has two bits beyond the flags; three stack slots: empty to full; boundary values; six operands, with the last addresses and pointers to them; three banks; eight characters, of which one each is a line end, a backspace, other white space, a digit, a minus, a plus (which is also a
letter) and no ASCII; room for lines of four, and fifteen inputs: empty, one and two lines, numbers with and without signs, too large, behind
and before other text, minuses in every place, a full line, a zero in a line. One step from every such machine: the next step starts from a machine of the same kind |
| `flag_macros` | does every macro do what it is named for? | every flag word, eight operands, two macros in sequence, so the second starts with the flags of the first |
| `emulator` | do breakpoints hold, does n end, can raw mode be undone? | programs of three instructions that loop, call, fault, trace, store and use the terminal; one stack place; a temporary breakpoint may be in the list once; in both modes, started with and without the debugger |
| `assembler` | do jumps nest, blocks pair, names resolve; is END__ past the program; do banks go on where they were left? | nests of six lines: a structure in a structure with an ELSE or a break, or with blocks around and in it; names: one name in three files (main, L, I), five lines: a definition, a use, a G and two that move the place or the scope; the same in two banks. More names do not meet: a name's tables are its own |
| `linker` | is exactly what is needed linked, are copies found and removed? | three functions with every use of one another, two libraries, two symmetric processes of two lines: one may prune between any two steps of the other; kills anywhere |
| `compare` | do the macros agree with the order of numbers? | all triples of 3-bit words: every combination of flags that a CMP can give; the theorems are for every width |
| `loops` | right passes, and termination? | 3-bit words, every start, stop and step |
| `heap` | do owners stay apart, is nothing lost, is it an allocator? | 36 bytes, sizes 0 (no result), 4, 9 (small, larger than the split threshold), 15, 30 (too large to split; too large); up to five objects, so the defragmentation skips, joins several and runs off the end; memory ends 17 bytes above the region, so tail extension wraps |
| `heap_bytes` | do the bytes behave as the chain, is no one's data altered? | the same region, seven calls with resizing, at addresses of 16 bits |
| `block_device` | can a program tell the backends' disks apart? | two disks and a missing one, empty or of one sector, three sectors, three contents; a buffer address at which a sector fits, one where Python alone reads, and one too high |
| `disk_image` | is the image always clean, do files read back? | six entries and five blocks, files of one, two and three extents, two names that fold together and one that does not: an import after a deletion reuses part of the deleted chain |
| `disk_tool` | is each command atomic under kills, what can two processes do to each other? | two symmetric processes, with and without backups, two entries, two blocks |

Every run ends in about two and a half minutes or less with two workers; `lockstep`
and `assembler` are the longest. The words of a run are narrower than the machine's; nothing
in the code depends on the width other than through the sign bit and the mask. The constants
of `FlagMacros`, and the numbers of the services and characters in `Lockstep`, are scaled to the
width. Banks of `Assembler24` have 64 places, more than any program of these bounds fills; that code
stays in its bank is the bound `WithinBank`, which the theorems have too.

Deadlock is checked in the disk-image and comparison runs, whose systems never stop. It is
not checked where a program or a bounded sequence of calls may be at its end: the
heap after a wild header, the CPU or a disk after a fault, a loop that is left, an
assembly or a process that is done.

**Fairness.** `Loops` assumes `WF_vars(Next)`: the CPU goes on executing instructions;
`_evalpc_py` is a loop with no wait in it. FORBREAK and FORCONTINUE are never obliged to
happen. `Emulator` assumes `WF_vars(Executes)` and `WF_vars(Loops)`: what is under way,
inside `evalpc` or in the loop of a debugger command, goes on. Nothing is assumed of
the user, of Ctrl-C, or of a program, which may loop for ever. `LoopEnds`, for the linker, is
stated as progress of each turn and so needs no fairness.

## What the runs show

* The emulators agree on every instruction in pc, stack, memory, segments and
  the flags, on what the services print and read, and on what they refuse, with
  the exceptions that `SameMachine`, `SameFlags` and `SameFaults` name: at
  the last address (C wraps, Python refuses or reads 0), DUP on an empty stack,
  carry and overflow after OR, AND, XOR, and at the console what `OwnWay` and `SameFaults` list (*Services*
  below). Ring 0 of the 24-bit machine is the
  16-bit machine, whatever its segment registers hold. The cross check leaves the
  machine as Python alone would, but for a store over its own pointer, and the terminal.
* c stops at every breakpoint; n ends or asks, whatever faults and Ctrl-C come
  between; a temporary breakpoint is spent where a command stops; raw mode can be undone with Python's
  backend, however often it was asked for and whatever faults and Ctrl-C have restored since.
* Jumps of nested structures go where the nesting says, whatever blocks are
  around and in them; a name with one definition that can be seen is resolved to it, whether it was
  known or comes later, in the file it is in or another, and .ENTRY finds its bank;
  END__ is past every word that holds a label; a bank goes on where it was left.
* Exactly the needed functions of a library are linked. A process
  that does not find its copy had it removed by another, and one that ends leaves none.
* All comparison macros but one agree with the order of the numbers. A FOR loop
  runs for the right indexes and stops when it can reach its stop value.
* The heap's owners never share a byte, the allocator refinement holds, and freeing
  everything leaves one free object although the walk skips objects.
* A program that seeks where the rules above ask for it has the same data in
  memory and on disk on both backends. The image tool keeps its images
  clean and atomic; two processes may lose an update and nothing else.

### Where the code differs from what is said of it

Each of these has a property that the code fails, kept in a configuration that
ends in the counterexample; check one property at a time, since
TLC stops at the first. They are not among the runs above.

`HeapFails.cfg` (module `Heap`), `HeapMemFails.cfg` (`HeapMem`):

1. `NoAdjacentFree`: `HeapDefrag` steps over objects, so free blocks stay next to each
   other (`heapmgr.ld:406`); `docs/lesson11.md:46` says that it runs on each deletion.
2. `InsideHeap`: `HeapNewObject` hands out memory past the heap's end
   (`heapmgr.ld:189`, whose comment asks whether there is room).
3. `OneResult`: `HeapNewObject(0)` leaves no result, error 3 leaves two words
   (`heapmgr.ld:119, 205`); line 39 documents one.
4. `ResizeReturns`: `HeapResizeObject` does not return when its new object is refused: the JMP of its
   error exit lacks the @ and is assembled as data (`heapmgr.ld:276`).
5. `CopiesTheData`: `HeapResizeObject` stores the copy at wrong addresses
   (`heapmgr.ld:298`); line 279 says what is copied where.
6. `ValidateReturns`: no exit of `HeapValidate` returns, for the reason of
   number 4 (`heapmgr.ld:654-684`); line 21 documents its results.

`LockstepFails.cfg` (`MCLockstep`):

7. `LogicKeepsCarry`: logic instructions lose carry and overflow in Python (`cpu.py:1328`).
   With it, CLC clears the carry in Python and not in C (`common.mc:235`): `FlagsAsNamed` fails
   with `Backend = "c"` in `MCFlagMacros.cfg`.
8. `CopiesIndependent`: the cross check's "independent copy" (`cpu.py:2139`) shares the
   memory, so a POPII over its own pointer stores twice.
9. `RingZeroCode`: C lets FJMPS leave bank 0 in ring 0, where `cpu24.py` refuses it.
10. `PrintsOneByte`: PrintCharI prints a whole word as one character, where the list of the
    commands in `cpu.py` says its lower byte.

`MCCompare.cfg` with one more invariant (`Compare`), `LoopsFails.cfg` (`Loops`):

11. `UnsignedOnStack`: `IF_UGE_S` is signed (`structure.asm:310`).
12. `UpRuns`: ForIup loops have their test inverted (`structure.asm:885`; line 855).
13. `DownRunsUnsigned`: ForIdown is signed (`structure.asm:894`; line 854).
14. `EndsAtStop`: FORCONTINUE ends the loop (`structure.asm:594`; line 45).

`BlockDeviceSelectsDisk.cfg` (`MCBlockDevice`):

15. With a disk selected, DISKSEL of another one opens the first
    again in Python (`cpu.py:1696`; `docs/lesson06.md:257`).

`AssemblerFails.cfg` (`MCAssembler`):

16. `LocalsPrivate`: the labels of a file loaded by L are found from outside of it, and one of the
    main file before a file's own (`cpu.py:779, 3424`); `README.md:155` and `docs/lesson05.md:54` call them local.
17. `ContinueContinues`: WHILECONTINUE takes the IF around it off the stack for good, so
    the structures that follow are closed by each other's labels (`structure.asm:576-584`).
18. `DataGoOn`: .DATA starts at the start of its bank each time, so a bank that is come
    back to is overwritten, and so is code there (`cpu24.py:4973`).
19. `EndPastBanks`: END__ is an offset in the highest bank and may lie below words of the others
    (`cpu24.py:5270`), and heaps are put there.
20. `CopiesCode`: .DATACOPY copies as much of bank 0 as an offset in the highest bank says (`cpu24.py:6581`).
21. `EntersItsBank`: .ENTRY takes the current bank for a label that `::` made in code, and for one that
    the history finds in another file (`cpu24.py:4941`).

`LinkerFails.cfg` (`MCLinker`):

22. `UsesLinked`: `README.md:222-233` has "D string.ld" and then "#USE strcpy"; this links
    nothing, because the D has been done.
23. `DependenciesLinked`: a use of another library's function is dropped (`diskos.ld:1619`).
24. `LoadsEveryLine`: of two functions of one name the second is loaded twice
    (`event.ld:1080, 1145` and `screen.ld:746, 777` have such pairs).

Others were met while modelling, and are in the models without a property of their own:

* *Run loop.* With tracing on, or toggled by the program, n in Fast mode does not come
  back; `docs/lesson02.md:83` says that instruction 0x64 drops to the debugger, where it toggles tracing;
  `docs/lesson06.md:253` says that END returns to the debugger, and it ends the process. s looks at
  no breakpoints. `-b` (`README.md:89`) fails, as a tuple is appended to. A fault in the
  debugger may reset the stack. ttyreset does not undo a raw mode that C has set, and ttyraw after it keeps
  that raw mode as what to go back to, which is why `RawUndone` speaks of one backend only. The flag
  that makes reads return at once is not restored at the end of the process.
* *Cross check.* It ends after the first instruction that succeeds (`cpu.py:2166`); that of `cpu24.py` does not
  compare segments. `cpu24.py` refuses an instruction at 0xfffd that does fit.
* *Services, printing.* PRTBINI leaves a word on Python's stack, and PRT32SignS one. Of what PrintErrMsg prints, a backspace
  is one in Python and `08` in C (`cpu.py:1634`, `speedCPU.c:561`). Bytes from 128 on go out of C as they are and out of
  Python as the UTF-8 of the character (`cpu.py:1625`); a word that is a surrogate stops Python in PrintCharI. PrintChar writes a line end after a
  control character in Python. An unknown service is passed over by Python and fatal in C.
* *Services, reading a number.* Python keeps the digits and minuses of a line and calls `int()`: `a5` is 5, and `5-3` raises an error
  (`cpu.py:1871-1876`). C reads what `scanf` takes: `5-3` is 5 with `-3` left, `a5` is an error, and empty lines before
  the number are passed over (`speedCPU.c:789`). C leaves the rest of the line to the next read, its end at least. Python stores 0 for a line
  without a number, and for 65535; C stores a number modulo a word.
* *Services, reading a string.* Python takes at most 256 characters and C 255 (`cpu.py:1884`, `speedCPU.c:796`). In C what follows a zero
  is no text. An empty line is not stored by Python, where C stores a zero.
* *Assembler.* `::` without .DATA reads a field that the context of `cpu.py` has not (`cpu.py:923`). END__ may lie
  below strings after a backward .ORG. G after a name's use leaves a forward reference
  unresolved. Breaks inside two IFs jump to a label of no loop.
* *Linker.* Of two processes, one may remove the other's copy before it is loaded. `lib_scan.py` drops a function
  without ENDFUNCTION (`diskos.ld:1935`).

## What is proved

`LockstepProofs`, for words, bytes, stacks and memories of any size, any number of banks, any numbering of the
services and any machines to start with, of 16 and of 24 bits:

* `LockstepInvariant`: `LInv` says that each machine is one (`IsMachine`), and that `c` and `py` are what C and
  Python have made of the last instruction. Without it the properties, which speak of `m` and `c`, say
  nothing of a step. It needs that every instruction makes machines out of machines, in each emulator.
* `MachinesAgree` (`SameMachine`), `FlagsAgree` (`SameFlags`), `FaultsAgree` (`SameFaults`): C computes addresses in
  the whole memory and Python works on a copy of a bank that it merges back. The lemmas compare what Python makes of
  `View(x)`, the active bank of a machine, with what C makes of `x`, one instruction at a time
  (`Alike` for the results, `Lone` for what one of them refuses), for machines that are `Clear` of the end of the bank and
  for instructions that the two do not do differently (`Own`); `Merge` lifts that to the 24-bit machine. For
  the flags, `HasWith` and its companions say what a flag word is after a bit has been put into it, and
  the carries and overflows of the two are equal by cases on signs. At the console, `TextsAlike` compares the two conversions of a text
  byte by byte, `StringAgree` what is stored of a line, in Python word by word and in C byte by byte; `NumberOfPython` and `NumberOfC` show that
  a line with its number first (`NumberFirst`) has one for `int()` and for `scanf`, so that neither refuses it (`IntegersRead`), although they look for it by
  different rules. `Fluent` says where one refuses what the other does, case by case (`OnlyCRefuses`,
  `OnlyPythonRefuses`). `Among` and `Value` are recursive functions, unfolded by induction with least elements (`Least`), as in `AssemblerProofs`.
* `CheckUndisturbed` (`CheckFollows`): a store is the one case in which C has changed what Python reads.
  `PopFollows` shows that storing the same word twice is storing it once, as long as the pointer is not overwritten.
* `RingZeroIsSixteen` (`RingZero`): in ring 0 `Window` is bank 0, whatever the segment registers hold.

`AssemblerProofs`, of `Assembler24`, for every program of any length, every macro, file and value, and banks of any size
(`AssemblerAssumption`: L and I load different files, which are not the main one, and no macro has .ORG in it, as none in
the repository has; lines are sequences of `Tokens`; code does not run over the end of its bank, the bound `WithinBank`):

* `NamesResolved` (`NamesResolve`): a reference is resolved where it stands, from the tables of the file, of all files
  or from the history, or it is patched at the end. `QueueInv` says that the commands that wait are cut from texts of the
  program and of its macros, and which file each open file is local to, so that no command makes up a token. `TablesInv` says of
  the three tables that they have of a name nothing which is not one of its definitions (`Says`), `DefsInv` that the
  definitions are finitely many and have the key of the file they were made in. `UsesInv` says that each word with a reference
  has the value of a definition, or is on the list of those to patch, or both (`Explained`): with a single definition there is then one
  value that it can have. It is inductive with the others only, since a label may be made before, after or between
  the references. With banks `CodeInv` ties a label's bank to the definition, and `EntryInv` says the same of .ENTRY, whose bank is
  looked up in a table of its own.
  The patching is a function over the list; `ThroughExists` and `CountsUp` unfold it, and `PatchedWord` says what a word is after it:
  the value, if all references to patch that lie there agree and there is one, or the word had it. A word that several references lie in (after a backward .ORG)
  is excepted by the property (`Lonely`), and that is where this is needed.
* `EndsPast` (`EndPastWords`): of one program, `BelowHigh`: every word with a label is below `highwater`, which no command sets back, where `highaddress`
  is set back by the end of each loaded file. With banks, `BanksInv` and `ApartInv`: a bank that is left has its end noted (`Goes`),
  every reference in it lies below that, and the next one is put there. A `.` or .ORG breaks it, and `Moved` says that one was read:
  for that `QueueInv` is needed again, as such a command comes from a line.

`AssemblerProofs`, of `Linker`, for every library, however its functions use each other, and any number of processes:

* `SelectsNeeded` (`LinksNeeded`): a D selects the least set that has what is asked for and what
  that uses. The invariant is `Resolving`, half way through the loop: what is selected is needed, and what
  is missing from it is pending; the lemmas `ResolvingStarts` and `ResolvingSelects` and their companions
  say that the loop begins with it, keeps it and ends with the least set.
* `TurnsEnd` (`LoopEnds`): each turn selects more, or leaves less pending.
* `CopiesIntact`: what is loaded is the copy that was computed for what had been asked for, from `LoadedInv`, which
  follows the copy from the write to the load past what others do to the directory (`OthersKeep`).
* `LoadsRight` (`LoadsTheLines`): these are the lines that the definition asks for, each once and in its order, for
  libraries of any length. `FilteredRight` says what `Scan` and `Filtered` compute of a text: after each line `ReadInv` holds,
  that what would be written then are the wanted ones of the lines read. The library's induction theorems cannot be used here, so the
  induction is done with sets of numbers: one that is not empty has a least member (`Least`), so one that has 0 and goes on from each
  number to the next has them all (`CountsUp`). From that `ScanIs` unfolds the recursive function of `Scan` and `FlattenIs`,
  `FlattenAppend` that of `FlattenSeq`; `FunctionLine`, `InnerLine`, `OuterLine` and `NoLine` are the kinds of lines.
  The assumption is `LibrariesAssumption`, that a FUNCTION has a name.
* `AloneFinds` (`FindsItsCopy`), `EndedLeaveNothing` (`NothingLeft`): from `FilesInv`, which says of each
  temporary file who owns it and whether the owner has it on its list.

`HeapProofs`, for every region, word size and set of sizes that `HeapAssumption`
allows (the region lies above address 100 and below the top of memory, which
`HeapDefineMemory` and its header comment ask for):

* `HeapInvariant`, from which the others follow: `HInv` is `TypeOK`, `NoOverlap` and
  `EmptyIsWhole` together, which is inductive. A new object takes a free object whose
  room ends where the next header starts, and the header of the rest is put inside
  that room (lemmas `RoomBelowNext`, `NewObjectFitRoom`, `TakeHInv`): so nothing that
  was above the object comes closer. `NoOverlap` speaks of every object above a used
  one, free ones included, and that makes it strong enough to be inductive with the
  types alone. `EmptyIsWhole` rests on `JoinedWhole`: with nothing in use the join
  that ends `HeapDeleteObject` reaches the end of the chain from its first object.
* `TypeCorrect`, `ClientsApart` (`NoOverlap`), `NothingLeaks` (`EmptyIsWhole`).
* `ChainIsAllocator`: initial states map to initial states, and each action is
  `Alloc`, `Refuse`, `Free`, or a stutter.

`HeapMemProofs`, for every region, every size of a byte, any clients and the modelled addresses up to any `Top`
below the top of memory (`HeapMemAssumption`; the chain's own assumption follows from it):

* `MemoryIsChain`: the invariant is `MInv`. Until a copy of `HeapResizeObject` has gone astray, the bytes hold a
  chain (`Chain`: it starts at the first object, each next pointer is that of the closest object above, and headers are three
  bytes apart) in a state that satisfies `HInv` of `HeapProofs`, which is instantiated with what the bytes say; an object that is
  being moved and its successor are both held (`Moves`); and blocks end below `Top`. Without `HInv` it is not inductive: that a byte which
  a client stores is in no header is `NoOverlap` (`BlocksApart`).
* `BytesImplementChain` (`ImplementsHeap`): each step is the step of `Heap` that it stands for. One lemma for each loop says what holds
  after so many turns: the walk of `HeapNewObject` stops at the lowest free object with enough
  room (`WalkIs`); `HeapListMap` collects the objects; the two nested loops of `HeapDefrag` visit and join those that
  `Heap` says with `Visited` and `Joined` (`DefragIs`). One lemma for each sequence of word stores says which chain it leaves (`SplitIs`,
  `TailIs`): three of its states in between are not chains.
* `DataKept` (`KeepsBytes`): an action property. A call stores in headers and in the bytes above flags, which are written as they
  were read; both are outside of every block.

`CompareProofs`, for every width of a word (`HalfAssumption`: the sign bit is a
positive number):

* `SignedMacros`, `UnsignedMacros`, `RangeMacros`. The lemma
  `SignedLess` is the core: negative differs from overflow exactly when the number is
  less, by cases on the two signs; the macros follow from it by propositional steps.
* `DownwardPasses` (`DownRuns`, of module `Loops`): `LoopInv` says where the index is after so
  many passes, as a number below the start that may have wrapped around as a word. `LeavesBelow`
  shows that the sign which the test looks at is that of the true difference, since the last step goes
  below the stop by no more than half of the words.
* `FlagMacrosRight` (`FlagsAsNamed`, of module `FlagMacros`, on both emulators; CLC in C on a machine that has
  a carry, `CarryLeft`, is the exception, number 7 of the disagreements above): `MacroInv` says how far a macro is, what its operands are and that the
  stack below them is as it was. One lemma for each instruction (`PushStep`, `AddStep`, `XorStep`, `PopNullStep`,
  `RotateStep`) says what both emulators do, although Python builds a new flag word and C changes one bit after the
  other (`PythonFlags`, `CFlags`); `TripleComputes` that the constants of each macro have the right sum. It
  rests on `MachineAssumption` and on `StartsAssumption`: what a program starts on is a machine.
* `RotationsRight` (`RotationsPure`, with the same exception): the carry and the word on top are one number
  (`Bits`), and `MacroInv` says by how many places the rotation has turned it so far. `TurnOnce` is what one instruction
  makes of that number on either emulator, `LeftAgain` and `RightAgain` that this is one place more of the wheel; both divide by a
  number that is not known (`Doubled`).

`DiskProofs`, of `BlockDevice`, for every set of disks, buffers, contents and sizes
(`BlockDeviceAssumption`: addresses are numbers, a disk has a file or has none):

* `DiskInvariant`: `SameData` is not inductive, since what a transfer does depends on
  the pointers. `SureIsAligned` says which of DiskPtr, the file's position and `g_disk_ptr`
  agree when; with it and the types it is. Both reads share the lemma `ReadDInv`.
* `MachinesTyped`, `BackendsAgree` (`SameData`).
* `BackendsFail` (`SameFaults`): an action property, from the same invariant and one lemma
  for each operation.

`DiskImageProofs`, for every number of entries and blocks, any names, files and lengths
(`DiskAssumption`: entry 0 is none, blocks have a size, there is a word for "no name"):

* `ImageInvariant`: what check asks for is not inductive. An undelete takes up a chain as it was
  left, so the invariant must speak of the entries that are not in use too: links lead
  upwards, no two lead to the same entry, none to an entry with a name, and from an entry in use to another
  one (`Linked`). An import writes into the lowest free entries, which then have a name or a link before them; that
  no entry which remains leads there follows from the order (`StoreTakes`), and that they get
  blocks nobody has from counting (`StoreBlocks`, on the lemmas about `Rank` and
  `Nth`). A chain is the least set that its links close, so it stays as it is where its links do (`ChainKept`).
  One lemma for each command: `StoreDInv`, `RenameDInv`, `DeleteDInv`, `UndeleteDInv`.
* `ChecksClean` (`CheckClean`), `NamesUnique` (`UniqueNames`).
* `FilesReadBack` (`ReadsBack`), `DeletedRestorable` (`DeletedIsWhole`): for these the invariant also speaks of what is in the blocks
  (`CInv`). An entry only ever has the block of its own number (`Placed`), whatever was freed and taken
  in between; so a file's data goes when one of its entries is taken and not before (`Kept`), and a visible or
  restorable chain `Holds` its payload extent by extent. The walk with which a file is
  read is a recursive function; `ExtentIs` gives its value at each extent, from the chain's order.

`DiskProofs`, of `DiskTool`, for any number of processes on one file, whatever the commands do to an image
(`FileClean`: for the sizes of `ToolAssumption`, which are those of the image):

* `ToolInvariant`: a process in `alone`, one that nothing has interrupted since it began,
  works on what is in the file (`Lone`), and its backup, once complete, is the file. An action of another process
  takes it out of `alone`; its own steps keep the rest.
* `CommandsAtomic` (`Atomic`), `BackupKept` (`BackupIsPrevious`): action properties, from it.
* `FileClean` (`AlwaysClean`): every image that a process reads, computes or saves satisfies the invariant of
  `DiskImageProofs`, because a command keeps it, from whatever image the process has read, be that out of date or not.

`EmulatorProofs`, for every program that stays within itself (`EmulatorAssumption`: it has an
instruction 0, its jumps and what the user names with g lie in it, and each of its
instructions has a source line; and by `TerminalAssumption` "nothing saved" is no state of the terminal):

* `EmulatorInvariant`: `EInv` says that a process at its prompt is inside no instruction, that one
  that has ended is at no command, and that c before its first instruction has not executed any. With
  it `BreaksHold` and `RawUndone` are inductive; one lemma for each run loop and each command.
* `BreakpointsHold` (`BreaksHold`), `RawModeUndone` (`RawUndone`), `TemporariesSpent` (`TempsSpent`).

Only model-checked: liveness of loops and of the debugger; of the assembler `JumpsNest` and `BlocksPair`,
which compare what macros of `structure.asm` did to the stack of numbers with a nesting that `Structured` finds in the lines with folds: for programs of any length that is an
induction over nested structures, thus over data. `SafeOrder` compares two orders of a library that are computed by folds over its text.

## Plan

In this order, each with its run before its theorems:

1. `DiskOS`: open, write, close as sector writes with crashes between them; two opens
   of a file; an abstract file store that it implements. Then its layout against
   the image tool's (file number N is at block N there; here too, as `Placed` shows, but by the
   order in which the tool takes free entries and free blocks).
2. `Events`: key ring, table and dispatch, with overflow and re-registration.
3. `SoftStack` and the containers; the multi-word routines against
   their reference definitions.
4. The assembler's macro parameters, `%` functions and repetitions.

## Not modelled

* Tapes: Python executes their operations on the disk's file, and C has no
  way to open one.
* Of the assembler: how text is cut into tokens, arithmetic in words and conditions, macro parameters
  and definitions (M, MA), `%` functions, braces, repetitions, one-line conditionals, a file
  that is loaded twice, several main files, and output as a file.
* Fetching and decoding of instructions; services that print the machine's own state.
* Debugger commands that only print, and the debugger of `cpu24.py`.
* The macros and hints from which `linklibrary.py` guesses calls.
* The older emulators, display and string libraries, BASIC and the other programs.
* `HeapAppend`, which nothing calls and whose arguments are swapped, and the parts of
  `PROJECT.json`'s components that are listed as such.
