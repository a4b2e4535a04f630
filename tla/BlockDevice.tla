---------------------------- MODULE BlockDevice ----------------------------
(***************************************************************************)
(* The disks of the two backends side by side: one program, executed by    *)
(* cpu.py and by speedCPU.c, each with disk files of its own that start    *)
(* out equal.                                                              *)
(*                                                                         *)
(* Python keeps DiskPtr, and the file object a position of its own; some   *)
(* operations follow one and some the other.  C has g_disk_ptr only: it    *)
(* seeks before every transfer.  The program is careful while it leaves    *)
(* out a seek only where both backends are known to be at one sector, and  *)
(* uses one disk; a careless one is not followed any further.              *)
(***************************************************************************)
EXTENDS Integers, Sequences

CONSTANTS
  Disks,        \* numbers of disks, each with a file
  Missing,      \* numbers of disks without one
  NoDisk,
  Addresses,    \* where the program has its buffers
  Contents,     \* what a sector can hold
  Zero,         \* the content of a sector that was never written
  BLOCK_SIZE,
  MAXMEMSP,
  MaxSector,    \* bound: the last sector a program seeks to or writes
  MaxLength     \* bound: the largest file at the start

ASSUME BlockDeviceAssumption ==
  /\ Addresses \subseteq Nat
  /\ NoDisk \notin Disks \cup Missing
  /\ Disks \cap Missing = {}
  /\ Zero \in Contents
  /\ BLOCK_SIZE \in Nat \ {0} /\ MAXMEMSP \in Nat
  /\ MaxSector \in Nat /\ MaxLength \in Nat

VARIABLES
  py,       \* the Python machine: up, handle, ptr, pos, files, mem
  c,        \* the C machine: up, disk, ptr, files, mem
  careful,  \* has the program kept to the rules so far?
  sure      \* the transfers for which it needs no seek

devices == <<py, c, careful, sure>>

Running == py.up /\ c.up /\ careful

Sectors == 0 .. MaxSector

\* What a program may rely on: "at" for the transfers that go to the disk
\* pointer, "next" for those that go on from the position of the file.
Transfers == {"at", "next"}

-----------------------------------------------------------------------------
(***************************************************************************)
(* Files.                                                                  *)
(***************************************************************************)

\* Writing past the end of a file fills what is between with zeros.
Written(file, sector, content) ==
  [i \in 1 .. (IF sector < Len(file) THEN Len(file) ELSE sector + 1) |->
     IF i = sector + 1 THEN content
     ELSE IF i <= Len(file) THEN file[i] ELSE Zero]

AtEnd(file, sector) == sector >= Len(file)

-----------------------------------------------------------------------------
(***************************************************************************)
(* cpu.py.  raiseerror leaves the program.                                 *)
(***************************************************************************)

raiseerror == [py EXCEPT !.up = FALSE]

\* The first disk that was selected is opened again, whichever is asked for.
PySelect(d) ==
  LET handle == IF py.handle = NoDisk THEN d ELSE py.handle
  IN  IF handle \in Missing THEN [raiseerror EXCEPT !.handle = handle]
      ELSE [py EXCEPT !.handle = handle, !.ptr = 0, !.pos = 0]

PySeek(s) ==
  IF py.handle = NoDisk THEN raiseerror
  ELSE [py EXCEPT !.ptr = s, !.pos = s]

PyWrite(a) ==
  IF py.handle = NoDisk \/ a >= MAXMEMSP - (BLOCK_SIZE - 1) THEN raiseerror
  ELSE [py EXCEPT !.files[py.handle] = Written(@, py.ptr, py.mem[a]),
                  !.ptr = @ + 1, !.pos = py.ptr + 1]

\* A read of 512 bytes at a position, which it advances; at the end of the file
\* it returns nothing and the memory stays.
PyReadFrom(a, position) ==
  IF AtEnd(py.files[py.handle], position) THEN [py EXCEPT !.pos = position]
  ELSE [py EXCEPT !.mem[a] = py.files[py.handle][position + 1],
                  !.pos = position + 1]

\* PollReadSector does not seek.
PyRead(a) ==
  IF py.handle = NoDisk \/ a > MAXMEMSP - (BLOCK_SIZE - 1) THEN raiseerror
  ELSE PyReadFrom(a, py.pos)

\* PollReadSectorI does; neither moves DiskPtr.
PyReadI(a) ==
  IF py.handle = NoDisk THEN py
  ELSE IF a > MAXMEMSP - (BLOCK_SIZE - 1) THEN raiseerror
  ELSE PyReadFrom(a, py.ptr)

\* The file is closed and opened again, at its start.
PySync ==
  IF py.handle = NoDisk THEN py ELSE [py EXCEPT !.pos = 0]

-----------------------------------------------------------------------------
(***************************************************************************)
(* speedCPU.c.  A return code leaves the program.                          *)
(***************************************************************************)

CFail == [c EXCEPT !.up = FALSE]

CSelect(d) ==
  IF d \in Missing THEN [CFail EXCEPT !.disk = NoDisk]
  ELSE [c EXCEPT !.disk = d, !.ptr = 0]

CSeek(s) ==
  IF c.disk = NoDisk THEN CFail ELSE [c EXCEPT !.ptr = s]

\* Mutant of CWrite: the disk pointer stays.
CWriteStays(a) ==
  IF c.disk = NoDisk \/ a > MAXMEMSP - BLOCK_SIZE THEN CFail
  ELSE [c EXCEPT !.files[c.disk] = Written(@, c.ptr, c.mem[a])]

CWrite(a) ==
  IF c.disk = NoDisk \/ a > MAXMEMSP - BLOCK_SIZE THEN CFail
  ELSE [c EXCEPT !.files[c.disk] = Written(@, c.ptr, c.mem[a]),
                 !.ptr = @ + 1]

\* Mutant of CRead: the limit of the address is Python's.
CReadAtLimit(a) ==
  IF c.disk = NoDisk THEN c
  ELSE IF a > MAXMEMSP - BLOCK_SIZE - 1 \/ AtEnd(c.files[c.disk], c.ptr) THEN CFail
  ELSE [c EXCEPT !.mem[a] = c.files[c.disk][c.ptr + 1], !.ptr = @ + 1]

\* Without a disk nothing is read, and nothing fails.
CRead(a) ==
  IF c.disk = NoDisk THEN c
  ELSE IF a > MAXMEMSP - BLOCK_SIZE \/ AtEnd(c.files[c.disk], c.ptr) THEN CFail
  ELSE [c EXCEPT !.mem[a] = c.files[c.disk][c.ptr + 1], !.ptr = @ + 1]

-----------------------------------------------------------------------------
(***************************************************************************)
(* The program.                                                            *)
(***************************************************************************)

Files == [Disks -> UNION {[1 .. n -> Contents] : n \in 0 .. MaxLength}]

DeviceInit ==
  \E files \in Files, mem \in [Addresses -> Contents] :
    /\ py = [up |-> TRUE, handle |-> NoDisk, ptr |-> -1, pos |-> 0,
             files |-> files, mem |-> mem]
    /\ c = [up |-> TRUE, disk |-> NoDisk, ptr |-> 0, files |-> files, mem |-> mem]
    /\ careful = TRUE
    /\ sure = {}

\* The program fills a buffer.
Fill(a, content) ==
  /\ Running
  /\ py' = [py EXCEPT !.mem[a] = content]
  /\ c' = [c EXCEPT !.mem[a] = content]
  /\ UNCHANGED <<careful, sure>>

\* A careful program never selects a second disk.
DISKSEL(d) ==
  /\ Running
  /\ py' = PySelect(d) /\ c' = CSelect(d)
  /\ careful' = (py.handle \in {NoDisk, d})
  /\ sure' = Transfers

DISKSEEK(s) ==
  /\ Running
  /\ py' = PySeek(s) /\ c' = CSeek(s)
  /\ sure' = Transfers
  /\ UNCHANGED careful

\* After a write both backends are at the next sector.
DISKWRITE(a) ==
  /\ Running
  /\ py.handle # NoDisk => py.ptr \in Sectors /\ c.ptr \in Sectors
  /\ py' = PyWrite(a) /\ c' = CWrite(a)
  /\ careful' = (py.handle # NoDisk => "at" \in sure)
  /\ sure' = Transfers

\* After a read only the position of Python's file is where C's pointer is.
DISKREAD(a) ==
  /\ Running
  /\ py' = PyRead(a) /\ c' = CRead(a)
  /\ careful' = (py.handle # NoDisk => "next" \in sure)
  /\ sure' = {"next"}

DISKREADI(a) ==
  /\ Running
  /\ py' = PyReadI(a) /\ c' = CRead(a)
  /\ careful' = (py.handle # NoDisk => "at" \in sure)
  /\ sure' = {"next"}

\* C flushes, which moves nothing.
DISKSYNC ==
  /\ Running
  /\ py' = PySync
  /\ sure' = sure \ {"next"}
  /\ UNCHANGED <<c, careful>>

DeviceNext ==
  \/ \E d \in Disks \cup Missing : DISKSEL(d)
  \/ \E s \in Sectors : DISKSEEK(s)
  \/ \E a \in Addresses :
       \/ DISKWRITE(a) \/ DISKREAD(a) \/ DISKREADI(a)
       \/ \E content \in Contents : Fill(a, content)
  \/ DISKSYNC

DeviceSpec == DeviceInit /\ [][DeviceNext]_devices

-----------------------------------------------------------------------------
(***************************************************************************)
(* Properties.                                                             *)
(***************************************************************************)

DiskFiles == [Disks -> Seq(Contents)]
Memory    == [Addresses -> Contents]

PyMachine ==
  [up: BOOLEAN, handle: Disks \cup Missing \cup {NoDisk}, ptr: Int, pos: Nat,
   files: DiskFiles, mem: Memory]

CMachine ==
  [up: BOOLEAN, disk: Disks \cup {NoDisk}, ptr: Nat,
   files: DiskFiles, mem: Memory]

DevicesTyped ==
  /\ py \in PyMachine /\ c \in CMachine
  /\ py.handle \in Disks => py.ptr \in Nat
  /\ careful \in BOOLEAN /\ sure \subseteq Transfers

\* What "sure" means: the pointers, or the position and the pointer, are one.
SureIsAligned ==
  Running /\ py.handle # NoDisk =>
    /\ "at" \in sure => py.ptr = c.ptr
    /\ "next" \in sure => py.pos = c.ptr

\* A careful program finds the same data in its buffers and leaves the same data
\* on its disks whichever backend executes it, though neither the pointers nor
\* the positions agree at all times.
SameData ==
  Running => py.files = c.files /\ py.mem = c.mem /\ py.handle = c.disk

\* The reads that the backends take differently: at the last address where a
\* sector still fits, past the end of the disk, and a direct one without a disk.
OneRefuses(a) ==
  \/ /\ DISKREAD(a) \/ DISKREADI(a)
     /\ c.disk # NoDisk
     /\ a = MAXMEMSP - (BLOCK_SIZE - 1) \/ AtEnd(c.files[c.disk], c.ptr)
  \/ DISKREAD(a) /\ c.disk = NoDisk

\* A careful program is refused by one backend alone in no other case.
SameFaults ==
  [][careful' /\ py'.up # c'.up => \E a \in Addresses : OneRefuses(a)]_devices

\* docs/lesson06.md: @DISKSEL selects a disk unit by its number.
SelectsDisk == py.up /\ c.up => py.handle = c.disk
=============================================================================
