----------------------------- MODULE DiskProofs -----------------------------
(***************************************************************************)
(* Proofs about those who use disks: the processes of the disk tool, and   *)
(* the two backends.                                                       *)
(*                                                                         *)
(* DiskTool.  For any number of processes and images of any size: the      *)
(* .disk file changes by whole commands, and the .bak file holds what was  *)
(* replaced; nothing of what a command does to an image is used for these  *)
(* two.  And the file, like every image in a process, is one that          *)
(* DiskImageProofs has shown to be clean.                                  *)
(*                                                                         *)
(* BlockDevice, for every set of disks, buffers and contents.  SameData is *)
(* not inductive: whether the next transfer goes to the same sector        *)
(* depends on the pointers.  SureIsAligned says which of them agree when,  *)
(* and the two together with the types are inductive.                      *)
(***************************************************************************)
EXTENDS DiskTool, BlockDevice, SequenceTheorems, TLAPS

States == {"idle", "run", "backup", "copy", "write", "rename"}

TypeOK ==
  /\ pc \in [Procs -> States]
  /\ DOMAIN img = Procs /\ DOMAIN source = Procs
  /\ alone \subseteq Procs

\* A command that nothing interrupts works on what is in the file, and what it has
\* made a backup of is still there.
Lone(p) ==
  /\ pc[p] # "idle" /\ \A q \in Procs \ {p} : pc[q] = "idle"
  /\ pc[p] = "run" => img[p] = file
  /\ pc[p] \in {"backup", "copy", "write", "rename"} =>
       img[p] = D!create \/ img[p] \in D!saves(file)
  /\ pc[p] = "copy" => source[p] = file
  /\ p \in backed => bak = file

TInv ==
  /\ TypeOK
  /\ \A p \in Procs : p \in backed => pc[p] \in {"write", "rename"}
  /\ \A p \in alone : Lone(p)

LEMMA InitTInv == Init => TInv
BY DEF Init, TInv, TypeOK, States

LEMMA StepTyped ==
  ASSUME TypeOK, NEW p \in Procs, Step(p), Notes(p)
  PROVE  TypeOK'
BY DEF TypeOK, Step, Notes, open_image, run, stop, format, begin_backup, end_backup, write_temp,
  replace, kill, Goto, End, States

\* Only the process that takes a step moves.
LEMMA OthersStay ==
  ASSUME TypeOK, NEW p \in Procs, Step(p), NEW q \in Procs \ {p}
  PROVE  pc'[q] = pc[q]
BY DEF TypeOK, Step, open_image, run, stop, format, begin_backup, end_backup, write_temp,
  replace, kill, Goto, End

LEMMA StepBacked ==
  ASSUME TInv, NEW p \in Procs, Step(p), Notes(p), NEW q \in Procs, q \in backed'
  PROVE  pc'[q] \in {"write", "rename"}
<1>1. CASE q # p
  BY <1>1, OthersStay DEF TInv, Notes
<1>2. CASE q = p
  BY <1>2 DEF TInv, TypeOK, Step, Notes, open_image, run, stop, format, begin_backup, end_backup,
    write_temp, replace, kill, Goto, End
<1> QED
  BY <1>1, <1>2

\* One that is alone after its step was so before it, or has just begun.
LEMMA StepLone ==
  ASSUME TInv, NEW p \in Procs, Step(p), Notes(p), NEW q \in alone'
  PROVE  Lone(q)'
<1>1. q = p /\ pc'[p] # "idle" /\ (p \in alone \/ \A r \in Procs : pc[r] = "idle")
  BY DEF Notes
<1>2. \A r \in Procs \ {p} : pc[r] = "idle"
  BY <1>1 DEF TInv, Lone
<1>3. \A r \in Procs \ {p} : pc'[r] = "idle"
  BY <1>2, OthersStay DEF TInv
<1>4. ASSUME pc[p] = "idle" PROVE Lone(p)'
  BY <1>1, <1>3, <1>4 DEF TInv, TypeOK, Lone, Step, Notes, open_image, run, stop, format,
    begin_backup, end_backup, write_temp, replace, kill, Goto, End
<1>5. ASSUME pc[p] # "idle" PROVE Lone(p)'
  <2>1. Lone(p)
    BY <1>1, <1>5 DEF TInv
  <2>2. CASE run(p)
    BY <1>3, <2>1, <2>2 DEF TInv, TypeOK, Lone, Notes, run, Goto
  <2>3. CASE begin_backup(p)
    BY <1>3, <2>1, <2>3 DEF TInv, TypeOK, Lone, Notes, begin_backup, Goto
  <2>4. CASE end_backup(p)
    BY <1>2, <1>3, <2>1, <2>4 DEF TInv, TypeOK, Lone, Notes, end_backup, Goto
  <2>5. CASE write_temp(p)
    BY <1>3, <2>1, <2>5 DEF TInv, TypeOK, Lone, Notes, write_temp, Goto
  <2> QED
    BY <1>1, <1>5, <2>2, <2>3, <2>4, <2>5 DEF TInv, TypeOK, Step, open_image, stop, format, replace,
      kill, Goto, End
<1> QED
  BY <1>1, <1>4, <1>5

LEMMA NextTInv == TInv /\ [Next]_vars => TInv'
<1> SUFFICES ASSUME TInv, [Next]_vars PROVE TInv'
  OBVIOUS
<1>1. ASSUME NEW p \in Procs, Step(p), Notes(p) PROVE TInv'
  BY <1>1, StepTyped, StepBacked, StepLone DEF TInv
<1>2. CASE UNCHANGED vars
  BY <1>2 DEF vars, TInv, TypeOK, Lone
<1> QED
  BY <1>1, <1>2 DEF Next

LEMMA ToolInvariant == Spec => []TInv
BY InitTInv, NextTInv, PTL DEF Spec

\* What a command may save, and an image that is formatted, is a step of DiskImage.
LEMMA SavesStep ==
  ASSUME file' = D!create \/ file' \in D!saves(file)
  PROVE  D!Next
<1>1. CASE file' = D!create
  BY <1>1 DEF D!Next, D!Format
<1>2. ASSUME NEW n \in Names, NEW q \in Payloads, NEW over \in BOOLEAN,
             file' \in D!cmd_import(file, n, q, over)
      PROVE  D!Next
  BY <1>2 DEF D!Next, D!Import
<1>3. ASSUME NEW old \in Names, NEW n \in Names, file' \in D!cmd_rename(file, old, n)
      PROVE  D!Next
  BY <1>3 DEF D!Next, D!Rename
<1>4. ASSUME NEW n \in Names, file' \in D!cmd_delete(file, n) \cup D!cmd_undelete(file, n)
      PROVE  D!Next
  BY <1>4 DEF D!Next, D!Delete, D!Undelete
<1> QED
  BY <1>1, <1>2, <1>3, <1>4 DEF D!saves

LEMMA StepAtomic ==
  ASSUME TInv, [Next]_vars, file' # file
  PROVE  \E p \in Procs : replace(p) /\ (p \in alone => D!Next)
<1>1. PICK p \in Procs : replace(p)
  BY DEF Next, Step, open_image, run, stop, format, begin_backup, end_backup, write_temp, kill,
    vars
<1>2. ASSUME p \in alone PROVE D!Next
  BY <1>1, <1>2, SavesStep DEF replace, TInv, Lone
<1> QED
  BY <1>1, <1>2

\* Atomic: the file changes only when a process replaces it, by a whole command if it
\* has not been interrupted.
THEOREM CommandsAtomic == Spec => Atomic
<1>1. TInv /\ [Next]_vars
        => [file' # file => \E p \in Procs : replace(p) /\ (p \in alone => D!Next)]_vars
  BY StepAtomic
<1> QED
  BY <1>1, ToolInvariant, PTL DEF Spec, Atomic

\* BackupIsPrevious: a command that is not interrupted, and has made a backup, replaces
\* the image that is in the backup.
THEOREM BackupKept == Spec => BackupIsPrevious
<1>1. TInv /\ [Next]_vars
        => [\A p \in Procs : replace(p) /\ p \in alone \cap backed => bak = file]_vars
  BY DEF TInv, Lone
<1> QED
  BY <1>1, ToolInvariant, PTL DEF Spec, BackupIsPrevious

-----------------------------------------------------------------------------
(***************************************************************************)
(* What is shown of the commands holds of the images here.                 *)
(***************************************************************************)
I == INSTANCE DiskImageProofs WITH disk <- file

LEMMA SameSaves ==
  ASSUME NEW i
  PROVE  D!saves(i) = I!saves(i)
BY DEF
  D!saves, D!cmd_import, D!cmd_rename, D!cmd_delete, D!cmd_undelete, D!store,
  D!delete_entry, D!undelete, D!has_room, D!may_rename, D!may_undelete, D!finds,
  D!matches, D!free_file_nums, D!free_blocks, D!allocated_blocks, D!chain, D!in_use,
  D!deleted, D!extent_count, D!Rank, D!Nth, D!AtMost, D!Slots, D!Blocks,
  D!Cardinality, I!saves, I!cmd_import, I!cmd_rename, I!cmd_delete, I!cmd_undelete,
  I!store, I!delete_entry, I!undelete, I!has_room, I!may_rename, I!may_undelete,
  I!finds, I!matches, I!free_file_nums, I!free_blocks, I!allocated_blocks, I!chain,
  I!in_use, I!deleted, I!extent_count, I!Rank, I!Nth, I!AtMost, I!Slots, I!Blocks,
  I!Cardinality

LEMMA SameCreate == D!create = I!create
BY DEF D!create, D!Slots, D!Blocks, I!create, I!Slots, I!Blocks

LEMMA SameCheck == D!CheckClean <=> I!check(file)
BY DEF
  D!CheckClean, D!check, D!visible, D!in_use, D!chain, D!Slots, D!Blocks,
  D!Cardinality, I!check, I!visible, I!in_use, I!chain, I!Slots, I!Blocks,
  I!Cardinality

LEMMA SameUniqueNames == D!UniqueNames <=> I!UniqueNames
BY DEF
  D!UniqueNames, D!visible, D!in_use, D!Slots, I!UniqueNames, I!visible, I!in_use,
  I!Slots

LEMMA SameReadsBack == D!ReadsBack <=> I!ReadsBack
BY DEF
  D!ReadsBack, D!exports, D!extent, D!extent_count, D!visible, D!in_use, D!Slots,
  I!ReadsBack, I!exports, I!extent, I!extent_count, I!visible, I!in_use, I!Slots

\* The file, and what every process has in memory, is an image that commands have made.
Sound ==
  /\ I!CInv(file)
  /\ \A p \in Procs : pc[p] # "idle" => I!CInv(img[p])

LEMMA CreateSound == I!CInv(D!create)
BY ToolAssumption, SameCreate, I!CreateCInv

LEMMA SavesSound ==
  ASSUME NEW i, I!CInv(i), NEW new \in D!saves(i)
  PROVE  I!CInv(new)
BY ToolAssumption, SameSaves, I!SavesCInv

LEMMA InitSound == Init => Sound
BY CreateSound DEF Init, Sound

LEMMA StepSound ==
  ASSUME TInv, Sound, NEW p \in Procs, Step(p)
  PROVE  Sound'
<1>1. ASSUME NEW q \in Procs \ {p} PROVE pc'[q] = pc[q] /\ img'[q] = img[q]
  BY OthersStay DEF TInv, TypeOK, Step, open_image, run, stop, format, begin_backup, end_backup,
    write_temp, replace, kill, Goto, End
<1>2. I!CInv(file')
  <2>1. CASE replace(p)
    BY <2>1 DEF Sound, replace
  <2>2. CASE ~ replace(p)
    BY <2>2 DEF Sound, Step, open_image, run, stop, format, begin_backup, end_backup, write_temp,
      kill
  <2> QED
    BY <2>1, <2>2
<1>3. ASSUME pc'[p] # "idle" PROVE I!CInv(img'[p])
  <2>1. CASE open_image(p)
    BY <2>1 DEF TInv, TypeOK, Sound, open_image
  <2>2. CASE run(p)
    <3>1. pc[p] = "run" /\ \E new \in D!saves(img[p]) : img'[p] = new
      BY <2>2 DEF TInv, TypeOK, run, Goto
    <3> QED
      BY <3>1, SavesSound DEF Sound
  <2>3. CASE format(p)
    BY <2>3, CreateSound DEF TInv, TypeOK, format
  <2>4. CASE begin_backup(p) \/ end_backup(p) \/ write_temp(p)
    BY <2>4 DEF Sound, begin_backup, end_backup, write_temp, Goto
  <2>5. CASE stop(p) \/ replace(p) \/ kill(p)
    BY <1>3, <2>5 DEF TInv, TypeOK, stop, replace, kill, End
  <2> QED
    BY <2>1, <2>2, <2>3, <2>4, <2>5 DEF Step
<1>4. \A q \in Procs : pc'[q] # "idle" => I!CInv(img'[q])
  BY <1>1, <1>3 DEF Sound
<1> QED
  BY <1>2, <1>4 DEF Sound

LEMMA ToolSound == Spec => []Sound
<1>1. TInv /\ Sound /\ [Next]_vars => Sound'
  <2> SUFFICES ASSUME TInv, Sound, [Next]_vars PROVE Sound'
    OBVIOUS
  <2>1. CASE Next
    BY <2>1, StepSound DEF Next
  <2>2. CASE UNCHANGED vars
    BY <2>2 DEF vars, Sound
  <2> QED
    BY <2>1, <2>2
<1> QED
  BY <1>1, InitSound, ToolInvariant, PTL DEF Spec

\* AlwaysClean: whatever is killed when, and whoever overwrites whose work, the file is
\* an image without a complaint of check, its names are unique and its files read back.
THEOREM FileClean == Spec => []AlwaysClean
<1>1. Sound => AlwaysClean
  <2> SUFFICES ASSUME Sound PROVE AlwaysClean
    OBVIOUS
  <2>1. I!CInv(file)
    BY DEF Sound
  <2>2. D!CheckClean
    BY <2>1, ToolAssumption, SameCheck, I!CleanWhenCInv
  <2>3. D!UniqueNames
    BY <2>1, SameUniqueNames DEF I!CInv, I!DInv, I!Unique, I!UniqueNames
  <2>4. D!ReadsBack
    BY <2>1, ToolAssumption, SameReadsBack, I!ExportsWhenCInv DEF I!ReadsBack
  <2> QED
    BY <2>2, <2>3, <2>4 DEF AlwaysClean
<1> QED
  BY <1>1, ToolSound, PTL

-----------------------------------------------------------------------------
(***************************************************************************)
(* The disks of the two backends.                                          *)
(***************************************************************************)
USE BlockDeviceAssumption DEF BlockDeviceAssumption

DInv == DevicesTyped /\ SameData /\ SureIsAligned

\* The file after a write is a file.
LEMMA WrittenType ==
  ASSUME NEW old \in Seq(Contents), NEW sector \in Nat, NEW content \in Contents
  PROVE  Written(old, sector, content) \in Seq(Contents)
<1> DEFINE n == IF sector < Len(old) THEN Len(old) ELSE sector + 1
<1>1. Len(old) \in Nat /\ old \in [1 .. Len(old) -> Contents]
  OBVIOUS
<1>2. n \in Nat
  BY <1>1
<1>3. Written(old, sector, content) \in [1 .. n -> Contents]
  BY <1>1 DEF Written
<1>4. QED
  BY <1>2, <1>3, SeqDef

\* A file at the start is a file.
LEMMA FilesType == Files \subseteq [Disks -> Seq(Contents)]
<1> SUFFICES ASSUME NEW f \in Files, NEW d \in Disks PROVE f[d] \in Seq(Contents)
  BY DEF Files
<1>1. PICK n \in 0 .. MaxLength : f[d] \in [1 .. n -> Contents]
  BY DEF Files
<1>2. QED
  BY <1>1, SeqDef

LEMMA InitDInv == DeviceInit => DInv
<1> SUFFICES ASSUME DeviceInit PROVE DInv
  OBVIOUS
<1>1. PICK files \in Files, mem \in [Addresses -> Contents] :
        /\ py = [up |-> TRUE, handle |-> NoDisk, ptr |-> -1, pos |-> 0,
                 files |-> files, mem |-> mem]
        /\ c = [up |-> TRUE, disk |-> NoDisk, ptr |-> 0,
                files |-> files, mem |-> mem]
        /\ careful = TRUE /\ sure = {}
  BY DEF DeviceInit
<1>2. files \in [Disks -> Seq(Contents)]
  BY FilesType
<1>3. DevicesTyped
  BY <1>1, <1>2 DEF DevicesTyped, PyMachine, CMachine, DiskFiles, Memory
<1>4. SameData /\ SureIsAligned
  BY <1>1 DEF SameData, SureIsAligned
<1>5. QED
  BY <1>3, <1>4 DEF DInv

-----------------------------------------------------------------------------
(***************************************************************************)
(* The machines after an operation.                                        *)
(***************************************************************************)

LEMMA PySelectType ==
  ASSUME DevicesTyped, NEW d \in Disks \cup Missing
  PROVE  /\ PySelect(d) \in PyMachine
         /\ PySelect(d).handle \in Disks => PySelect(d).ptr \in Nat
<1> DEFINE handle == IF py.handle = NoDisk THEN d ELSE py.handle
<1>1. py \in PyMachine
  BY DEF DevicesTyped
<1>2. handle \in Disks \cup Missing
  BY <1>1 DEF PyMachine
<1>3. PySelect(d) = IF handle \in Missing
                    THEN [[py EXCEPT !.up = FALSE] EXCEPT !.handle = handle]
                    ELSE [py EXCEPT !.handle = handle, !.ptr = 0, !.pos = 0]
  BY DEF PySelect, raiseerror
<1> HIDE DEF handle
<1>4. CASE handle \in Missing
  BY <1>1, <1>3, <1>4 DEF PyMachine
<1>5. CASE handle \in Disks
  <2>1. PySelect(d) = [py EXCEPT !.handle = handle, !.ptr = 0, !.pos = 0]
    BY <1>3, <1>5
  <2>2. PySelect(d).ptr = 0
    BY <1>1, <2>1 DEF PyMachine
  <2>3. 0 \in Int /\ 0 \in Nat
    OBVIOUS
  <2>4. PySelect(d) \in PyMachine
    BY <1>1, <1>5, <2>1, <2>3, Zenon DEF PyMachine
  <2>5. QED
    BY <2>2, <2>4
<1>6. QED
  BY <1>2, <1>4, <1>5

LEMMA SelectDInv ==
  ASSUME DInv, NEW d \in Disks \cup Missing, DISKSEL(d) PROVE DInv'
<1>1. /\ DevicesTyped /\ py \in PyMachine /\ c \in CMachine
      /\ py.files = c.files /\ py.mem = c.mem /\ py.handle = c.disk
  BY DEF DInv, DevicesTyped, SameData, DISKSEL
<1>2. py' = PySelect(d) /\ c' = CSelect(d) /\ sure' = Transfers
      /\ careful' = (py.handle \in {NoDisk, d})
  BY DEF DISKSEL
<1>3. py' \in PyMachine /\ (py'.handle \in Disks => py'.ptr \in Nat)
  BY <1>1, <1>2, PySelectType
<1>4. careful' \in BOOLEAN
  BY <1>2
<1>5. CASE d \in Missing
  <2>1. c' = [[c EXCEPT !.up = FALSE] EXCEPT !.disk = NoDisk]
    BY <1>2, <1>5 DEF CSelect, CFail
  <2>2. c' \in CMachine /\ ~ c'.up
    BY <1>1, <2>1 DEF CMachine
  <2>3. QED
    BY <1>2, <1>3, <1>4, <2>2 DEF DInv, DevicesTyped, SameData, SureIsAligned, Running
<1>6. CASE d \in Disks
  <2>1. c' = [c EXCEPT !.disk = d, !.ptr = 0]
    BY <1>2, <1>6 DEF CSelect
  <2>2. c' \in CMachine /\ c'.disk = d /\ c'.ptr = 0
        /\ c'.files = c.files /\ c'.mem = c.mem
    BY <1>1, <1>6, <2>1 DEF CMachine
  <2>3. ASSUME careful'
        PROVE  /\ py'.handle = d /\ py'.ptr = 0 /\ py'.pos = 0
               /\ py'.files = py.files /\ py'.mem = py.mem
    <3>1. py.handle \in {NoDisk, d} /\ d \notin Missing
      BY <1>2, <1>6, <2>3
    <3>2. py' = [py EXCEPT !.handle = d, !.ptr = 0, !.pos = 0]
      BY <1>2, <3>1 DEF PySelect
    <3>3. QED
      BY <1>1, <3>2 DEF PyMachine
  <2>4. QED
    BY <1>1, <1>2, <1>3, <1>4, <2>2, <2>3
       DEF DInv, DevicesTyped, SameData, SureIsAligned, Running
<1>7. QED
  BY <1>5, <1>6

LEMMA SeekDInv ==
  ASSUME DInv, NEW s \in Sectors, DISKSEEK(s) PROVE DInv'
<1>1. /\ py \in PyMachine /\ c \in CMachine
      /\ py.files = c.files /\ py.mem = c.mem /\ py.handle = c.disk
      /\ sure' = Transfers /\ careful' \in BOOLEAN
  BY DEF DInv, DevicesTyped, SameData, DISKSEEK
<1>2. py' = PySeek(s) /\ c' = CSeek(s) /\ s \in Nat
  BY DEF DISKSEEK, Sectors
<1>3. CASE py.handle = NoDisk
  <2>1. py' = [py EXCEPT !.up = FALSE] /\ c' = [c EXCEPT !.up = FALSE]
    BY <1>1, <1>2, <1>3 DEF PySeek, CSeek, raiseerror, CFail
  <2>2. /\ py' \in PyMachine /\ c' \in CMachine /\ ~ c'.up
        /\ py'.handle = NoDisk
    BY <1>1, <1>3, <2>1 DEF PyMachine, CMachine
  <2>3. QED
    BY <1>1, <2>2 DEF DInv, DevicesTyped, SameData, SureIsAligned, Running
<1>4. CASE py.handle # NoDisk
  <2>1. py' = [py EXCEPT !.ptr = s, !.pos = s] /\ c' = [c EXCEPT !.ptr = s]
    BY <1>1, <1>2, <1>4 DEF PySeek, CSeek
  <2>2. py' \in PyMachine /\ c' \in CMachine
    <3>1. s \in Int
      BY <1>2
    <3>2. py' \in PyMachine
      BY <1>1, <1>2, <2>1, <3>1, Zenon DEF PyMachine
    <3>3. c' \in CMachine
      BY <1>1, <1>2, <2>1, Zenon DEF CMachine
    <3>4. QED
      BY <3>2, <3>3
  <2>3. /\ py'.ptr = s /\ py'.pos = s /\ c'.ptr = s
        /\ py'.files = py.files /\ py'.mem = py.mem /\ py'.handle = py.handle
        /\ c'.files = c.files /\ c'.mem = c.mem /\ c'.disk = c.disk
    BY <1>1, <1>2, <2>1 DEF PyMachine, CMachine
  <2>4. QED
    BY <1>1, <1>2, <2>3, <2>2 DEF DInv, DevicesTyped, SameData, SureIsAligned, Running
<1>5. QED
  BY <1>3, <1>4

\* The write goes to one sector, when the program may write without a seek.
LEMMA WriteDInv ==
  ASSUME DInv, NEW a \in Addresses, DISKWRITE(a) PROVE DInv'
<1>1. /\ py \in PyMachine /\ c \in CMachine /\ Running
      /\ py.files = c.files /\ py.mem = c.mem /\ py.handle = c.disk
      /\ sure' = Transfers
      /\ py.handle # NoDisk => py.handle \in Disks /\ py.ptr \in Nat
  BY DEF DInv, DevicesTyped, SameData, DISKWRITE, CMachine
<1>2. /\ py' = PyWrite(a) /\ c' = CWrite(a)
      /\ careful' = (py.handle # NoDisk => "at" \in sure)
  BY DEF DISKWRITE
<1>3. a \in Nat /\ (a >= MAXMEMSP - (BLOCK_SIZE - 1) <=> a > MAXMEMSP - BLOCK_SIZE)
  OBVIOUS
<1>4. CASE py.handle = NoDisk \/ a > MAXMEMSP - BLOCK_SIZE
  <2>1. py' = [py EXCEPT !.up = FALSE] /\ c' = [c EXCEPT !.up = FALSE]
    BY <1>1, <1>2, <1>3, <1>4 DEF PyWrite, CWrite, raiseerror, CFail
  <2>2. /\ py' \in PyMachine /\ c' \in CMachine /\ ~ c'.up
        /\ py'.handle = py.handle /\ py'.ptr = py.ptr
    BY <1>1, <2>1 DEF PyMachine, CMachine
  <2>3. py'.handle \in Disks => py'.ptr \in Nat
    BY <1>1, <2>2
  <2>4. careful' \in BOOLEAN
    BY <1>2
  <2>5. QED
    BY <1>1, <2>2, <2>3, <2>4 DEF DInv, DevicesTyped, SameData, SureIsAligned, Running
<1>5. CASE py.handle # NoDisk /\ ~ (a > MAXMEMSP - BLOCK_SIZE)
  <2> DEFINE h == py.handle
             pyFile == Written(py.files[h], py.ptr, py.mem[a])
             cFile == Written(c.files[h], c.ptr, c.mem[a])
  <2>1. h \in Disks /\ c.disk = h /\ c.ptr \in Nat /\ py.ptr \in Nat
    BY <1>1, <1>5 DEF CMachine
  <2>2. /\ py' = [py EXCEPT !.files = [py.files EXCEPT ![h] = pyFile],
                            !.ptr = py.ptr + 1, !.pos = py.ptr + 1]
        /\ c' = [c EXCEPT !.files = [c.files EXCEPT ![h] = cFile],
                          !.ptr = c.ptr + 1]
    BY <1>1, <1>2, <1>3, <1>5, <2>1 DEF PyWrite, CWrite, PyMachine, CMachine
  <2>3. pyFile \in Seq(Contents) /\ cFile \in Seq(Contents)
    <3>1. /\ py.files[h] \in Seq(Contents) /\ c.files[h] \in Seq(Contents)
          /\ py.mem[a] \in Contents /\ c.mem[a] \in Contents
      BY <1>1, <2>1 DEF PyMachine, CMachine, DiskFiles, Memory
    <3>2. QED
      BY <2>1, <3>1, WrittenType
  <2> HIDE DEF pyFile, cFile
  <2>4. /\ [py.files EXCEPT ![h] = pyFile] \in DiskFiles
        /\ [c.files EXCEPT ![h] = cFile] \in DiskFiles
    BY <1>1, <2>1, <2>3 DEF PyMachine, CMachine, DiskFiles
  <2>5. py' \in PyMachine /\ c' \in CMachine
    <3>1. py.ptr + 1 \in Int /\ py.ptr + 1 \in Nat /\ c.ptr + 1 \in Nat
      BY <2>1
    <3>2. py' \in PyMachine
      BY <1>1, <2>2, <2>4, <3>1, Zenon DEF PyMachine
    <3>3. c' \in CMachine
      BY <1>1, <2>2, <2>4, <3>1, Zenon DEF CMachine
    <3>4. QED
      BY <3>2, <3>3
  <2>6. /\ py'.handle = h /\ py'.ptr = py.ptr + 1 /\ py'.pos = py.ptr + 1
        /\ c'.disk = h /\ c'.ptr = c.ptr + 1
        /\ py'.mem = py.mem /\ c'.mem = c.mem
        /\ py'.files = [py.files EXCEPT ![h] = pyFile]
        /\ c'.files = [c.files EXCEPT ![h] = cFile]
    BY <1>1, <2>1, <2>2 DEF PyMachine, CMachine
  <2>7. careful' \in BOOLEAN /\ (careful' => py.ptr = c.ptr)
    BY <1>1, <1>2, <1>5 DEF DInv, SureIsAligned
  <2>8. careful' => pyFile = cFile
    BY <1>1, <2>7 DEF pyFile, cFile
  <2>9. QED
    BY <1>1, <2>1, <2>6, <2>7, <2>8, <2>5
       DEF DInv, DevicesTyped, SameData, SureIsAligned, Running
<1>6. QED
  BY <1>4, <1>5

\* Reads, at one sector in both machines: the position of Python's file comes to
\* where the pointer of C comes, unless C has failed.
LEMMA ReadDInv ==
  ASSUME DInv, NEW a \in Addresses, NEW position \in Int,
         Running, c' = CRead(a), sure' = {"next"}, careful' \in BOOLEAN,
         py.handle # NoDisk => position \in Nat,
         py.handle # NoDisk /\ careful' => position = c.ptr,
         \/ py' = raiseerror
         \/ py.handle = NoDisk /\ py' = py
         \/ py.handle # NoDisk /\ py' = PyReadFrom(a, position)
  PROVE  DInv'
<1>1. /\ py \in PyMachine /\ c \in CMachine
      /\ py.files = c.files /\ py.mem = c.mem /\ py.handle = c.disk
      /\ py.handle # NoDisk => py.handle \in Disks /\ py.ptr \in Nat
  BY DEF DInv, DevicesTyped, SameData, CMachine
<1>2. c' \in CMachine
  <2>1. CASE c.disk = NoDisk \/ a > MAXMEMSP - BLOCK_SIZE
                             \/ AtEnd(c.files[c.disk], c.ptr)
    BY <1>1, <2>1 DEF CRead, CFail, CMachine
  <2>2. CASE /\ c.disk # NoDisk /\ ~ (a > MAXMEMSP - BLOCK_SIZE)
             /\ ~ AtEnd(c.files[c.disk], c.ptr)
    <3>1. c' = [c EXCEPT !.mem = [c.mem EXCEPT ![a] = c.files[c.disk][c.ptr + 1]],
                         !.ptr = c.ptr + 1]
      BY <1>1, <2>2 DEF CRead, CMachine
    <3>2. c.files[c.disk] \in Seq(Contents) /\ c.ptr \in Nat
      BY <1>1, <2>2 DEF CMachine, DiskFiles
    <3>3. c.files[c.disk][c.ptr + 1] \in Contents
      BY <2>2, <3>2 DEF AtEnd
    <3>4. [c.mem EXCEPT ![a] = c.files[c.disk][c.ptr + 1]] \in Memory
      BY <1>1, <3>3 DEF CMachine, Memory
    <3>5. c.ptr + 1 \in Nat
      BY <3>2
    <3>6. QED
      BY <1>1, <3>1, <3>4, <3>5, Zenon DEF CMachine
  <2>3. QED
    BY <2>1, <2>2
<1>3. CASE py' = raiseerror
  <2>1. /\ py' \in PyMachine /\ ~ py'.up
        /\ py'.handle = py.handle /\ py'.ptr = py.ptr
    BY <1>1, <1>3 DEF raiseerror, PyMachine
  <2>2. py'.handle \in Disks => py'.ptr \in Nat
    BY <1>1, <2>1
  <2>3. QED
    BY <1>2, <2>1, <2>2 DEF DInv, DevicesTyped, SameData, SureIsAligned, Running, Transfers
<1>4. CASE py.handle = NoDisk /\ py' = py
  <2>1. c' = c
    BY <1>1, <1>4 DEF CRead
  <2>2. QED
    BY <1>1, <1>4, <2>1
       DEF DInv, DevicesTyped, SameData, SureIsAligned, Running, Transfers
<1>5. CASE /\ py.handle # NoDisk /\ py' = PyReadFrom(a, position)
           /\ AtEnd(py.files[py.handle], position)
  <2>1. py' = [py EXCEPT !.pos = position]
    BY <1>5 DEF PyReadFrom
  <2>2. py' \in PyMachine /\ (py'.handle \in Disks => py'.ptr \in Nat)
    BY <1>1, <1>5, <2>1 DEF PyMachine
  <2>3. careful' => ~ c'.up
    BY <1>1, <1>5 DEF CRead, CFail, CMachine
  <2>4. QED
    BY <1>2, <2>2, <2>3 DEF DInv, DevicesTyped, SameData, SureIsAligned, Running, Transfers
<1>6. CASE /\ py.handle # NoDisk /\ py' = PyReadFrom(a, position)
           /\ ~ AtEnd(py.files[py.handle], position)
  <2> DEFINE h == py.handle
             content == py.files[h][position + 1]
  <2>1. py' = [py EXCEPT !.mem = [py.mem EXCEPT ![a] = content],
                         !.pos = position + 1]
    BY <1>1, <1>6 DEF PyReadFrom, PyMachine
  <2>2. content \in Contents
    <3>1. py.files[h] \in Seq(Contents)
      BY <1>1, <1>6 DEF PyMachine, DiskFiles
    <3>2. QED
      BY <1>6, <3>1 DEF AtEnd
  <2> HIDE DEF content
  <2>3. [py.mem EXCEPT ![a] = content] \in Memory
    BY <1>1, <2>2 DEF PyMachine, Memory
  <2>4. py' \in PyMachine
    <3>1. position + 1 \in Nat
      BY <1>6
    <3>2. QED
      BY <1>1, <2>1, <2>3, <3>1, Zenon DEF PyMachine
  <2>5. /\ py'.handle = h /\ py'.ptr = py.ptr /\ py'.pos = position + 1
        /\ py'.files = py.files /\ py'.mem = [py.mem EXCEPT ![a] = content]
    BY <1>1, <2>1 DEF PyMachine
  <2>6. ASSUME careful', c'.up
        PROVE  /\ c'.ptr = position + 1 /\ c'.disk = h /\ c'.files = c.files
               /\ c'.mem = [c.mem EXCEPT ![a] = content]
    <3>1. position = c.ptr /\ c.disk = h
      BY <1>1, <1>6, <2>6
    <3>2. ~ (a > MAXMEMSP - BLOCK_SIZE \/ AtEnd(c.files[h], c.ptr))
      BY <1>1, <1>6, <2>6, <3>1 DEF CRead, CFail, CMachine
    <3>3. c' = [c EXCEPT !.mem = [c.mem EXCEPT ![a] = content], !.ptr = c.ptr + 1]
      BY <1>1, <1>6, <3>1, <3>2 DEF CRead, CMachine, content
    <3>4. QED
      BY <1>1, <3>1, <3>3 DEF CMachine
  <2>7. QED
    BY <1>1, <1>2, <1>6, <2>5, <2>6, <2>4
       DEF DInv, DevicesTyped, SameData, SureIsAligned, Running, Transfers
<1>7. QED
  BY <1>3, <1>4, <1>5, <1>6

\* DISKREAD goes on from the position of the file, DISKREADI to the pointer.
LEMMA ReadsDInv ==
  ASSUME DInv, NEW a \in Addresses, DISKREAD(a) \/ DISKREADI(a) PROVE DInv'
<1>1. /\ py.pos \in Nat /\ py.ptr \in Int /\ Running
      /\ py.handle # NoDisk => py.handle \in Disks /\ py.ptr \in Nat
  BY DEF DInv, DevicesTyped, SameData, PyMachine, CMachine, DISKREAD, DISKREADI
<1>2. CASE DISKREAD(a)
  <2>1. /\ c' = CRead(a) /\ sure' = {"next"}
        /\ careful' = (py.handle # NoDisk => "next" \in sure)
        /\ py' = PyRead(a)
    BY <1>2 DEF DISKREAD
  <2>2. py.handle # NoDisk /\ careful' => py.pos = c.ptr
    BY <1>1, <2>1 DEF DInv, SureIsAligned
  <2>3. \/ py' = raiseerror
        \/ py.handle # NoDisk /\ py' = PyReadFrom(a, py.pos)
    BY <2>1 DEF PyRead
  <2>4. careful' \in BOOLEAN
    BY <2>1
  <2>5. QED
    BY <1>1, <2>1, <2>2, <2>3, <2>4, ReadDInv
<1>3. CASE DISKREADI(a)
  <2>1. /\ c' = CRead(a) /\ sure' = {"next"}
        /\ careful' = (py.handle # NoDisk => "at" \in sure)
        /\ py' = PyReadI(a)
    BY <1>3 DEF DISKREADI
  <2>2. py.handle # NoDisk /\ careful' => py.ptr = c.ptr
    BY <1>1, <2>1 DEF DInv, SureIsAligned
  <2>3. \/ py' = raiseerror
        \/ py.handle = NoDisk /\ py' = py
        \/ py.handle # NoDisk /\ py' = PyReadFrom(a, py.ptr)
    BY <2>1 DEF PyReadI
  <2>4. careful' \in BOOLEAN
    BY <2>1
  <2>5. QED
    BY <1>1, <2>1, <2>2, <2>3, <2>4, ReadDInv
<1>4. QED
  BY <1>2, <1>3

LEMMA FillDInv ==
  ASSUME DInv, NEW a \in Addresses, NEW content \in Contents, Fill(a, content)
  PROVE  DInv'
<1>1. /\ py \in PyMachine /\ c \in CMachine
      /\ py.files = c.files /\ py.mem = c.mem /\ py.handle = c.disk
      /\ py' = [py EXCEPT !.mem = [py.mem EXCEPT ![a] = content]]
      /\ c' = [c EXCEPT !.mem = [c.mem EXCEPT ![a] = content]]
      /\ careful' = careful /\ sure' = sure
  BY DEF DInv, DevicesTyped, SameData, Fill, PyMachine, CMachine
<1>2. /\ [py.mem EXCEPT ![a] = content] \in Memory
      /\ [c.mem EXCEPT ![a] = content] \in Memory
  BY <1>1 DEF PyMachine, CMachine, Memory
<1>3. /\ py' \in PyMachine /\ c' \in CMachine
      /\ py'.files = py.files /\ py'.handle = py.handle /\ py'.ptr = py.ptr
      /\ py'.pos = py.pos /\ py'.up = py.up
      /\ c'.files = c.files /\ c'.disk = c.disk /\ c'.ptr = c.ptr /\ c'.up = c.up
      /\ py'.mem = [py.mem EXCEPT ![a] = content]
      /\ c'.mem = [c.mem EXCEPT ![a] = content]
  BY <1>1, <1>2 DEF PyMachine, CMachine
<1>4. QED
  BY <1>1, <1>3 DEF DInv, DevicesTyped, SameData, SureIsAligned, Running

LEMMA SyncDInv == ASSUME DInv, DISKSYNC PROVE DInv'
<1>1. /\ py \in PyMachine /\ c' = c /\ careful' = careful
      /\ sure' = sure \ {"next"} /\ py' = PySync
  BY DEF DInv, DevicesTyped, DISKSYNC
<1>2. /\ py' \in PyMachine
      /\ py'.files = py.files /\ py'.handle = py.handle /\ py'.ptr = py.ptr
      /\ py'.up = py.up /\ py'.mem = py.mem
  BY <1>1 DEF PySync, PyMachine
<1>3. QED
  BY <1>1, <1>2 DEF DInv, DevicesTyped, SameData, SureIsAligned, Running

LEMMA NextDInv == DInv /\ [DeviceNext]_devices => DInv'
<1> SUFFICES ASSUME DInv, [DeviceNext]_devices PROVE DInv'
  OBVIOUS
<1>1. CASE UNCHANGED devices
  BY <1>1 DEF devices, DInv, DevicesTyped, SameData, SureIsAligned, Running
<1>2. CASE DeviceNext
  BY <1>2, SelectDInv, SeekDInv, WriteDInv, ReadsDInv, FillDInv, SyncDInv DEF DeviceNext
<1>3. QED
  BY <1>1, <1>2

-----------------------------------------------------------------------------
(***************************************************************************)
(* Faults.                                                                 *)
(***************************************************************************)

LEMMA ReadFaults ==
  ASSUME DInv, NEW a \in Addresses, NEW position \in Nat,
         py.handle # NoDisk, Running, c' = CRead(a),
         careful' => position = c.ptr,
         py' = IF a > MAXMEMSP - (BLOCK_SIZE - 1) THEN raiseerror
               ELSE PyReadFrom(a, position),
         careful', py'.up # c'.up
  PROVE  a = MAXMEMSP - (BLOCK_SIZE - 1) \/ AtEnd(c.files[c.disk], c.ptr)
<1>1. /\ py \in PyMachine /\ c \in CMachine /\ py.up /\ c.up
      /\ c.disk # NoDisk /\ c.disk \in Disks /\ a \in Nat
  BY DEF DInv, DevicesTyped, SameData, CMachine, Running
<1> SUFFICES ASSUME a # MAXMEMSP - (BLOCK_SIZE - 1),
                    ~ AtEnd(c.files[c.disk], c.ptr)
             PROVE  FALSE
  OBVIOUS
<1>2. CASE a > MAXMEMSP - BLOCK_SIZE
  <2>1. a > MAXMEMSP - (BLOCK_SIZE - 1)
    BY <1>1, <1>2
  <2>2. py' = [py EXCEPT !.up = FALSE] /\ c' = [c EXCEPT !.up = FALSE]
    BY <1>1, <1>2, <2>1 DEF CRead, CFail, raiseerror
  <2>3. QED
    BY <1>1, <2>2 DEF PyMachine, CMachine
<1>3. CASE ~ (a > MAXMEMSP - BLOCK_SIZE)
  <2>1. ~ (a > MAXMEMSP - (BLOCK_SIZE - 1))
    BY <1>1, <1>3
  <2>2. py' = PyReadFrom(a, position)
    BY <2>1
  <2>3. py'.up = py.up
    BY <1>1, <2>2 DEF PyReadFrom, PyMachine
  <2>4. c'.up = c.up
    BY <1>1, <1>3 DEF CRead, CMachine
  <2>5. QED
    BY <1>1, <2>3, <2>4
<1>4. QED
  BY <1>2, <1>3

LEMMA SelectFaults ==
  ASSUME DInv, NEW d \in Disks \cup Missing, DISKSEL(d), careful'
  PROVE  py'.up = c'.up
<1>1. /\ py \in PyMachine /\ c \in CMachine /\ py.up /\ c.up
      /\ py.handle = c.disk /\ py.handle \in {NoDisk, d}
      /\ py' = PySelect(d) /\ c' = CSelect(d)
  BY DEF DInv, DevicesTyped, SameData, DISKSEL, Running
<1>2. CASE d \in Missing
  <2>1. py.handle = NoDisk
    BY <1>1, <1>2 DEF CMachine
  <2>2. /\ py' = [[py EXCEPT !.up = FALSE] EXCEPT !.handle = d]
        /\ c' = [[c EXCEPT !.up = FALSE] EXCEPT !.disk = NoDisk]
    BY <1>1, <1>2, <2>1 DEF PySelect, CSelect, raiseerror, CFail
  <2>3. QED
    BY <1>1, <2>2 DEF PyMachine, CMachine
<1>3. CASE d \in Disks
  <2>1. /\ py' = [py EXCEPT !.handle = d, !.ptr = 0, !.pos = 0]
        /\ c' = [c EXCEPT !.disk = d, !.ptr = 0]
    BY <1>1, <1>3 DEF PySelect, CSelect
  <2>2. QED
    BY <1>1, <2>1 DEF PyMachine, CMachine
<1>4. QED
  BY <1>2, <1>3

LEMMA SeekFaults ==
  ASSUME DInv, NEW s \in Sectors, DISKSEEK(s) PROVE py'.up = c'.up
<1>1. /\ py \in PyMachine /\ c \in CMachine /\ py.up /\ c.up /\ py.handle = c.disk
      /\ py' = PySeek(s) /\ c' = CSeek(s)
  BY DEF DInv, DevicesTyped, SameData, DISKSEEK, Running
<1>2. QED
  BY <1>1 DEF PySeek, CSeek, raiseerror, CFail, PyMachine, CMachine

LEMMA WriteFaults ==
  ASSUME DInv, NEW a \in Addresses, DISKWRITE(a) PROVE py'.up = c'.up
<1>1. /\ py \in PyMachine /\ c \in CMachine /\ py.up /\ c.up /\ py.handle = c.disk
      /\ py' = PyWrite(a) /\ c' = CWrite(a)
  BY DEF DInv, DevicesTyped, SameData, DISKWRITE, Running
<1>2. a >= MAXMEMSP - (BLOCK_SIZE - 1) <=> a > MAXMEMSP - BLOCK_SIZE
  OBVIOUS
<1>3. CASE py.handle = NoDisk \/ a > MAXMEMSP - BLOCK_SIZE
  BY <1>1, <1>2, <1>3 DEF PyWrite, CWrite, raiseerror, CFail, PyMachine, CMachine
<1>4. CASE ~ (py.handle = NoDisk \/ a > MAXMEMSP - BLOCK_SIZE)
  <2>1. py'.up = py.up
    BY <1>1, <1>2, <1>4 DEF PyWrite, PyMachine
  <2>2. c'.up = c.up
    BY <1>1, <1>4 DEF CWrite, CMachine
  <2>3. QED
    BY <1>1, <2>1, <2>2
<1>5. QED
  BY <1>3, <1>4

LEMMA ReadsFaults ==
  ASSUME DInv, NEW a \in Addresses, DISKREAD(a) \/ DISKREADI(a),
         careful', py'.up # c'.up
  PROVE  OneRefuses(a)
<1>1. /\ py.up /\ c.up /\ Running /\ py.handle = c.disk
      /\ py.pos \in Nat /\ (py.handle # NoDisk => py.ptr \in Nat)
  BY DEF DInv, DevicesTyped, SameData, DISKREAD, DISKREADI, Running, PyMachine, CMachine
<1>2. c' = CRead(a)
  BY DEF DISKREAD, DISKREADI
<1>3. CASE py.handle # NoDisk /\ DISKREAD(a)
  <2>1. "next" \in sure /\ py' = PyRead(a)
    BY <1>3 DEF DISKREAD
  <2>2. py.pos = c.ptr
    BY <1>1, <1>3, <2>1 DEF DInv, SureIsAligned
  <2>3. py' = IF a > MAXMEMSP - (BLOCK_SIZE - 1) THEN raiseerror
              ELSE PyReadFrom(a, py.pos)
    BY <1>3, <2>1 DEF PyRead
  <2>4. QED
    BY <1>1, <1>2, <1>3, <2>2, <2>3, ReadFaults DEF OneRefuses
<1>4. CASE py.handle # NoDisk /\ DISKREADI(a)
  <2>1. "at" \in sure /\ py' = PyReadI(a)
    BY <1>4 DEF DISKREADI
  <2>2. py.ptr = c.ptr
    BY <1>1, <1>4, <2>1 DEF DInv, SureIsAligned
  <2>3. py' = IF a > MAXMEMSP - (BLOCK_SIZE - 1) THEN raiseerror
              ELSE PyReadFrom(a, py.ptr)
    BY <1>4, <2>1 DEF PyReadI
  <2>4. QED
    BY <1>1, <1>2, <1>4, <2>2, <2>3, ReadFaults DEF OneRefuses
<1>5. CASE py.handle = NoDisk /\ DISKREAD(a)
  BY <1>1, <1>5 DEF OneRefuses
<1>6. CASE py.handle = NoDisk /\ DISKREADI(a)
  BY <1>1, <1>2, <1>6 DEF DISKREADI, PyReadI, CRead
<1>7. QED
  BY <1>3, <1>4, <1>5, <1>6

LEMMA NextFaults ==
  ASSUME DInv, DeviceNext, careful', py'.up # c'.up
  PROVE  \E a \in Addresses : OneRefuses(a)
<1>1. ASSUME NEW a \in Addresses, NEW content \in Contents, Fill(a, content)
      PROVE  py'.up = c'.up
  BY <1>1 DEF DInv, DevicesTyped, Fill, Running, PyMachine, CMachine
<1>2. ASSUME DISKSYNC PROVE py'.up = c'.up
  BY <1>2 DEF DInv, DevicesTyped, DISKSYNC, PySync, Running, PyMachine, CMachine
<1>3. QED
  BY <1>1, <1>2, SelectFaults, SeekFaults, WriteFaults, ReadsFaults DEF DeviceNext

LEMMA StepFaults ==
  DInv /\ [DeviceNext]_devices
    => [careful' /\ py'.up # c'.up => \E a \in Addresses : OneRefuses(a)]_devices
BY NextFaults

-----------------------------------------------------------------------------
\* The invariant behind the theorems: which of the pointers agree, and when.
THEOREM DiskInvariant == DeviceSpec => []DInv
BY InitDInv, NextDInv, PTL DEF DeviceSpec

\* Both machines stay machines (optCAST, optPOLL, handle_cast, handle_poll).
THEOREM MachinesTyped == DeviceSpec => []DevicesTyped
BY DiskInvariant, PTL DEF DInv

\* A program that seeks where a backend needs it finds the same data in memory
\* and leaves the same data on disk, whichever of the backends executes it.
THEOREM BackendsAgree == DeviceSpec => []SameData
BY DiskInvariant, PTL DEF DInv

\* The backends refuse the same operations of such a program, three kinds of
\* reads apart (the error exits of optCAST and optPOLL, the RC_ codes).
THEOREM BackendsFail == DeviceSpec => SameFaults
BY DiskInvariant, StepFaults, PTL DEF DeviceSpec, SameFaults
=============================================================================
