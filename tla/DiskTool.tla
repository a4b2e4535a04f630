------------------------------ MODULE DiskTool ------------------------------
(***************************************************************************)
(* Processes running filesys/ex716disk.py on one .disk file.               *)
(*                                                                         *)
(* A command reads the whole image, changes its copy, and saves it: the    *)
(* old image is copied to the .bak file, the new one goes to a temporary   *)
(* file that is then renamed over the old one.  There is no lock.  A       *)
(* process may be killed between any two of these steps.                   *)
(***************************************************************************)
EXTENDS Integers, FiniteSets

CONSTANTS
  EntryCount, FirstBlock, BlockCount, BlockSize,
  Names, Fold, Payloads, Length, None,
  Procs,        \* the processes
  Backups,      \* whether they make backups; FALSE is --no-backup
  NoImage,      \* a file that is not there
  Torn          \* a file that is being written

ASSUME ToolAssumption ==
  /\ EntryCount \in Nat \ {0} /\ BlockCount \in Nat
  /\ FirstBlock \in Nat \ {0} /\ BlockSize \in Nat \ {0}
  /\ Length \in [Payloads -> Nat]
  /\ None \notin Names /\ None \notin Payloads

VARIABLES
  file,     \* the image in the .disk file
  bak,      \* the one in the .bak file
  pc,       \* where each process is
  img,      \* the image it works on
  source,   \* what it copies to make the backup
  backed,   \* history: those that have made their backup
  alone     \* history: those that nothing has interrupted since they began

vars == <<file, bak, pc, img, source, backed, alone>>

D == INSTANCE DiskImage WITH disk <- file

Init ==
  /\ file = D!create
  /\ bak = NoImage
  /\ pc = [p \in Procs |-> "idle"]
  /\ img = [p \in Procs |-> NoImage]
  /\ source = [p \in Procs |-> NoImage]
  /\ backed = {} /\ alone = {}

Goto(p, from, to) == pc[p] = from /\ pc' = [pc EXCEPT ![p] = to]

\* The process ends, and what it had in memory is gone.
End(p) ==
  /\ pc' = [pc EXCEPT ![p] = "idle"]
  /\ img' = [img EXCEPT ![p] = NoImage]
  /\ source' = [source EXCEPT ![p] = NoImage]

\* The image is read; a rename meanwhile does not change the file that is open.
open_image(p) ==
  /\ Goto(p, "idle", "run")
  /\ img' = [img EXCEPT ![p] = file]
  /\ UNCHANGED <<file, bak, source>>

\* The command does its work in memory; it is to be saved with a backup, or
\* without one.
run(p) ==
  /\ \E backup \in Backups : Goto(p, "run", IF backup THEN "backup" ELSE "write")
  /\ \E new \in D!saves(img[p]) : img' = [img EXCEPT ![p] = new]
  /\ UNCHANGED <<file, bak, source>>

\* It stops with an error, and the process ends.
stop(p) ==
  pc[p] = "run" /\ End(p) /\ UNCHANGED <<file, bak>>

\* format does not read an image, and makes no backup.
format(p) ==
  /\ Goto(p, "idle", "write")
  /\ img' = [img EXCEPT ![p] = D!create]
  /\ UNCHANGED <<file, bak, source>>

\* copy2 opens both files, which empties the second.
begin_backup(p) ==
  /\ Goto(p, "backup", "copy")
  /\ bak' = Torn
  /\ source' = [source EXCEPT ![p] = file]
  /\ UNCHANGED <<file, img>>

\* Mutant of end_backup: the new image is what is kept.
end_backup_new(p) ==
  /\ Goto(p, "copy", "write")
  /\ bak' = img[p]
  /\ source' = [source EXCEPT ![p] = NoImage]
  /\ UNCHANGED <<file, img>>

\* The copy is complete, unless another process is writing the same file.
end_backup(p) ==
  /\ Goto(p, "copy", "write")
  /\ bak' = IF \E q \in Procs \ {p} : pc[q] = "copy" THEN Torn ELSE source[p]
  /\ source' = [source EXCEPT ![p] = NoImage]
  /\ UNCHANGED <<file, img>>

\* Mutant of write_temp: the directory is written into the file itself, before
\* its header.
write_temp_in_place(p) ==
  /\ Goto(p, "write", "rename")
  /\ file' = [img[p] EXCEPT !.bits = file.bits, !.active = file.active]
  /\ UNCHANGED <<bak, img, source>>

\* The temporary file has a name of its own, and is complete when fsync returns.
write_temp(p) ==
  /\ Goto(p, "write", "rename")
  /\ UNCHANGED <<file, bak, img, source>>

\* os.replace.
replace(p) ==
  /\ pc[p] = "rename" /\ End(p)
  /\ file' = img[p]
  /\ UNCHANGED bak

\* The process is killed.  Its temporary file stays, and is never read.
kill(p) ==
  pc[p] # "idle" /\ End(p) /\ UNCHANGED <<file, bak>>

Step(p) ==
  \/ open_image(p) \/ run(p) \/ stop(p) \/ format(p)
  \/ begin_backup(p) \/ end_backup(p) \/ write_temp(p) \/ replace(p)
  \/ kill(p)

\* A step interrupts all others, and is itself interrupted when they are at work.
Notes(p) ==
  /\ alone' = IF /\ pc'[p] # "idle"
                 /\ p \in alone \/ \A q \in Procs : pc[q] = "idle"
                THEN {p} ELSE {}
  /\ backed' = IF pc'[p] = "idle" THEN backed \ {p}
               ELSE IF pc[p] = "copy" THEN backed \cup {p} ELSE backed

Next == \E p \in Procs : Step(p) /\ Notes(p)

Spec == Init /\ [][Next]_vars

-----------------------------------------------------------------------------
(***************************************************************************)
(* Properties.                                                             *)
(***************************************************************************)

\* Whatever is killed when, and though processes overwrite each other's work,
\* the file is an image that the check command has no complaint about.
AlwaysClean == D!CheckClean /\ D!UniqueNames /\ D!ReadsBack

\* The file changes only when a process replaces it, and then, unless others have
\* worked meanwhile, by one complete command: a killed one has happened or not.
Atomic ==
  [][file' # file => \E p \in Procs : replace(p) /\ (p \in alone => D!Next)]_vars

\* README.md: a command that changes the image leaves a .bak file.  It holds the
\* very image that the command replaces, whatever crashes of earlier commands have
\* left, unless others have worked meanwhile.
BackupIsPrevious ==
  [][\A p \in Procs :
       replace(p) /\ p \in alone \cap backed => bak = file]_vars
=============================================================================
