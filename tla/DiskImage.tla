----------------------------- MODULE DiskImage -----------------------------
(***************************************************************************)
(* The commands of the disk-image tool, filesys/ex716disk.py, on an image. *)
(*                                                                         *)
(* An image has a directory, a bitmap of the directory entries in use, a   *)
(* count of the active files, and data blocks.  A file is a chain of       *)
(* entries of one block each; its first entry, the root, has the name.     *)
(* Deleting a file only flips flags: its entries can be restored by        *)
(* undelete until an import takes them.                                    *)
(*                                                                         *)
(* This module has the operations on an image, as operators on records,    *)
(* and the specification in which every command is one step.  DiskTool has *)
(* the processes that run them, and the files they write.                  *)
(***************************************************************************)
EXTENDS Integers, FiniteSets

CONSTANTS
  EntryCount,   \* DIRECTORY_ENTRY_COUNT; entry 0 is the header
  FirstBlock,   \* FIRST_DATA_BLOCK
  BlockCount,   \* BLOCK_COUNT
  BlockSize,    \* BLOCK_SIZE
  Names,        \* file names
  Fold,         \* casefold, a function on Names
  Payloads,     \* what files may contain
  Length,       \* the length of a payload
  None          \* no name, no payload: the empty field

ASSUME DiskAssumption ==
  /\ EntryCount \in Nat \ {0} /\ BlockCount \in Nat
  /\ FirstBlock \in Nat \ {0} /\ BlockSize \in Nat \ {0}
  /\ Length \in [Payloads -> Nat]
  /\ None \notin Names /\ None \notin Payloads

VARIABLE disk   \* the image in the .disk file

Slots  == 1 .. EntryCount - 1
Blocks == FirstBlock .. BlockCount - 1

-----------------------------------------------------------------------------
(***************************************************************************)
(* Looking at an image.                                                    *)
(***************************************************************************)

in_use(img)  == {s \in Slots : img.flag[s] = "inuse"}
deleted(img) == {s \in Slots : img.flag[s] = "deleted"}

visible(img) == {s \in in_use(img) : img.name[s] # None}

\* Mutant of matches: a search that may return deleted entries skips the others.
matchesEither(img, n, include_deleted) ==
  {s \in (IF include_deleted THEN deleted(img) ELSE in_use(img)) :
     img.name[s] # None /\ Fold[img.name[s]] = Fold[n]}

\* What find looks for.
matches(img, n, include_deleted) ==
  {s \in in_use(img) \cup (IF include_deleted THEN deleted(img) ELSE {}) :
     img.name[s] # None /\ Fold[img.name[s]] = Fold[n]}

\* find returns s: a second match is an error, as none is.
finds(img, n, include_deleted, s) == matches(img, n, include_deleted) = {s}

\* The entries of the chain from root: they are in every set that is closed
\* under next_extent.
chain(img, root) ==
  {s \in Slots :
     \A S \in SUBSET Slots :
       root \in S /\ (\A t \in S : img.next[t] \in Slots => img.next[t] \in S)
         => s \in S}

allocated_blocks(img) == {img.block[s] : s \in in_use(img)}
free_blocks(img)      == Blocks \ allocated_blocks(img)

\* Mutant of free_file_nums: deleted entries are not taken again.
free_file_nums_blank(img) == {s \in Slots : img.flag[s] = "blank"}

free_file_nums(img) == Slots \ img.bits

\* The place of x in the sorted list of S, and the n-th of that list.
Rank(S, x) == Cardinality({y \in S : y <= x})
Nth(S, n) == CHOOSE x \in S : Rank(S, x) = n

AtMost(a, b) == IF a <= b THEN a ELSE b

\* How many extents a payload takes: an empty one still has one.
extent_count(p) ==
  LET n == (Length[p] + BlockSize - 1) \div BlockSize IN
    IF n = 0 THEN 1 ELSE n

-----------------------------------------------------------------------------
(***************************************************************************)
(* The image operations.                                                   *)
(***************************************************************************)

\* DiskImage.create.  The header's own bit in the bitmap never changes and is
\* left out.
create ==
  [name    |-> [s \in Slots |-> None],
   flag    |-> [s \in Slots |-> "blank"],
   block   |-> [s \in Slots |-> 0],
   next    |-> [s \in Slots |-> 0],
   size    |-> [s \in Slots |-> 0],
   bits    |-> {},
   active  |-> 0,
   data    |-> [b \in Blocks |-> None],
   payload |-> [s \in Slots |-> None]]   \* history: what was imported there

\* Mutant of delete_entry: the continuation entries keep their bits.
delete_entry_root(img, root, keep_name) ==
  [img EXCEPT
     !.flag   = [s \in Slots |-> IF s \in chain(img, root) THEN "deleted" ELSE @[s]],
     !.name   = [s \in Slots |-> IF s \in chain(img, root) /\ ~ (s = root /\ keep_name)
                                   THEN None ELSE @[s]],
     !.bits   = @ \ {root},
     !.active = IF @ = 0 THEN 0 ELSE @ - 1]

delete_entry(img, root, keep_name) ==
  [img EXCEPT
     !.flag   = [s \in Slots |-> IF s \in chain(img, root) THEN "deleted" ELSE @[s]],
     !.name   = [s \in Slots |-> IF s \in chain(img, root) /\ ~ (s = root /\ keep_name)
                                   THEN None ELSE @[s]],
     !.bits   = @ \ chain(img, root),
     !.active = IF @ = 0 THEN 0 ELSE @ - 1]

has_room(img, p) ==
  /\ Cardinality(free_file_nums(img)) >= extent_count(p)
  /\ Cardinality(free_blocks(img)) >= extent_count(p)

\* The body of import_file, once an old file of the name is deleted: the first
\* free entries and the first free blocks, paired in order.
store(img, n, p) ==
  LET free     == free_file_nums(img)
      blocks   == free_blocks(img)
      count    == extent_count(p)
      index(s) == Rank(free, s)
      mine     == {s \in free : index(s) <= count}
      root     == Nth(free, 1)
      length(i) == IF i = 1 THEN Length[p]
                   ELSE AtMost(BlockSize, Length[p] - (i - 1) * BlockSize)
  IN
    [name    |-> [s \in Slots |-> IF s \notin mine THEN img.name[s]
                                   ELSE IF s = root THEN n ELSE None],
     flag    |-> [s \in Slots |-> IF s \notin mine THEN img.flag[s] ELSE "inuse"],
     block   |-> [s \in Slots |-> IF s \notin mine THEN img.block[s]
                                   ELSE Nth(blocks, index(s))],
     next    |-> [s \in Slots |-> IF s \notin mine THEN img.next[s]
                                   ELSE IF index(s) < count
                                          THEN Nth(free, index(s) + 1) ELSE 0],
     size    |-> [s \in Slots |-> IF s \notin mine THEN img.size[s]
                                   ELSE length(index(s))],
     bits    |-> img.bits \cup mine,
     active  |-> img.active + 1,
     data    |-> [b \in Blocks |->
                    IF b \in blocks /\ Rank(blocks, b) <= count
                      THEN <<p, Rank(blocks, b)>> ELSE img.data[b]],
     payload |-> [s \in Slots |-> IF s \notin mine THEN img.payload[s]
                                   ELSE IF s = root THEN p ELSE None]]

\* The new name belongs to no other file; when it is ambiguous it is as good
\* as absent, the error of find being swallowed.
may_rename(img, s, new) == \A t \in Slots : finds(img, new, FALSE, t) => t = s

may_undelete(img, root) ==
  /\ chain(img, root) \cap img.bits = {}
  /\ \A s \in chain(img, root) : img.block[s] \notin allocated_blocks(img)

\* Mutant of undelete: the continuation entries stay deleted.
undelete_root(img, root) ==
  [img EXCEPT !.flag   = [@ EXCEPT ![root] = "inuse"],
              !.bits   = @ \cup {root},
              !.active = @ + 1]

undelete(img, root) ==
  [img EXCEPT
     !.flag   = [s \in Slots |-> IF s \in chain(img, root) THEN "inuse" ELSE @[s]],
     !.bits   = @ \cup chain(img, root),
     !.active = @ + 1]

-----------------------------------------------------------------------------
(***************************************************************************)
(* The commands.  Each gives the set of the images it may save, which is   *)
(* empty when it stops with an error: nothing is saved then.               *)
(***************************************************************************)

cmd_import(img, n, p, replace) ==
  LET found  == {s \in Slots : finds(img, n, FALSE, s)}
      bases  == IF found = {} THEN {img}
                ELSE {delete_entry(img, s, FALSE) : s \in {t \in found : replace}}
  IN  {store(base, n, p) : base \in {i \in bases : has_room(i, p)}}

cmd_rename(img, old, n) ==
  {[img EXCEPT !.name[s] = n] :
     s \in {t \in Slots : finds(img, old, FALSE, t) /\ may_rename(img, t, n)}}

cmd_delete(img, n) ==
  {delete_entry(img, s, TRUE) : s \in {t \in Slots : finds(img, n, FALSE, t)}}

cmd_undelete(img, n) ==
  {undelete(img, s) :
     s \in {t \in deleted(img) : finds(img, n, TRUE, t) /\ may_undelete(img, t)}}

\* What any command but format may save.
saves(img) ==
  UNION ({cmd_import(img, n, p, replace) :
            n \in Names, p \in Payloads, replace \in BOOLEAN}
           \cup {cmd_rename(img, old, n) : old \in Names, n \in Names}
           \cup {cmd_delete(img, n) \cup cmd_undelete(img, n) : n \in Names})

-----------------------------------------------------------------------------
Init == disk = create

Import ==
  \E n \in Names, p \in Payloads, replace \in BOOLEAN :
    disk' \in cmd_import(disk, n, p, replace)
Rename   == \E old, n \in Names : disk' \in cmd_rename(disk, old, n)
Delete   == \E n \in Names : disk' \in cmd_delete(disk, n)
Undelete == \E n \in Names : disk' \in cmd_undelete(disk, n)
\* The format command with --force.
Format   == disk' = create

Next == Import \/ Rename \/ Delete \/ Undelete \/ Format

Spec == Init /\ [][Next]_disk

-----------------------------------------------------------------------------
(***************************************************************************)
(* Properties.                                                             *)
(***************************************************************************)

\* What the check command looks for: the bitmap is the set of the entries in
\* use, no block has two owners or lies outside the data, the count is that of
\* the visible files, no continuation entry of any entry has a name, and no
\* file is longer than its chain.
check(img) ==
  /\ img.bits = in_use(img)
  /\ \A s \in in_use(img) : img.block[s] \in Blocks
  /\ \A s, t \in in_use(img) : s # t => img.block[s] # img.block[t]
  /\ img.active = Cardinality(visible(img))
  /\ \A s \in Slots : img.next[s] # 0 => img.name[img.next[s]] = None
  /\ \A s \in visible(img) :
       Cardinality(chain(img, s)) * BlockSize >= img.size[s]

\* No sequence of commands, deletions and restorations included, makes an image
\* that the check command complains about.
CheckClean == check(disk)

\* Names stay unique up to case, though undelete brings old ones back and
\* rename and import treat an ambiguous name as an absent one.
UniqueNames ==
  \A s, t \in visible(disk) :
    s # t => Fold[disk.name[s]] # Fold[disk.name[t]]

\* The i-th extent of the chain from root.
extent(img, root, i) ==
  LET walk[j \in 1 .. i] ==
        IF j = 1 THEN root
        ELSE IF walk[j - 1] \in Slots THEN img.next[walk[j - 1]] ELSE 0
  IN  walk[i]

\* export_file writes the payload p.
exports(img, root, p) ==
  /\ img.size[root] = Length[p]
  /\ \A i \in 1 .. extent_count(p) :
       LET s == extent(img, root, i) IN
         s \in in_use(img) /\ img.data[img.block[s]] = <<p, i>>

\* A file reads back as it was imported, whatever was imported, replaced,
\* deleted and restored around it, and also when it was itself restored.
ReadsBack ==
  \A r \in visible(disk) : exports(disk, r, disk.payload[r])

\* The two refusals of undelete never happen to an image that only this tool
\* has changed: a file whose entry is still marked deleted can be restored.
DeletedIsWhole ==
  \A r \in deleted(disk) : disk.name[r] # None => may_undelete(disk, r)
=============================================================================
