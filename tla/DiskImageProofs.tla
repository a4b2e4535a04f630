-------------------------- MODULE DiskImageProofs --------------------------
(***************************************************************************)
(* For images of any size, any names and payloads: no sequence of commands *)
(* makes an image that the check command complains about, or in which a    *)
(* name is there twice, or a file that does not read back as what was      *)
(* imported; and a deleted file that could be restored is still whole.     *)
(*                                                                         *)
(* The links of the entries, the old ones of entries that are not in use   *)
(* included, always lead upwards, no two to the same entry, and from an    *)
(* entry in use to another one.  So an import, which takes the lowest free *)
(* entries, takes none that a remaining entry leads to.  An entry only     *)
(* ever has the block of its own number, so what is in the blocks of a     *)
(* deleted file goes when its entries are taken, and not before.           *)
(***************************************************************************)
EXTENDS DiskImage, FiniteSetTheorems, TLAPS

-----------------------------------------------------------------------------
(***************************************************************************)
(* Places in a finite set of numbers.                                      *)
(***************************************************************************)
LEMMA RankType ==
  ASSUME NEW S \in SUBSET Int, IsFiniteSet(S), NEW x \in S
  PROVE  Rank(S, x) \in 1 .. Cardinality(S)
<1> DEFINE below == {y \in S : y <= x}
<1>1. below \subseteq S /\ x \in below
  OBVIOUS
<1>2. IsFiniteSet(below) /\ Cardinality(below) <= Cardinality(S)
  BY <1>1, FS_Subset
<1>3. Cardinality(below) \in Nat /\ Cardinality(S) \in Nat /\ Cardinality(below) # 0
  BY <1>1, <1>2, FS_CardinalityType, FS_EmptySet
<1> QED
  BY <1>2, <1>3 DEF Rank

LEMMA RankIncreases ==
  ASSUME NEW S \in SUBSET Int, IsFiniteSet(S), NEW x \in S, NEW y \in S, x < y
  PROVE  Rank(S, x) < Rank(S, y)
<1> DEFINE low == {z \in S : z <= x}
           high == {z \in S : z <= y}
<1>1. low \subseteq high /\ y \in high /\ y \notin low /\ high \subseteq S
  <2>1. x \in Int /\ y \in Int /\ \A z \in S : z \in Int
    OBVIOUS
  <2>2. y \in high /\ y \notin low /\ high \subseteq S
    BY <2>1
  <2>3. \A z \in low : z \in high
    BY <2>1
  <2> QED
    BY <2>2, <2>3
<1>2. IsFiniteSet(high)
  BY <1>1, FS_Subset
<1>3. Cardinality(low) <= Cardinality(high) /\ Cardinality(low) # Cardinality(high)
  BY <1>1, <1>2, FS_Subset
<1>4. Cardinality(low) \in Nat /\ Cardinality(high) \in Nat
  BY <1>1, <1>2, FS_Subset, FS_CardinalityType
<1> QED
  BY <1>3, <1>4 DEF Rank

LEMMA RankOrder ==
  ASSUME NEW S \in SUBSET Int, IsFiniteSet(S), NEW x \in S, NEW y \in S
  PROVE  /\ Rank(S, x) < Rank(S, y) <=> x < y
         /\ Rank(S, x) = Rank(S, y) <=> x = y
<1>1. Rank(S, x) \in Int /\ Rank(S, y) \in Int /\ x \in Int /\ y \in Int
  BY RankType
<1> QED
  BY <1>1, RankIncreases

LEMMA RankOnto ==
  ASSUME NEW S \in SUBSET Int, IsFiniteSet(S), NEW i \in 1 .. Cardinality(S)
  PROVE  \E x \in S : Rank(S, x) = i
<1> DEFINE f == [x \in S |-> Rank(S, x)]
           places == 1 .. Cardinality(S)
<1>1. Cardinality(S) \in Nat
  BY FS_CardinalityType
<1>2. IsFiniteSet(places) /\ Cardinality(places) = Cardinality(S)
  BY <1>1, FS_Interval
<1>3. f \in Injection(S, places)
  BY RankType, RankOrder DEF Injection, IsInjective
<1>4. f \in Surjection(S, places)
  BY <1>2, <1>3, FS_Injection
<1> QED
  BY <1>4 DEF Surjection

LEMMA NthRank ==
  ASSUME NEW S \in SUBSET Int, IsFiniteSet(S), NEW i \in 1 .. Cardinality(S)
  PROVE  Nth(S, i) \in S /\ Rank(S, Nth(S, i)) = i
BY RankOnto DEF Nth

LEMMA LeastExists ==
  ASSUME NEW S \in SUBSET Int, IsFiniteSet(S), S # {}
  PROVE  \E x \in S : \A y \in S : x <= y
<1>1. 1 \in 1 .. Cardinality(S)
  BY FS_CardinalityType, FS_EmptySet
<1>2. PICK x \in S : Rank(S, x) = 1
  BY <1>1, RankOnto
<1>3. \A y \in S : ~ (y < x)
  BY <1>2, RankType, RankIncreases
<1> QED
  BY <1>3

\* The first k places.
LEMMA FirstPlaces ==
  ASSUME NEW S \in SUBSET Int, IsFiniteSet(S), NEW k \in 1 .. Cardinality(S)
  PROVE  Cardinality({x \in S : Rank(S, x) <= k}) = k
<1> DEFINE first == {x \in S : Rank(S, x) <= k}
           f == [x \in first |-> Rank(S, x)]
<1>1. k \in Nat /\ IsFiniteSet(1 .. k) /\ Cardinality(1 .. k) = k
  BY FS_CardinalityType, FS_Interval
<1>2. f \in Injection(first, 1 .. k)
  <2>1. \A x \in first : Rank(S, x) \in 1 .. k
    BY <1>1, RankType
  <2>2. \A x, y \in first : f[x] = f[y] => x = y
    BY RankOrder
  <2> QED
    BY <2>1, <2>2 DEF Injection, IsInjective
<1>3. \A i \in 1 .. k : \E x \in first : f[x] = i
  BY <1>1, RankOnto, FS_CardinalityType
<1>4. f \in Surjection(first, 1 .. k)
  BY <1>2, <1>3 DEF Surjection, Injection
<1> QED
  BY <1>1, <1>2, <1>4, FS_Injection

-----------------------------------------------------------------------------
(***************************************************************************)
(* Chains.                                                                 *)
(***************************************************************************)
Closed(img, S) == \A t \in S : img.next[t] \in Slots => img.next[t] \in S

LEMMA ChainLeast ==
  ASSUME NEW img, NEW root, NEW S \in SUBSET Slots, root \in S, Closed(img, S)
  PROVE  chain(img, root) \subseteq S
BY DEF chain, Closed

LEMMA ChainCloses ==
  ASSUME NEW img, NEW root \in Slots
  PROVE  root \in chain(img, root) /\ Closed(img, chain(img, root)) /\ chain(img, root) \subseteq Slots
BY DEF chain, Closed

\* All but the root are led to by another entry of the chain.
LEMMA ChainLinks ==
  ASSUME NEW img, NEW root \in Slots, NEW x \in chain(img, root), x # root
  PROVE  \E y \in chain(img, root) : img.next[y] = x
<1> DEFINE S == {z \in chain(img, root) : z = root \/ \E y \in chain(img, root) : img.next[y] = z}
<1>1. root \in S /\ Closed(img, S) /\ S \subseteq Slots
  BY ChainCloses DEF Closed
<1>2. chain(img, root) \subseteq S
  BY <1>1, ChainLeast
<1> QED
  BY <1>2

\* A chain of which no link is changed stays.
LEMMA ChainKept ==
  ASSUME NEW img, NEW new, NEW root \in Slots,
         \A s \in chain(img, root) : new.next[s] = img.next[s]
  PROVE  chain(new, root) = chain(img, root)
<1>1. Closed(new, chain(img, root))
  BY ChainCloses DEF Closed
<1>2. chain(new, root) \subseteq chain(img, root)
  BY <1>1, ChainCloses, ChainLeast
<1>3. Closed(img, chain(new, root))
  BY <1>2, ChainCloses DEF Closed
<1>4. chain(img, root) \subseteq chain(new, root)
  BY <1>3, ChainCloses, ChainLeast
<1> QED
  BY <1>2, <1>4

-----------------------------------------------------------------------------
(***************************************************************************)
(* The invariant, of any image.                                            *)
(***************************************************************************)
Fields == {"name", "flag", "block", "next", "size", "bits", "active", "data", "payload"}

IsImage(img) ==
  /\ DOMAIN img = Fields
  /\ img.name \in [Slots -> Names \cup {None}]
  /\ img.flag \in [Slots -> {"blank", "inuse", "deleted"}]
  /\ img.block \in [Slots -> Int]
  /\ img.next \in [Slots -> Slots \cup {0}]
  /\ img.size \in [Slots -> Int]
  /\ img.bits \in SUBSET Slots
  /\ img.active \in Nat

\* Links lead upwards, each to an entry of its own without a name, and from entries
\* in use to such ones; these are what the bitmap says.
Linked(img) ==
  /\ \A s \in Slots : img.next[s] # 0 => img.next[s] > s /\ img.name[img.next[s]] = None
  /\ \A s, t \in Slots : img.next[s] = img.next[t] /\ img.next[s] # 0 => s = t
  /\ \A s \in in_use(img) : img.next[s] # 0 => img.next[s] \in in_use(img)
  /\ img.bits = in_use(img)

\* The entries of S have blocks of their own in the data.
OwnBlocks(img, S) ==
  /\ \A s \in S : img.block[s] \in Blocks
  /\ \A s, t \in S : s # t => img.block[s] # img.block[t]

\* A file, a deleted one included, whose root has not been taken has its blocks, and
\* enough of them.
Whole(img, r) ==
  /\ OwnBlocks(img, chain(img, r))
  /\ Cardinality(chain(img, r)) * BlockSize >= img.size[r]

Unique(img) == \A s, t \in visible(img) : s # t => Fold[img.name[s]] # Fold[img.name[t]]

DInv(img) ==
  /\ IsImage(img)
  /\ Linked(img)
  /\ OwnBlocks(img, in_use(img))
  /\ \A r \in Slots : img.name[r] # None => Whole(img, r)
  /\ img.active = Cardinality(visible(img))
  /\ Unique(img)

LEMMA SlotsAre ==
  /\ Slots \in SUBSET Int /\ IsFiniteSet(Slots) /\ 0 \notin Slots
  /\ Blocks \in SUBSET Int /\ IsFiniteSet(Blocks)
<1>1. EntryCount - 1 \in Int /\ BlockCount - 1 \in Int /\ FirstBlock \in Int
  BY DiskAssumption
<1>2. IsFiniteSet(Slots) /\ IsFiniteSet(Blocks)
  BY <1>1, FS_Interval DEF Slots, Blocks
<1> QED
  BY <1>1, <1>2 DEF Slots, Blocks

LEMMA VisibleFinite ==
  ASSUME NEW img
  PROVE  IsFiniteSet(visible(img)) /\ Cardinality(visible(img)) \in Nat /\ visible(img) \subseteq Slots
<1>1. visible(img) \subseteq Slots
  BY DEF visible, in_use
<1> QED
  BY <1>1, SlotsAre, FS_Subset, FS_CardinalityType

\* Of a chain the root alone can have a name.
LEMMA ChainUnnamed ==
  ASSUME NEW img, IsImage(img), Linked(img), NEW r \in Slots, NEW x \in chain(img, r), x # r
  PROVE  img.name[x] = None
<1>1. PICK y \in chain(img, r) : img.next[y] = x
  BY ChainLinks
<1>2. y \in Slots /\ x # 0
  BY ChainCloses, SlotsAre
<1> QED
  BY <1>1, <1>2 DEF Linked

\* Nothing else leads into the chain of a root that has a name.
LEMMA ChainApart ==
  ASSUME NEW img, IsImage(img), Linked(img), NEW r \in Slots, img.name[r] # None,
         NEW s \in Slots, img.next[s] \in chain(img, r)
  PROVE  s \in chain(img, r)
<1>1. img.next[s] # 0 /\ img.next[s] # r
  BY ChainCloses, SlotsAre DEF Linked
<1>2. PICK y \in chain(img, r) : img.next[y] = img.next[s]
  BY <1>1, ChainLinks
<1> QED
  BY <1>1, <1>2, ChainCloses DEF Linked

LEMMA CreateDInv == DInv(create)
<1>1. IsImage(create)
  BY DEF create, IsImage, Fields
<1>2. in_use(create) = {} /\ visible(create) = {}
  BY DEF create, in_use, visible
<1>3. Linked(create)
  BY <1>2 DEF create, Linked
<1>4. create.active = Cardinality(visible(create))
  BY <1>2, FS_EmptySet DEF create
<1>5. \A r \in Slots : create.name[r] = None
  BY DEF create
<1>6. OwnBlocks(create, in_use(create)) /\ Unique(create)
  BY <1>2 DEF OwnBlocks, Unique
<1> QED
  BY <1>1, <1>3, <1>4, <1>5, <1>6 DEF DInv

-----------------------------------------------------------------------------
(***************************************************************************)
(* rename, delete and undelete.                                            *)
(***************************************************************************)
\* An image with the same links, blocks and sizes, in which no other entry has a name.
LEMMA SameWhole ==
  ASSUME NEW img, NEW new, new.next = img.next, new.block = img.block, new.size = img.size,
         NEW r \in Slots, Whole(img, r)
  PROVE  Whole(new, r)
<1>1. chain(new, r) = chain(img, r)
  BY ChainKept
<1> QED
  BY <1>1 DEF Whole, OwnBlocks

LEMMA RenameDInv ==
  ASSUME NEW img, DInv(img), NEW n \in Names, NEW s \in visible(img), may_rename(img, s, n)
  PROVE  DInv([img EXCEPT !.name[s] = n])
<1> DEFINE new == [img EXCEPT !.name[s] = n]
<1>1. /\ s \in Slots /\ img.name[s] # None /\ n # None
      /\ DOMAIN img = Fields /\ img.name \in [Slots -> Names \cup {None}]
  BY DiskAssumption DEF DInv, IsImage, visible, in_use
<1>2. /\ new.name = [img.name EXCEPT ![s] = n] /\ DOMAIN new = Fields
      /\ new.flag = img.flag /\ new.block = img.block /\ new.next = img.next
      /\ new.size = img.size /\ new.bits = img.bits /\ new.active = img.active
  BY <1>1 DEF Fields
<1> HIDE DEF new
<1>3. \A t \in Slots : new.name[t] = IF t = s THEN n ELSE img.name[t]
  BY <1>1, <1>2
<1>4. IsImage(new)
  BY <1>1, <1>2 DEF DInv, IsImage
<1>5. in_use(new) = in_use(img) /\ visible(new) = visible(img)
  BY <1>1, <1>2, <1>3 DEF in_use, visible
<1>6. Linked(new)
  BY <1>1, <1>2, <1>3, <1>5 DEF DInv, IsImage, Linked
<1>7. OwnBlocks(new, in_use(new))
  BY <1>2, <1>5 DEF DInv, OwnBlocks
<1>8. \A r \in Slots : new.name[r] # None => Whole(new, r)
  BY <1>1, <1>2, <1>3, SameWhole DEF DInv
<1>9. \A t \in visible(img) : t # s => Fold[img.name[t]] # Fold[n]
  <2> SUFFICES ASSUME NEW t \in visible(img), t # s, Fold[img.name[t]] = Fold[n] PROVE FALSE
    OBVIOUS
  <2>1. matches(img, n, FALSE) = {u \in visible(img) : Fold[img.name[u]] = Fold[n]}
    BY DEF matches, visible
  <2>2. matches(img, n, FALSE) = {t}
    BY <2>1 DEF DInv, Unique
  <2> QED
    BY <2>2 DEF may_rename, finds, visible, in_use
<1>10. Unique(new)
  BY <1>3, <1>5, <1>9, VisibleFinite DEF DInv, Unique
<1> QED
  BY <1>2, <1>4, <1>5, <1>6, <1>7, <1>8, <1>10 DEF DInv, new

LEMMA DeleteDInv ==
  ASSUME NEW img, DInv(img), NEW r \in visible(img), NEW keep \in BOOLEAN
  PROVE  LET new == delete_entry(img, r, keep)
         IN  /\ DInv(new)
             /\ visible(new) = visible(img) \ {r}
             /\ \A s \in visible(new) : new.name[s] = img.name[s]
<1> DEFINE new == delete_entry(img, r, keep)
           C == chain(img, r)
<1>1. /\ IsImage(img) /\ Linked(img) /\ r \in Slots /\ img.name[r] # None /\ r \in in_use(img)
  BY DEF DInv, visible, in_use
<1>2. r \in C /\ C \subseteq Slots /\ Closed(img, C)
  BY <1>1, ChainCloses
<1> HIDE DEF C
<1>3. /\ DOMAIN new = Fields
      /\ new.flag = [s \in Slots |-> IF s \in C THEN "deleted" ELSE img.flag[s]]
      /\ new.name = [s \in Slots |-> IF s \in C /\ ~ (s = r /\ keep) THEN None ELSE img.name[s]]
      /\ new.bits = img.bits \ C
      /\ new.active = IF img.active = 0 THEN 0 ELSE img.active - 1
      /\ new.block = img.block /\ new.next = img.next /\ new.size = img.size
  BY <1>1 DEF IsImage, delete_entry, Fields, C
<1> HIDE DEF new
<1>4. IsImage(new)
  BY <1>1, <1>3 DEF IsImage
<1>5. in_use(new) = in_use(img) \ C
  BY <1>3 DEF in_use
<1>6. \A s \in C : s # r => img.name[s] = None
  BY <1>1, ChainUnnamed DEF C
<1>7. visible(new) = visible(img) \ {r}
  BY <1>2, <1>3, <1>5, <1>6 DEF visible, in_use
<1>8. \A s \in visible(new) : new.name[s] = img.name[s]
  BY <1>3, <1>5 DEF visible, in_use
<1>9. Linked(new)
  <2>1. \A s \in Slots : img.next[s] \in C => s \in C
    BY <1>1, ChainApart DEF C
  <2>2. \A s \in in_use(new) : new.next[s] # 0 => new.next[s] \in in_use(new)
    BY <1>1, <1>3, <1>5, <2>1 DEF Linked, in_use
  <2>3. \A s \in Slots : new.next[s] # 0 => new.next[s] > s /\ new.name[new.next[s]] = None
    BY <1>1, <1>3 DEF Linked, IsImage
  <2> QED
    BY <1>1, <1>3, <1>5, <2>2, <2>3 DEF Linked
<1>10. OwnBlocks(new, in_use(new))
  BY <1>3, <1>5 DEF DInv, OwnBlocks
<1>11. \A s \in Slots : new.name[s] # None => Whole(new, s)
  BY <1>3, SameWhole DEF DInv
<1>12. new.active = Cardinality(visible(new))
  <2>1. Cardinality(visible(img)) = img.active /\ img.active \in Nat
    BY <1>1 DEF DInv, IsImage
  <2>2. Cardinality(visible(img)) # 0
    BY VisibleFinite, FS_EmptySet
  <2>3. Cardinality(visible(new)) = Cardinality(visible(img)) - 1
    BY <1>7, VisibleFinite, FS_RemoveElement
  <2> QED
    BY <1>3, <2>1, <2>2, <2>3
<1>13. Unique(new)
  BY <1>7, <1>8 DEF DInv, Unique
<1> QED
  BY <1>4, <1>7, <1>8, <1>9, <1>10, <1>11, <1>12, <1>13 DEF DInv, new

LEMMA UndeleteDInv ==
  ASSUME NEW img, DInv(img), NEW n \in Names, NEW r \in deleted(img), finds(img, n, TRUE, r),
         may_undelete(img, r)
  PROVE  DInv(undelete(img, r))
<1> DEFINE new == undelete(img, r)
           C == chain(img, r)
<1>1. IsImage(img) /\ Linked(img) /\ r \in Slots /\ r \notin in_use(img)
  BY DEF DInv, deleted, in_use
<1>2. /\ matches(img, n, TRUE) = {r}
      /\ img.name[r] # None /\ Fold[img.name[r]] = Fold[n]
  BY DEF finds, matches
<1>3. r \in C /\ C \subseteq Slots /\ Closed(img, C)
  BY <1>1, ChainCloses
<1>4. C \cap in_use(img) = {} /\ \A s \in C : img.block[s] \notin allocated_blocks(img)
  BY <1>1 DEF may_undelete, Linked
<1>5. \A s \in C : s # r => img.name[s] = None
  BY <1>1, ChainUnnamed
<1>6. Whole(img, r)
  BY <1>1, <1>2 DEF DInv
<1>7. OwnBlocks(img, C)
  BY <1>6 DEF Whole
<1> HIDE DEF C
<1>8. /\ DOMAIN new = Fields
      /\ new.flag = [s \in Slots |-> IF s \in C THEN "inuse" ELSE img.flag[s]]
      /\ new.bits = img.bits \cup C
      /\ new.active = img.active + 1
      /\ new.name = img.name /\ new.block = img.block /\ new.next = img.next /\ new.size = img.size
  BY <1>1 DEF IsImage, undelete, Fields, C
<1> HIDE DEF new
<1>9. IsImage(new)
  BY <1>1, <1>3, <1>8 DEF IsImage
<1>10. in_use(new) = in_use(img) \cup C
  BY <1>3, <1>8 DEF in_use
<1>11. visible(new) = visible(img) \cup {r} /\ r \notin visible(img)
  BY <1>1, <1>2, <1>3, <1>5, <1>8, <1>10 DEF visible
<1>12. Linked(new)
  <2>1. \A s \in in_use(new) : new.next[s] # 0 => new.next[s] \in in_use(new)
    BY <1>1, <1>3, <1>8, <1>10 DEF Linked, IsImage, Closed
  <2> QED
    BY <1>1, <1>8, <1>10, <2>1 DEF Linked
<1>13. OwnBlocks(new, in_use(new))
  BY <1>4, <1>7, <1>8, <1>10 DEF DInv, OwnBlocks, allocated_blocks
<1>14. \A s \in Slots : new.name[s] # None => Whole(new, s)
  BY <1>8, SameWhole DEF DInv
<1>15. new.active = Cardinality(visible(new))
  <2>1. Cardinality(visible(img) \cup {r}) = Cardinality(visible(img)) + 1
    BY <1>11, VisibleFinite, FS_AddElement
  <2> QED
    BY <1>8, <1>11, <2>1 DEF DInv
<1>16. Unique(new)
  <2>1. \A s \in visible(img) : Fold[img.name[s]] # Fold[n]
    BY <1>1, <1>2 DEF matches, visible
  <2> QED
    BY <1>2, <1>8, <1>11, <2>1 DEF DInv, Unique
<1> QED
  BY <1>9, <1>12, <1>13, <1>14, <1>15, <1>16 DEF DInv, new

-----------------------------------------------------------------------------
(***************************************************************************)
(* import.                                                                 *)
(***************************************************************************)
LEMMA ExtentsHold ==
  ASSUME NEW p \in Payloads
  PROVE  extent_count(p) \in Nat \ {0} /\ extent_count(p) * BlockSize >= Length[p]
<1> DEFINE L == Length[p]
           n == (L + BlockSize - 1) \div BlockSize
<1>1. L \in Nat /\ BlockSize \in Nat \ {0}
  BY DiskAssumption
<1> HIDE DEF L
<1>2. n \in Nat /\ n * BlockSize >= L
  BY <1>1
<1>3. extent_count(p) = IF n = 0 THEN 1 ELSE n
  BY DEF extent_count, L
<1> HIDE DEF n
<1>4. n = 0 => L = 0
  BY <1>1, <1>2
<1> QED
  BY <1>1, <1>2, <1>3, <1>4 DEF L

\* The entries that store takes, and what they are given.
LEMMA StoreTakes ==
  ASSUME NEW img, DInv(img), NEW p \in Payloads, has_room(img, p)
  PROVE  LET free  == free_file_nums(img)
             count == extent_count(p)
             mine  == {s \in free : Rank(free, s) <= count}
             root  == Nth(free, 1)
         IN  /\ free = Slots \ in_use(img)
             /\ root \in mine /\ Rank(free, root) = 1
             /\ \A s \in mine : Rank(free, s) \in 1 .. count
             /\ \A s \in mine, t \in free \ mine : s < t
             /\ \A s \in mine : Rank(free, s) < count =>
                  LET t == Nth(free, Rank(free, s) + 1)
                  IN  t \in mine /\ t > s /\ t # root /\ Rank(free, t) = Rank(free, s) + 1
             /\ \A s \in mine : s # root =>
                  \E t \in mine : /\ t < s /\ Rank(free, t) < count
                                  /\ Nth(free, Rank(free, t) + 1) = s
             /\ \A s, t \in mine : Rank(free, s) = Rank(free, t) => s = t
             /\ Cardinality(mine) = count
<1> DEFINE free == free_file_nums(img)
           count == extent_count(p)
           mine == {s \in free : Rank(free, s) <= count}
           root == Nth(free, 1)
<1>1. free = Slots \ in_use(img)
  BY DEF free_file_nums, DInv, Linked
<1>2. free \in SUBSET Int /\ IsFiniteSet(free) /\ Cardinality(free) \in Nat
  BY <1>1, SlotsAre, FS_Subset, FS_CardinalityType
<1>3. count \in 1 .. Cardinality(free)
  BY <1>2, ExtentsHold DEF has_room
<1> HIDE DEF free, count
<1>4. \A s \in free : Rank(free, s) \in 1 .. Cardinality(free) /\ s \in Int
  BY <1>2, RankType
<1>5. \A s, t \in free : /\ Rank(free, s) < Rank(free, t) <=> s < t
                         /\ Rank(free, s) = Rank(free, t) <=> s = t
  BY <1>2, RankOrder
<1>6. \A i \in 1 .. count : Nth(free, i) \in mine /\ Rank(free, Nth(free, i)) = i
  BY <1>2, <1>3, NthRank
<1>7. root \in mine /\ Rank(free, root) = 1
  BY <1>3, <1>6
<1>8. \A s \in mine : Rank(free, s) \in 1 .. count
  BY <1>2, <1>3, <1>4
<1>9. \A s \in mine, t \in free \ mine : s < t
  BY <1>2, <1>3, <1>4, <1>5
<1>10. ASSUME NEW s \in mine, Rank(free, s) < count
       PROVE  LET t == Nth(free, Rank(free, s) + 1)
              IN  t \in mine /\ t > s /\ t # root /\ Rank(free, t) = Rank(free, s) + 1
  <2>1. Rank(free, s) + 1 \in 1 .. count
    BY <1>3, <1>8, <1>10
  <2> DEFINE t == Nth(free, Rank(free, s) + 1)
  <2>2. t \in mine /\ Rank(free, t) = Rank(free, s) + 1
    BY <1>6, <2>1
  <2> HIDE DEF t
  <2>3. s < t /\ Rank(free, t) # 1
    BY <1>4, <1>5, <2>2
  <2> QED
    BY <1>4, <1>7, <2>2, <2>3 DEF t
<1>11. ASSUME NEW s \in mine, s # root
       PROVE  \E t \in mine : t < s /\ Rank(free, t) < count /\ Nth(free, Rank(free, t) + 1) = s
  <2>1. Rank(free, s) \in 2 .. count
    BY <1>3, <1>5, <1>7, <1>8, <1>11
  <2> DEFINE t == Nth(free, Rank(free, s) - 1)
  <2>2. t \in mine /\ Rank(free, t) = Rank(free, s) - 1
    BY <1>3, <1>6, <2>1
  <2> HIDE DEF t
  <2>3. t < s /\ Rank(free, t) < count
    BY <1>3, <1>5, <2>1, <2>2
  <2>4. Rank(free, t) + 1 = Rank(free, s)
    BY <2>1, <2>2
  <2>5. Nth(free, Rank(free, s)) = s
    BY <1>5, <1>6, <1>8
  <2> QED
    BY <2>2, <2>3, <2>4, <2>5
<1>12. Cardinality(mine) = count
  BY <1>2, <1>3, FirstPlaces
<1>13. \A s, t \in mine : Rank(free, s) = Rank(free, t) => s = t
  BY <1>5
<1> QED
  BY <1>1, <1>7, <1>8, <1>9, <1>10, <1>11, <1>12, <1>13 DEF free, count

\* The blocks that it takes.
LEMMA StoreBlocks ==
  ASSUME NEW img, DInv(img), NEW p \in Payloads, has_room(img, p)
  PROVE  LET blocks == free_blocks(img)
         IN  /\ \A i \in 1 .. extent_count(p) : Nth(blocks, i) \in Blocks \ allocated_blocks(img)
             /\ \A i, j \in 1 .. extent_count(p) : Nth(blocks, i) = Nth(blocks, j) => i = j
<1> DEFINE blocks == free_blocks(img)
<1>1. blocks \in SUBSET Int /\ IsFiniteSet(blocks) /\ Cardinality(blocks) \in Nat
  BY SlotsAre, FS_Subset, FS_CardinalityType DEF free_blocks
<1>2. 1 .. extent_count(p) \subseteq 1 .. Cardinality(blocks)
  BY <1>1, ExtentsHold DEF has_room
<1>3. \A i \in 1 .. extent_count(p) : Nth(blocks, i) \in blocks /\ Rank(blocks, Nth(blocks, i)) = i
  BY <1>1, <1>2, NthRank
<1> QED
  BY <1>3 DEF free_blocks

\* No remaining entry leads to one that is taken, and these are one chain.
LEMMA StoreChains ==
  ASSUME NEW img, DInv(img), NEW n \in Names, NEW p \in Payloads, has_room(img, p)
  PROVE  LET new   == store(img, n, p)
             free  == free_file_nums(img)
             mine  == {s \in free : Rank(free, s) <= extent_count(p)}
             root  == Nth(free, 1)
         IN  /\ \A s \in Slots \ mine : img.next[s] # 0 => img.next[s] \in Slots \ mine
             /\ \A r \in Slots \ mine :
                  chain(new, r) = chain(img, r) /\ chain(img, r) \subseteq Slots \ mine
             /\ chain(new, root) = mine
<1> DEFINE new   == store(img, n, p)
           free  == free_file_nums(img)
           count == extent_count(p)
           mine  == {s \in free : Rank(free, s) <= count}
           root  == Nth(free, 1)
           next(s) == Nth(free, Rank(free, s) + 1)
<1>1. IsImage(img) /\ Linked(img)
  BY DEF DInv
<1>2. new.next = [s \in Slots |-> IF s \notin mine THEN img.next[s]
                                 ELSE IF Rank(free, s) < count THEN next(s) ELSE 0]
  BY DEF store
<1> HIDE DEF new
<1>3. /\ free = Slots \ in_use(img)
      /\ root \in mine
      /\ \A s \in mine, t \in free \ mine : s < t
  BY StoreTakes
<1>4. \A s \in mine : Rank(free, s) < count => next(s) \in mine
  BY StoreTakes
<1>5. \A s \in mine : s # root => \E t \in mine : t < s /\ Rank(free, t) < count /\ next(t) = s
  BY StoreTakes
<1>6. mine \subseteq Slots /\ mine \cap in_use(img) = {} /\ \A s \in Slots : s \in Int /\ s # 0
  BY <1>3, SlotsAre
<1> HIDE DEF free, count, mine, root, next
<1>7. \A s \in Slots \ mine : img.next[s] # 0 => img.next[s] \in Slots \ mine
  <2> SUFFICES ASSUME NEW s \in Slots \ mine, img.next[s] # 0, img.next[s] \in mine PROVE FALSE
    BY <1>1 DEF IsImage
  <2>1. s \notin in_use(img)
    BY <1>1, <1>6 DEF Linked
  <2>2. s \in free \ mine
    BY <1>3, <2>1
  <2>3. img.next[s] < s
    BY <1>3, <2>2
  <2>4. img.next[s] > s
    BY <1>1 DEF Linked
  <2> QED
    BY <1>6, <2>3, <2>4
<1>8. ASSUME NEW r \in Slots \ mine
      PROVE  chain(new, r) = chain(img, r) /\ chain(img, r) \subseteq Slots \ mine
  <2>1. Closed(img, Slots \ mine)
    BY <1>6, <1>7 DEF Closed
  <2>2. chain(img, r) \subseteq Slots \ mine
    BY <2>1, ChainLeast
  <2>3. \A s \in Slots \ mine : new.next[s] = img.next[s]
    BY <1>2
  <2> QED
    BY <2>2, <2>3, ChainKept
<1>9. chain(new, root) = mine
  <2> DEFINE left == mine \ chain(new, root)
  <2>1. Closed(new, mine)
    BY <1>2, <1>4, <1>6 DEF Closed
  <2>2. chain(new, root) \subseteq mine
    BY <1>3, <1>6, <2>1, ChainLeast
  <2>3. root \in chain(new, root) /\ Closed(new, chain(new, root))
    BY <1>3, <1>6, ChainCloses
  <2>4. ASSUME left # {} PROVE FALSE
    <3>1. left \in SUBSET Int /\ IsFiniteSet(left)
      BY <1>6, SlotsAre, FS_Subset
    <3>2. PICK s \in left : \A t \in left : s <= t
      BY <2>4, <3>1, LeastExists
    <3>3. PICK t \in mine : t < s /\ Rank(free, t) < count /\ next(t) = s
      BY <1>5, <2>3
    <3>4. t \in chain(new, root)
      BY <1>6, <3>2, <3>3
    <3>5. new.next[t] = s
      BY <1>2, <1>6, <3>3
    <3> QED
      BY <1>6, <2>3, <3>4, <3>5 DEF Closed
  <2> QED
    BY <2>2, <2>4
<1> QED
  BY <1>7, <1>8, <1>9 DEF new, free, count, mine, root

\* A new file, of a name that no visible one has.
LEMMA StoreDInv ==
  ASSUME NEW img, DInv(img), NEW n \in Names, NEW p \in Payloads, has_room(img, p),
         \A s \in visible(img) : Fold[img.name[s]] # Fold[n]
  PROVE  DInv(store(img, n, p))
<1> DEFINE new    == store(img, n, p)
           free   == free_file_nums(img)
           blocks == free_blocks(img)
           count  == extent_count(p)
           mine   == {s \in free : Rank(free, s) <= count}
           root   == Nth(free, 1)
           next(s) == Nth(free, Rank(free, s) + 1)
           block(s) == Nth(blocks, Rank(free, s))
           length(i) == IF i = 1 THEN Length[p] ELSE AtMost(BlockSize, Length[p] - (i - 1) * BlockSize)
<1>1. IsImage(img) /\ Linked(img) /\ n # None
  BY DiskAssumption DEF DInv
<1>2. count \in Nat \ {0} /\ count * BlockSize >= Length[p] /\ Length[p] \in Nat /\ BlockSize \in Nat
  BY ExtentsHold, DiskAssumption
<1>3. /\ DOMAIN new = Fields
      /\ new.name = [s \in Slots |-> IF s \notin mine THEN img.name[s] ELSE IF s = root THEN n ELSE None]
      /\ new.flag = [s \in Slots |-> IF s \notin mine THEN img.flag[s] ELSE "inuse"]
      /\ new.block = [s \in Slots |-> IF s \notin mine THEN img.block[s] ELSE block(s)]
      /\ new.next = [s \in Slots |-> IF s \notin mine THEN img.next[s]
                                      ELSE IF Rank(free, s) < count THEN next(s) ELSE 0]
      /\ new.size = [s \in Slots |-> IF s \notin mine THEN img.size[s] ELSE length(Rank(free, s))]
      /\ new.bits = img.bits \cup mine
      /\ new.active = img.active + 1
  BY DEF store, Fields
<1>11. /\ \A s \in Slots \ mine : img.next[s] # 0 => img.next[s] \in Slots \ mine
       /\ \A r \in Slots \ mine :
            chain(new, r) = chain(img, r) /\ chain(img, r) \subseteq Slots \ mine
       /\ chain(new, root) = mine
  BY StoreChains
<1> HIDE DEF new
<1>4. /\ free = Slots \ in_use(img)
      /\ root \in mine /\ Rank(free, root) = 1
      /\ \A s \in mine : Rank(free, s) \in 1 .. count
      /\ \A s \in mine, t \in free \ mine : s < t
      /\ \A s, t \in mine : Rank(free, s) = Rank(free, t) => s = t
      /\ Cardinality(mine) = count
  BY StoreTakes
<1>5. \A s \in mine : Rank(free, s) < count =>
        next(s) \in mine /\ next(s) > s /\ next(s) # root /\ Rank(free, next(s)) = Rank(free, s) + 1
  BY StoreTakes
<1>6. \A s \in mine : s # root => \E t \in mine : t < s /\ Rank(free, t) < count /\ next(t) = s
  BY StoreTakes
<1>7. /\ \A s \in mine : block(s) \in Blocks \ allocated_blocks(img)
      /\ \A s, t \in mine : block(s) = block(t) => s = t
  BY <1>4, StoreBlocks
<1>8. (\A s \in mine : s \in Slots) /\ (\A s \in Slots : s \in Int /\ s # 0)
  BY <1>4, SlotsAre
<1> HIDE DEF free, blocks, count, mine, root, next, block
<1>25. \A i \in Int : length(i) \in Int
  BY <1>2 DEF AtMost
<1>26. length(1) = Length[p]
  OBVIOUS
<1> HIDE DEF length
<1>9. IsImage(new)
  <2>1. \A s \in mine : block(s) \in Int
    BY <1>7, SlotsAre
  <2>2. \A s \in mine : Rank(free, s) \in Int
    BY <1>4
  <2>3. \A s \in mine : length(Rank(free, s)) \in Int
    BY <1>25, <2>2
  <2>4. new.next \in [Slots -> Slots \cup {0}]
    BY <1>1, <1>3, <1>5, <1>8 DEF IsImage
  <2>5. new.size \in [Slots -> Int] /\ new.block \in [Slots -> Int]
    BY <1>1, <1>3, <2>1, <2>3 DEF IsImage
  <2>6. new.name \in [Slots -> Names \cup {None}] /\ new.flag \in [Slots -> {"blank", "inuse", "deleted"}]
    BY <1>1, <1>3 DEF IsImage
  <2> QED
    BY <1>1, <1>3, <1>8, <2>4, <2>5, <2>6 DEF IsImage
<1>10. in_use(new) = in_use(img) \cup mine /\ in_use(img) \cap mine = {}
  <2>1. \A s \in Slots : new.flag[s] = IF s \in mine THEN "inuse" ELSE img.flag[s]
    BY <1>3
  <2>2. \A s \in mine : s \notin in_use(img)
    BY <1>4 DEF mine
  <2> QED
    BY <1>8, <2>1, <2>2 DEF in_use
<1>12. \A s \in mine : new.next[s] # 0 =>
         new.next[s] \in mine /\ new.next[s] > s /\ new.next[s] # root
         /\ Rank(free, new.next[s]) = Rank(free, s) + 1
  BY <1>3, <1>5, <1>8
<1>13. \A s \in Slots \ mine : new.next[s] = img.next[s] /\ new.name[s] = img.name[s]
                              /\ new.block[s] = img.block[s] /\ new.size[s] = img.size[s]
  BY <1>3
<1>14. \A s \in mine : new.name[s] = IF s = root THEN n ELSE None
  BY <1>3, <1>8
<1>15. visible(new) = visible(img) \cup {root} /\ root \notin visible(img)
  BY <1>1, <1>4, <1>8, <1>10, <1>13, <1>14 DEF visible, in_use
<1>16. Linked(new)
  <2>1. \A s \in Slots : new.next[s] # 0 => new.next[s] > s /\ new.name[new.next[s]] = None
    BY <1>1, <1>11, <1>12, <1>13, <1>14 DEF Linked
  <2>2. ASSUME NEW s \in Slots, NEW t \in Slots, new.next[s] = new.next[t], new.next[s] # 0
        PROVE  s = t
    <3>1. CASE s \in mine /\ t \in mine
      <4>1. Rank(free, s) \in Int /\ Rank(free, t) \in Int
        BY <3>1, <1>4
      <4>2. Rank(free, s) = Rank(free, t)
        BY <2>2, <3>1, <4>1, <1>12
      <4> QED
        BY <3>1, <4>2, <1>4
    <3>2. CASE s \notin mine /\ t \notin mine
      BY <2>2, <3>2, <1>1, <1>13 DEF Linked
    <3>3. CASE (s \in mine) # (t \in mine)
      BY <2>2, <3>3, <1>11, <1>12, <1>13
    <3> QED
      BY <3>1, <3>2, <3>3
  <2>3. \A s \in in_use(new) : new.next[s] # 0 => new.next[s] \in in_use(new)
    BY <1>1, <1>8, <1>10, <1>12, <1>13 DEF Linked, in_use
  <2>4. new.bits = in_use(new)
    BY <1>1, <1>3, <1>10 DEF Linked
  <2> QED
    BY <2>1, <2>2, <2>3, <2>4 DEF Linked
<1>17. OwnBlocks(new, mine)
  BY <1>3, <1>7, <1>8 DEF OwnBlocks
<1>18. OwnBlocks(new, in_use(new))
  <2>1. \A s \in in_use(img) : new.block[s] = img.block[s]
    BY <1>10, <1>13 DEF in_use
  <2>2. \A s \in mine : new.block[s] \notin allocated_blocks(img)
    BY <1>3, <1>7, <1>8
  <2> QED
    BY <1>10, <1>17, <2>1, <2>2 DEF DInv, OwnBlocks, allocated_blocks
<1>20. Whole(new, root)
  <2>1. new.size[root] = Length[p]
    <3>1. root \in Slots /\ root \in mine
      BY <1>4, <1>8
    <3>2. new.size[root] = length(Rank(free, root))
      BY <1>3, <3>1
    <3> QED
      BY <1>4, <1>26, <3>2
  <2> QED
    BY <1>2, <1>4, <1>11, <1>17, <2>1 DEF Whole
<1>21. ASSUME NEW r \in Slots \ mine, img.name[r] # None PROVE Whole(new, r)
  <2>1. chain(new, r) = chain(img, r) /\ chain(img, r) \subseteq Slots \ mine
    BY <1>11
  <2>4. Whole(img, r)
    BY <1>21 DEF DInv
  <2> QED
    BY <1>13, <2>1, <2>4 DEF Whole, OwnBlocks
<1>22. \A r \in Slots : new.name[r] # None => Whole(new, r)
  BY <1>13, <1>14, <1>20, <1>21
<1>23. new.active = Cardinality(visible(new))
  <2>1. Cardinality(visible(img) \cup {root}) = Cardinality(visible(img)) + 1
    BY <1>15, VisibleFinite, FS_AddElement
  <2> QED
    BY <1>3, <1>15, <2>1 DEF DInv
<1>24. Unique(new)
  <2>1. \A s \in visible(img) : new.name[s] = img.name[s]
    BY <1>10, <1>13 DEF visible, in_use
  <2> QED
    BY <1>4, <1>14, <1>15, <2>1 DEF DInv, Unique
<1> QED
  BY <1>9, <1>16, <1>18, <1>22, <1>23, <1>24 DEF DInv, new

-----------------------------------------------------------------------------
(***************************************************************************)
(* Contents.  The lowest free entries and the lowest free blocks are       *)
(* paired in order, and both are freed together: so entry s only ever has  *)
(* the block at place(s).                                                  *)
(***************************************************************************)
place(s) == FirstBlock + s - 1

Placed(img) ==
  \A s \in Slots : img.flag[s] # "blank" => place(s) \in Blocks /\ img.block[s] = place(s)

\* Along the links from r are the extents of p.
Holds(img, r, p) ==
  /\ p \in Payloads /\ img.size[r] = Length[p]
  /\ \E w \in [1 .. extent_count(p) -> chain(img, r)] :
       /\ w[1] = r
       /\ \A i \in 1 .. extent_count(p) - 1 : img.next[w[i]] = w[i + 1]
       /\ \A i \in 1 .. extent_count(p) : img.data[place(w[i])] = <<p, i>>

\* A deleted file whose name is still there is as it was, and no entry of it is taken.
Kept(img, r) ==
  /\ \A s \in chain(img, r) : img.flag[s] # "blank"
  /\ r \notin in_use(img) => chain(img, r) \cap in_use(img) = {}
  /\ Holds(img, r, img.payload[r])

CInv(img) ==
  /\ DInv(img)
  /\ Placed(img)
  /\ \A r \in Slots : img.name[r] # None => Kept(img, r)

LEMMA CreateCInv == CInv(create)
<1>1. Placed(create)
  BY DEF Placed, create
<1>2. \A r \in Slots : create.name[r] = None
  BY DEF create
<1> QED
  BY <1>1, <1>2, CreateDInv DEF CInv

\* The i-th extent is found by following the links.
LEMMA ExtentIs ==
  ASSUME NEW img, NEW r, NEW k \in Nat, NEW w \in [1 .. k -> Slots], w[1] = r,
         \A i \in 1 .. k - 1 : img.next[w[i]] = w[i + 1],
         NEW i \in 1 .. k
  PROVE  extent(img, r, i) = w[i]
<1> DEFINE IsWalk(g) ==
             g = [j \in 1 .. i |-> IF j = 1 THEN r
                                   ELSE IF g[j - 1] \in Slots THEN img.next[g[j - 1]] ELSE 0]
           walk == CHOOSE g : IsWalk(g)
<1>1. extent(img, r, i) = walk[i]
  BY DEF extent
<1>2. IsWalk([j \in 1 .. i |-> w[j]])
  <2> DEFINE v == [j \in 1 .. i |-> w[j]]
  <2> SUFFICES ASSUME NEW j \in 1 .. i
               PROVE  v[j] = IF j = 1 THEN r
                             ELSE IF v[j - 1] \in Slots THEN img.next[v[j - 1]] ELSE 0
    OBVIOUS
  <2>1. CASE j = 1
    BY <2>1
  <2>2. CASE j # 1
    <3>1. j - 1 \in 1 .. i /\ j - 1 \in 1 .. k - 1 /\ (j - 1) + 1 = j
      BY <2>2
    <3>2. v[j - 1] = w[j - 1] /\ w[j - 1] \in Slots /\ v[j] = w[j]
      BY <3>1
    <3>3. img.next[w[j - 1]] = w[j]
      BY <3>1
    <3> QED
      BY <2>2, <3>2, <3>3
  <2> QED
    BY <2>1, <2>2
<1>3. IsWalk(walk)
  BY <1>2
<1> HIDE DEF walk
<1> DEFINE wrong == {j \in 1 .. i : walk[j] # w[j]}
<1>4. ASSUME wrong # {} PROVE FALSE
  <2>1. wrong \in SUBSET Int /\ IsFiniteSet(wrong)
    BY FS_Interval, FS_Subset
  <2>2. PICK j \in wrong : \A l \in wrong : j <= l
    BY <1>4, <2>1, LeastExists
  <2>3. walk[j] = IF j = 1 THEN r
                  ELSE IF walk[j - 1] \in Slots THEN img.next[walk[j - 1]] ELSE 0
    BY <1>3
  <2>4. j # 1
    BY <2>2, <2>3
  <2>5. j - 1 \in 1 .. i /\ j - 1 \in 1 .. k - 1 /\ (j - 1) + 1 = j /\ j - 1 \notin wrong
    BY <2>2, <2>4
  <2>6. walk[j - 1] = w[j - 1] /\ w[j - 1] \in Slots
    BY <2>5
  <2>7. img.next[w[j - 1]] = w[j]
    BY <2>5
  <2> QED
    BY <2>2, <2>3, <2>4, <2>6, <2>7
<1> QED
  BY <1>1, <1>4

\* A file with the same links and the same data is still there.
LEMMA HoldsStill ==
  ASSUME NEW img, NEW new, NEW r \in Slots, NEW p, Holds(img, r, p),
         new.size[r] = img.size[r],
         \A s \in chain(img, r) : /\ new.next[s] = img.next[s]
                                  /\ new.data[place(s)] = img.data[place(s)]
  PROVE  Holds(new, r, p)
<1>1. chain(new, r) = chain(img, r)
  BY ChainKept
<1>2. PICK w \in [1 .. extent_count(p) -> chain(img, r)] :
        /\ w[1] = r
        /\ \A i \in 1 .. extent_count(p) - 1 : img.next[w[i]] = w[i + 1]
        /\ \A i \in 1 .. extent_count(p) : img.data[place(w[i])] = <<p, i>>
  BY DEF Holds
<1>3. extent_count(p) \in Nat \ {0}
  BY ExtentsHold DEF Holds
<1>4. \A i \in 1 .. extent_count(p) - 1 : new.next[w[i]] = w[i + 1]
  <2> TAKE i \in 1 .. extent_count(p) - 1
  <2>1. i \in 1 .. extent_count(p)
    BY <1>3
  <2> QED
    BY <1>2, <2>1
<1>5. \A i \in 1 .. extent_count(p) : new.data[place(w[i])] = <<p, i>>
  BY <1>2
<1> QED
  BY <1>1, <1>2, <1>4, <1>5 DEF Holds

\* And none of its entries is taken or given back.
LEMMA KeptStill ==
  ASSUME NEW img, NEW new, NEW r \in Slots, Kept(img, r),
         new.size[r] = img.size[r], new.payload[r] = img.payload[r],
         \A s \in chain(img, r) : /\ new.next[s] = img.next[s]
                                  /\ new.data[place(s)] = img.data[place(s)]
                                  /\ new.flag[s] = img.flag[s]
  PROVE  Kept(new, r)
<1>1. chain(new, r) = chain(img, r) /\ r \in chain(img, r) /\ chain(img, r) \subseteq Slots
  BY ChainKept, ChainCloses
<1>2. \A s \in chain(img, r) : s \in in_use(new) <=> s \in in_use(img)
  BY <1>1 DEF in_use
<1>3. Holds(new, r, new.payload[r])
  BY HoldsStill DEF Kept
<1> QED
  BY <1>1, <1>2, <1>3 DEF Kept

\* Files have no entries in common.
LEMMA ChainsDisjoint ==
  ASSUME NEW img, IsImage(img), Linked(img), NEW r \in Slots, NEW t \in Slots, r # t,
         img.name[r] # None, img.name[t] # None
  PROVE  chain(img, t) \cap chain(img, r) = {}
<1>1. t \notin chain(img, r)
  BY ChainUnnamed
<1>2. Closed(img, Slots \ chain(img, r))
  BY ChainApart DEF Closed
<1>3. chain(img, t) \subseteq Slots \ chain(img, r)
  BY <1>1, <1>2, ChainLeast
<1> QED
  BY <1>3

LEMMA RenameCInv ==
  ASSUME NEW img, CInv(img), NEW n \in Names, NEW s \in visible(img), may_rename(img, s, n)
  PROVE  CInv([img EXCEPT !.name[s] = n])
<1> DEFINE new == [img EXCEPT !.name[s] = n]
<1>1. /\ s \in Slots /\ img.name[s] # None
      /\ DOMAIN img = Fields /\ img.name \in [Slots -> Names \cup {None}]
  BY DEF CInv, DInv, IsImage, visible, in_use
<1>2. /\ new.name = [img.name EXCEPT ![s] = n]
      /\ new.flag = img.flag /\ new.block = img.block /\ new.next = img.next
      /\ new.size = img.size /\ new.data = img.data /\ new.payload = img.payload
  BY <1>1 DEF Fields
<1>3. DInv(new)
  BY RenameDInv DEF CInv
<1> HIDE DEF new
<1>4. Placed(new)
  BY <1>2 DEF CInv, Placed
<1>5. \A r \in Slots : new.name[r] # None => Kept(new, r)
  <2> SUFFICES ASSUME NEW r \in Slots, new.name[r] # None PROVE Kept(new, r)
    OBVIOUS
  <2>1. img.name[r] # None
    BY <1>1, <1>2
  <2> QED
    BY <1>2, <2>1, KeptStill DEF CInv
<1> QED
  BY <1>3, <1>4, <1>5 DEF CInv, new

LEMMA DeleteCInv ==
  ASSUME NEW img, CInv(img), NEW r \in visible(img), NEW keep \in BOOLEAN
  PROVE  CInv(delete_entry(img, r, keep))
<1> DEFINE new == delete_entry(img, r, keep)
           C == chain(img, r)
<1>1. /\ IsImage(img) /\ Linked(img) /\ r \in Slots /\ img.name[r] # None
  BY DEF CInv, DInv, visible, in_use
<1>2. r \in C /\ C \subseteq Slots
  BY <1>1, ChainCloses
<1>3. /\ new.flag = [s \in Slots |-> IF s \in C THEN "deleted" ELSE img.flag[s]]
      /\ new.name = [s \in Slots |-> IF s \in C /\ ~ (s = r /\ keep) THEN None ELSE img.name[s]]
      /\ new.block = img.block /\ new.next = img.next /\ new.size = img.size
      /\ new.data = img.data /\ new.payload = img.payload
  BY <1>1 DEF IsImage, delete_entry, Fields
<1>4. DInv(new)
  BY DeleteDInv DEF CInv
<1> HIDE DEF new
<1>5. \A s \in C : img.flag[s] # "blank"
  BY <1>1 DEF CInv, Kept
<1>6. Placed(new)
  BY <1>2, <1>3, <1>5 DEF CInv, Placed
<1>7. Kept(new, r)
  <2>1. chain(new, r) = C
    BY <1>1, <1>3, ChainKept
  <2>2. C \cap in_use(new) = {} /\ \A s \in C : new.flag[s] # "blank"
    BY <1>2, <1>3 DEF in_use
  <2>3. Holds(new, r, new.payload[r])
    BY <1>1, <1>3, HoldsStill DEF CInv, Kept
  <2> QED
    BY <2>1, <2>2, <2>3 DEF Kept
<1>8. ASSUME NEW t \in Slots, t # r, img.name[t] # None PROVE Kept(new, t)
  <2>1. chain(img, t) \cap C = {} /\ chain(img, t) \subseteq Slots
    BY <1>1, <1>8, ChainsDisjoint, ChainCloses
  <2>2. \A s \in chain(img, t) : new.flag[s] = img.flag[s]
    BY <1>3, <2>1
  <2>3. Kept(img, t)
    BY <1>8 DEF CInv
  <2> QED
    BY <1>3, <2>2, <2>3, KeptStill
<1>9. \A t \in Slots : new.name[t] # None => img.name[t] # None
  BY <1>3
<1> QED
  BY <1>4, <1>6, <1>7, <1>8, <1>9 DEF CInv, new

LEMMA UndeleteCInv ==
  ASSUME NEW img, CInv(img), NEW n \in Names, NEW r \in deleted(img), finds(img, n, TRUE, r),
         may_undelete(img, r)
  PROVE  CInv(undelete(img, r))
<1> DEFINE new == undelete(img, r)
           C == chain(img, r)
<1>1. IsImage(img) /\ Linked(img) /\ r \in Slots /\ img.name[r] # None
  BY DEF CInv, DInv, deleted, finds, matches
<1>2. r \in C /\ C \subseteq Slots
  BY <1>1, ChainCloses
<1>3. /\ new.flag = [s \in Slots |-> IF s \in C THEN "inuse" ELSE img.flag[s]]
      /\ new.name = img.name
      /\ new.block = img.block /\ new.next = img.next /\ new.size = img.size
      /\ new.data = img.data /\ new.payload = img.payload
  BY <1>1 DEF IsImage, undelete, Fields
<1>4. DInv(new)
  BY UndeleteDInv DEF CInv
<1> HIDE DEF new
<1>5. \A s \in C : img.flag[s] # "blank"
  BY <1>1 DEF CInv, Kept
<1>6. Placed(new)
  BY <1>2, <1>3, <1>5 DEF CInv, Placed
<1>7. Kept(new, r)
  <2>1. chain(new, r) = C
    BY <1>1, <1>3, ChainKept
  <2>2. r \in in_use(new) /\ \A s \in C : new.flag[s] # "blank"
    BY <1>2, <1>3 DEF in_use
  <2>3. Holds(new, r, new.payload[r])
    BY <1>1, <1>3, HoldsStill DEF CInv, Kept
  <2> QED
    BY <2>1, <2>2, <2>3 DEF Kept
<1>8. ASSUME NEW t \in Slots, t # r, img.name[t] # None PROVE Kept(new, t)
  <2>1. chain(img, t) \cap C = {} /\ chain(img, t) \subseteq Slots
    BY <1>1, <1>8, ChainsDisjoint, ChainCloses
  <2>2. \A s \in chain(img, t) : new.flag[s] = img.flag[s]
    BY <1>3, <2>1
  <2>3. Kept(img, t)
    BY <1>8 DEF CInv
  <2> QED
    BY <1>3, <2>2, <2>3, KeptStill
<1> QED
  BY <1>3, <1>4, <1>6, <1>7, <1>8 DEF CInv, new

\* The free entries and the free blocks up to an entry's are as many.
LEMMA PlaceRank ==
  ASSUME NEW img, DInv(img), Placed(img), NEW s \in free_file_nums(img), place(s) \in Blocks
  PROVE  place(s) \in free_blocks(img)
         /\ Rank(free_blocks(img), place(s)) = Rank(free_file_nums(img), s)
<1> DEFINE free == free_file_nums(img)
           blocks == free_blocks(img)
           low == {y \in free : y <= s}
           under == {b \in blocks : b <= place(s)}
           f == [y \in low |-> place(y)]
<1>1. free = Slots \ in_use(img) /\ s \in Slots
  BY DEF free_file_nums, DInv, Linked
<1>2. blocks = Blocks \ {place(t) : t \in in_use(img)}
  BY DEF free_blocks, allocated_blocks, Placed, in_use
<1>3. EntryCount \in Int /\ FirstBlock \in Nat /\ BlockCount \in Int
  BY DiskAssumption
<1>4. \A y \in Slots : y \in Int /\ y >= 1 /\ y <= EntryCount - 1
  BY <1>3 DEF Slots
<1>5. \A y \in Slots, t \in Slots : place(y) = place(t) => y = t
  BY <1>3, <1>4 DEF place
<1> HIDE DEF free, blocks
<1>6. \A y \in low : place(y) \in under
  <2> TAKE y \in low
  <2>1. y \in Slots /\ y \notin in_use(img) /\ y <= s
    BY <1>1
  <2>2. place(y) \in Blocks /\ place(y) <= place(s)
    BY <1>1, <1>3, <1>4, <2>1 DEF place, Blocks
  <2>3. \A t \in in_use(img) : place(t) # place(y)
    BY <1>5, <2>1 DEF in_use
  <2> QED
    BY <1>2, <2>2, <2>3
<1>7. \A b \in under : \E y \in low : place(y) = b
  <2> TAKE b \in under
  <2> DEFINE y == b - FirstBlock + 1
  <2>1. b \in Blocks /\ b <= place(s) /\ b \in Int /\ b >= FirstBlock
    BY <1>2, <1>3 DEF Blocks
  <2>2. y \in Int /\ y >= 1 /\ y <= s
    BY <1>1, <1>3, <1>4, <2>1 DEF place
  <2>3. y \in Slots /\ place(y) = b
    BY <1>1, <1>3, <1>4, <2>1, <2>2 DEF Slots, place
  <2>4. y \notin in_use(img)
    BY <1>2, <2>3
  <2> QED
    BY <1>1, <2>2, <2>3, <2>4
<1>8. f \in Bijection(low, under)
  <2>1. \A y, t \in low : f[y] = f[t] => y = t
    BY <1>1, <1>5
  <2>2. f \in Injection(low, under)
    BY <1>6, <2>1 DEF Injection, IsInjective
  <2>3. f \in Surjection(low, under)
    BY <1>6, <1>7 DEF Surjection
  <2> QED
    BY <2>2, <2>3 DEF Bijection
<1>9. IsFiniteSet(low)
  BY <1>1, SlotsAre, FS_Subset
<1>10. Cardinality(low) = Cardinality(under)
  <2> HIDE DEF f, low, under
  <2> QED
    BY <1>8, <1>9, FS_Bijection DEF ExistsBijection
<1>11. s \in low
  BY <1>1, <1>4 DEF free
<1> QED
  BY <1>6, <1>10, <1>11 DEF Rank, free, blocks

\* The entries that an import takes get the blocks at their places, and no block at
\* the place of another entry is written.
LEMMA StorePlaces ==
  ASSUME NEW img, DInv(img), Placed(img), NEW p \in Payloads, has_room(img, p)
  PROVE  LET free  == free_file_nums(img)
             blocks == free_blocks(img)
             count == extent_count(p)
             mine  == {s \in free : Rank(free, s) <= count}
         IN  /\ \A s \in mine : /\ place(s) \in blocks
                                /\ Rank(blocks, place(s)) = Rank(free, s)
                                /\ Nth(blocks, Rank(free, s)) = place(s)
             /\ \A t \in Slots \ mine :
                  ~ (place(t) \in blocks /\ Rank(blocks, place(t)) <= count)
<1> DEFINE free == free_file_nums(img)
           blocks == free_blocks(img)
           count == extent_count(p)
           mine == {s \in free : Rank(free, s) <= count}
<1>1. free = Slots \ in_use(img)
  BY DEF free_file_nums, DInv, Linked
<1>2. blocks = Blocks \ {place(t) : t \in in_use(img)}
  BY DEF free_blocks, allocated_blocks, Placed, in_use
<1>3. EntryCount \in Int /\ FirstBlock \in Nat /\ BlockCount \in Int
  BY DiskAssumption
<1>4. \A y \in Slots : y \in Int /\ y >= 1 /\ y <= EntryCount - 1
  BY <1>3 DEF Slots
<1>5. /\ free \in SUBSET Int /\ IsFiniteSet(free)
      /\ blocks \in SUBSET Int /\ IsFiniteSet(blocks) /\ Cardinality(blocks) \in Nat
  BY <1>1, <1>2, SlotsAre, FS_Subset, FS_CardinalityType
<1>6. count \in Nat \ {0} /\ count <= Cardinality(blocks)
  BY ExtentsHold DEF has_room
<1>7. \A s \in mine : Rank(free, s) \in 1 .. count
  BY StoreTakes
<1>8. ASSUME NEW s \in free, place(s) \in Blocks
      PROVE  place(s) \in blocks /\ Rank(blocks, place(s)) = Rank(free, s)
  BY <1>8, PlaceRank
<1> HIDE DEF free, blocks, count
<1>9. ASSUME NEW s \in mine PROVE place(s) \in Blocks
  <2> SUFFICES ASSUME place(s) \notin Blocks PROVE FALSE
    OBVIOUS
  <2> DEFINE low == {y \in free : y <= s}
             g == [b \in blocks |-> b - FirstBlock + 1]
  <2>1. s \in free /\ s \in Slots
    BY <1>1
  <2>2. place(s) > BlockCount - 1
    BY <1>3, <1>4, <2>1 DEF place, Blocks
  <2>3. ASSUME NEW b \in blocks PROVE g[b] \in low \ {s}
    <3> DEFINE y == b - FirstBlock + 1
    <3>1. b \in Int /\ b >= FirstBlock /\ b <= BlockCount - 1 /\ b \notin {place(t) : t \in in_use(img)}
      BY <1>2, <1>3 DEF Blocks
    <3>2. y \in Int /\ y >= 1 /\ y < s /\ place(y) = b
      BY <1>3, <1>4, <2>1, <2>2, <3>1 DEF place
    <3>3. y \in Slots /\ y \notin in_use(img)
      BY <1>3, <1>4, <2>1, <3>1, <3>2 DEF Slots
    <3> QED
      BY <1>1, <1>4, <2>1, <3>2, <3>3
  <2>4. g \in Injection(blocks, low \ {s})
    <3>1. \A b, c \in blocks : g[b] = g[c] => b = c
      BY <1>3, <1>5
    <3> QED
      BY <2>3, <3>1 DEF Injection, IsInjective
  <2>5. IsFiniteSet(low) /\ s \in low
    BY <1>4, <1>5, <2>1, FS_Subset
  <2>6. IsFiniteSet(low \ {s}) /\ Cardinality(low \ {s}) = Cardinality(low) - 1
    BY <2>5, FS_RemoveElement
  <2>7. Cardinality(blocks) <= Cardinality(low) - 1
    BY <2>4, <2>6, FS_Injection
  <2>8. Cardinality(low) \in Nat /\ Cardinality(low) <= count
    BY <1>6, <1>7 DEF Rank
  <2> QED
    BY <1>5, <1>6, <2>7, <2>8
<1>10. ASSUME NEW s \in mine
       PROVE  /\ place(s) \in blocks
              /\ Rank(blocks, place(s)) = Rank(free, s)
              /\ Nth(blocks, Rank(free, s)) = place(s)
  <2>1. place(s) \in blocks /\ Rank(blocks, place(s)) = Rank(free, s)
    BY <1>8, <1>9
  <2>2. Rank(free, s) \in 1 .. Cardinality(blocks)
    BY <1>5, <1>6, <1>7
  <2>3. Nth(blocks, Rank(free, s)) \in blocks
        /\ Rank(blocks, Nth(blocks, Rank(free, s))) = Rank(free, s)
    BY <1>5, <2>2, NthRank
  <2>4. Nth(blocks, Rank(free, s)) = place(s)
    <3> DEFINE x == Nth(blocks, Rank(free, s))
    <3>1. x \in blocks /\ Rank(blocks, x) = Rank(blocks, place(s))
      BY <2>1, <2>3
    <3> HIDE DEF x
    <3>2. x = place(s)
      BY <1>5, <2>1, <3>1, RankOrder
    <3> QED
      BY <3>2 DEF x
  <2> QED
    BY <2>1, <2>4
<1>11. ASSUME NEW t \in Slots \ mine, place(t) \in blocks, Rank(blocks, place(t)) <= count
       PROVE  FALSE
  <2>1. t \in free
    BY <1>1, <1>2, <1>11
  <2>2. place(t) \in Blocks
    BY <1>2, <1>11
  <2>3. Rank(free, t) <= count
    BY <1>8, <1>11, <2>1, <2>2
  <2> QED
    BY <1>11, <2>1, <2>3
<1> QED
  BY <1>10, <1>11 DEF free, blocks, count

\* What is stored is there, and what was there before is not disturbed.
LEMMA StoreCInv ==
  ASSUME NEW img, CInv(img), NEW n \in Names, NEW p \in Payloads, has_room(img, p),
         \A s \in visible(img) : Fold[img.name[s]] # Fold[n]
  PROVE  CInv(store(img, n, p))
<1> DEFINE new    == store(img, n, p)
           free   == free_file_nums(img)
           blocks == free_blocks(img)
           count  == extent_count(p)
           mine   == {s \in free : Rank(free, s) <= count}
           root   == Nth(free, 1)
           next(s) == Nth(free, Rank(free, s) + 1)
<1>1. DInv(img) /\ Placed(img)
  BY DEF CInv
<1>2. count \in Nat \ {0} /\ count <= Cardinality(free)
  BY ExtentsHold DEF has_room
<1>3. /\ new.name = [s \in Slots |-> IF s \notin mine THEN img.name[s] ELSE IF s = root THEN n ELSE None]
      /\ new.flag = [s \in Slots |-> IF s \notin mine THEN img.flag[s] ELSE "inuse"]
      /\ new.block = [s \in Slots |-> IF s \notin mine THEN img.block[s] ELSE Nth(blocks, Rank(free, s))]
      /\ new.next = [s \in Slots |-> IF s \notin mine THEN img.next[s]
                                      ELSE IF Rank(free, s) < count THEN next(s) ELSE 0]
      /\ new.data = [b \in Blocks |-> IF b \in blocks /\ Rank(blocks, b) <= count
                                        THEN <<p, Rank(blocks, b)>> ELSE img.data[b]]
      /\ new.payload = [s \in Slots |-> IF s \notin mine THEN img.payload[s]
                                          ELSE IF s = root THEN p ELSE None]
      /\ \A s \in Slots \ mine : new.size[s] = img.size[s]
      /\ \A s \in Slots : s \in mine /\ Rank(free, s) = 1 => new.size[s] = Length[p]
  BY DEF store
<1>4. /\ \A r \in Slots \ mine :
           chain(new, r) = chain(img, r) /\ chain(img, r) \subseteq Slots \ mine
      /\ chain(new, root) = mine
  BY <1>1, StoreChains
<1>5. DInv(new)
  BY <1>1, StoreDInv
<1> HIDE DEF new
<1>6. /\ \A s \in mine : /\ place(s) \in blocks
                         /\ Rank(blocks, place(s)) = Rank(free, s)
                         /\ Nth(blocks, Rank(free, s)) = place(s)
      /\ \A t \in Slots \ mine : ~ (place(t) \in blocks /\ Rank(blocks, place(t)) <= count)
  BY <1>1, StorePlaces
<1>7. free = Slots \ in_use(img) /\ blocks \subseteq Blocks
  BY <1>1 DEF free_file_nums, free_blocks, DInv, Linked
<1>8. free \in SUBSET Int /\ IsFiniteSet(free) /\ Cardinality(free) \in Nat
  BY <1>7, SlotsAre, FS_Subset, FS_CardinalityType
<1>9. \A i \in 1 .. count : Nth(free, i) \in mine /\ Rank(free, Nth(free, i)) = i
  <2> TAKE i \in 1 .. count
  <2>1. i \in 1 .. Cardinality(free)
    BY <1>2, <1>8
  <2>2. Nth(free, i) \in free /\ Rank(free, Nth(free, i)) = i
    BY <1>8, <2>1, NthRank
  <2> QED
    BY <2>2
<1>10. \A s \in mine : s \in Slots /\ s \notin in_use(img)
  BY <1>7
<1>11. \A s \in mine : Rank(free, s) <= count
  OBVIOUS
<1>12. root \in mine /\ Rank(free, root) = 1
  BY <1>2, <1>9
<1> DEFINE w == [i \in 1 .. count |-> Nth(free, i)]
<1>13. /\ w \in [1 .. count -> mine] /\ w[1] = root
       /\ \A i \in 1 .. count : w[i] \in mine /\ Rank(free, w[i]) = i
       /\ \A i \in 1 .. count - 1 : next(w[i]) = w[i + 1]
  BY <1>2, <1>9
<1> HIDE DEF free, blocks, count, mine, root, next, w
<1>14. Placed(new)
  <2>1. ASSUME NEW s \in mine PROVE place(s) \in Blocks /\ new.block[s] = place(s)
    BY <1>3, <1>6, <1>7, <1>10
  <2>2. ASSUME NEW s \in Slots \ mine, new.flag[s] # "blank"
        PROVE  place(s) \in Blocks /\ new.block[s] = place(s)
    BY <1>1, <1>3, <2>2 DEF Placed
  <2> QED
    BY <2>1, <2>2 DEF Placed
<1>15. Holds(new, root, p)
  <2>1. new.size[root] = Length[p]
    BY <1>3, <1>10, <1>12
  <2>2. \A i \in 1 .. count - 1 : new.next[w[i]] = w[i + 1]
    <3> TAKE i \in 1 .. count - 1
    <3>1. i \in 1 .. count /\ i < count
      BY <1>2
    <3>2. w[i] \in mine /\ w[i] \in Slots /\ Rank(free, w[i]) < count
      BY <1>10, <1>13, <3>1
    <3>3. new.next[w[i]] = next(w[i])
      BY <1>3, <3>2
    <3> QED
      BY <1>13, <3>3
  <2>3. \A i \in 1 .. count : new.data[place(w[i])] = <<p, i>>
    <3> TAKE i \in 1 .. count
    <3>1. w[i] \in mine /\ Rank(free, w[i]) = i /\ i <= count
      BY <1>2, <1>13
    <3>2. place(w[i]) \in blocks /\ place(w[i]) \in Blocks /\ Rank(blocks, place(w[i])) = i
      BY <1>6, <1>7, <3>1
    <3> QED
      BY <1>3, <3>1, <3>2
  <2>4. w \in [1 .. count -> chain(new, root)]
    BY <1>4, <1>13
  <2> QED
    BY <1>13, <2>1, <2>2, <2>3, <2>4 DEF Holds, count
<1>16. Kept(new, root)
  <2>1. \A s \in mine : new.flag[s] = "inuse"
    BY <1>3, <1>10
  <2>2. root \in in_use(new) /\ root \in Slots
    BY <1>10, <1>12, <2>1 DEF in_use
  <2>3. new.payload[root] = p
    BY <1>3, <1>12, <2>2
  <2> QED
    BY <1>4, <1>15, <2>1, <2>2, <2>3 DEF Kept
<1>17. ASSUME NEW r \in Slots \ mine, img.name[r] # None PROVE Kept(new, r)
  <2>1. Kept(img, r)
    BY <1>17 DEF CInv
  <2>2. chain(img, r) \subseteq Slots \ mine
    BY <1>4
  <2>3. ASSUME NEW s \in chain(img, r)
        PROVE  /\ new.next[s] = img.next[s] /\ new.flag[s] = img.flag[s]
               /\ new.data[place(s)] = img.data[place(s)]
    <3>1. s \in Slots \ mine
      BY <2>2
    <3>2. place(s) \in Blocks
      BY <1>1, <2>1, <3>1 DEF Kept, Placed
    <3> QED
      BY <1>3, <1>6, <3>1, <3>2
  <2>4. new.size[r] = img.size[r] /\ new.payload[r] = img.payload[r]
    BY <1>3
  <2> QED
    BY <2>1, <2>3, <2>4, KeptStill
<1>18. \A r \in Slots : new.name[r] # None => Kept(new, r)
  BY <1>3, <1>16, <1>17
<1> QED
  BY <1>5, <1>14, <1>18 DEF CInv, new

\* An import, with or without a file that it replaces.
LEMMA ImportCInv ==
  ASSUME NEW img, CInv(img), NEW n \in Names, NEW p \in Payloads, NEW replace \in BOOLEAN,
         NEW new \in cmd_import(img, n, p, replace)
  PROVE  CInv(new)
<1>1. matches(img, n, FALSE) = {s \in visible(img) : Fold[img.name[s]] = Fold[n]}
  BY DEF matches, visible
<1>2. CASE \A s \in Slots : ~ finds(img, n, FALSE, s)
  <2>1. \A s \in visible(img) : Fold[img.name[s]] # Fold[n]
    <3> SUFFICES ASSUME NEW s \in visible(img), Fold[img.name[s]] = Fold[n] PROVE FALSE
      OBVIOUS
    <3>1. matches(img, n, FALSE) = {s}
      BY <1>1 DEF CInv, DInv, Unique
    <3> QED
      BY <1>2, <3>1, VisibleFinite DEF finds
  <2>2. has_room(img, p) /\ new = store(img, n, p)
    BY <1>2 DEF cmd_import
  <2> QED
    BY <2>1, <2>2, StoreCInv
<1>3. CASE \E s \in Slots : finds(img, n, FALSE, s)
  <2>1. PICK s \in Slots : /\ finds(img, n, FALSE, s)
                           /\ has_room(delete_entry(img, s, FALSE), p)
                           /\ new = store(delete_entry(img, s, FALSE), n, p)
    BY <1>3 DEF cmd_import
  <2> DEFINE base == delete_entry(img, s, FALSE)
  <2>2. s \in visible(img) /\ \A t \in visible(img) : t # s => Fold[img.name[t]] # Fold[n]
    BY <1>1, <2>1 DEF finds
  <2>3. CInv(base) /\ visible(base) = visible(img) \ {s}
        /\ \A t \in visible(base) : base.name[t] = img.name[t]
    BY <2>2, DeleteCInv, DeleteDInv DEF CInv
  <2> HIDE DEF base
  <2>4. \A t \in visible(base) : Fold[base.name[t]] # Fold[n]
    BY <2>2, <2>3
  <2> QED
    BY <2>1, <2>3, <2>4, StoreCInv DEF base
<1> QED
  BY <1>2, <1>3

-----------------------------------------------------------------------------
LEMMA FoundVisible ==
  ASSUME NEW img, NEW n, NEW s, finds(img, n, FALSE, s)
  PROVE  s \in visible(img)
BY DEF finds, matches, visible

LEMMA SavesCInv ==
  ASSUME NEW img, CInv(img), NEW new \in saves(img)
  PROVE  CInv(new)
<1>1. ASSUME NEW n \in Names, NEW p \in Payloads, NEW replace \in BOOLEAN,
             new \in cmd_import(img, n, p, replace)
      PROVE  CInv(new)
  BY <1>1, ImportCInv
<1>2. ASSUME NEW old \in Names, NEW n \in Names, new \in cmd_rename(img, old, n)
      PROVE  CInv(new)
  <2>1. PICK s \in Slots : finds(img, old, FALSE, s) /\ may_rename(img, s, n)
                           /\ new = [img EXCEPT !.name[s] = n]
    BY <1>2 DEF cmd_rename
  <2> QED
    BY <2>1, FoundVisible, RenameCInv
<1>3. ASSUME NEW n \in Names, new \in cmd_delete(img, n) PROVE CInv(new)
  <2>1. PICK s \in Slots : finds(img, n, FALSE, s) /\ new = delete_entry(img, s, TRUE)
    BY <1>3 DEF cmd_delete
  <2> QED
    BY <2>1, FoundVisible, DeleteCInv
<1>4. ASSUME NEW n \in Names, new \in cmd_undelete(img, n) PROVE CInv(new)
  <2>1. PICK s \in deleted(img) : finds(img, n, TRUE, s) /\ may_undelete(img, s)
                                   /\ new = undelete(img, s)
    BY <1>4 DEF cmd_undelete
  <2> QED
    BY <2>1, UndeleteCInv
<1> QED
  BY <1>1, <1>2, <1>3, <1>4 DEF saves

LEMMA NextSaves ==
  ASSUME Next
  PROVE  disk' = create \/ disk' \in saves(disk)
<1>1. ASSUME NEW n \in Names, NEW p \in Payloads, NEW replace \in BOOLEAN,
             disk' \in cmd_import(disk, n, p, replace)
      PROVE  disk' \in saves(disk)
  BY <1>1 DEF saves
<1>2. ASSUME NEW old \in Names, NEW n \in Names, disk' \in cmd_rename(disk, old, n)
      PROVE  disk' \in saves(disk)
  BY <1>2 DEF saves
<1>3. ASSUME NEW n \in Names, disk' \in cmd_delete(disk, n) \cup cmd_undelete(disk, n)
      PROVE  disk' \in saves(disk)
  <2> DEFINE I == {cmd_import(disk, m, p, over) : m \in Names, p \in Payloads, over \in BOOLEAN}
             R == {cmd_rename(disk, old, m) : old \in Names, m \in Names}
             S == {cmd_delete(disk, m) \cup cmd_undelete(disk, m) : m \in Names}
  <2>1. saves(disk) = UNION (I \cup R \cup S)
    BY DEF saves
  <2>2. cmd_delete(disk, n) \cup cmd_undelete(disk, n) \in S
    OBVIOUS
  <2> HIDE DEF I, R, S
  <2> QED
    BY <1>3, <2>1, <2>2
<1> QED
  BY <1>1, <1>2, <1>3 DEF Next, Import, Rename, Delete, Undelete, Format

IInv == CInv(disk)

LEMMA ImageInvariant == Spec => []IInv
<1>1. Init => IInv
  BY CreateCInv DEF Init, IInv
<1>2. IInv /\ [Next]_disk => IInv'
  BY NextSaves, SavesCInv, CreateCInv DEF IInv
<1> QED
  BY <1>1, <1>2, PTL DEF Spec

LEMMA CleanWhenCInv ==
  ASSUME NEW img, CInv(img)
  PROVE  check(img)
<1>1. \A s \in Slots : img.next[s] # 0 => img.name[img.next[s]] = None
  BY DEF CInv, DInv, Linked
<1>2. \A s \in visible(img) : Cardinality(chain(img, s)) * BlockSize >= img.size[s]
  BY DEF CInv, DInv, Whole, visible, in_use
<1> QED
  BY <1>1, <1>2 DEF CInv, DInv, Linked, OwnBlocks, check

\* Every entry that export reads is in use, and its block has the next part.
LEMMA ExportsWhenCInv ==
  ASSUME NEW img, CInv(img), NEW r \in visible(img)
  PROVE  exports(img, r, img.payload[r])
<1> DEFINE p == img.payload[r]
           k == extent_count(p)
<1>1. r \in Slots /\ r \in in_use(img) /\ Linked(img) /\ IsImage(img) /\ Kept(img, r)
  BY DEF visible, in_use, CInv, DInv
<1>2. p \in Payloads /\ img.size[r] = Length[p]
  BY <1>1 DEF Kept, Holds
<1>3. PICK w \in [1 .. k -> chain(img, r)] :
        /\ w[1] = r
        /\ \A i \in 1 .. k - 1 : img.next[w[i]] = w[i + 1]
        /\ \A i \in 1 .. k : img.data[place(w[i])] = <<p, i>>
  BY <1>1 DEF Kept, Holds
<1>4. k \in Nat
  BY <1>2, ExtentsHold
<1> HIDE DEF k, p
<1>5. chain(img, r) \subseteq in_use(img) /\ in_use(img) \subseteq Slots
  <2>1. Closed(img, in_use(img))
    BY <1>1, SlotsAre DEF Linked, Closed, in_use
  <2>2. in_use(img) \subseteq Slots
    BY DEF in_use
  <2> QED
    BY <1>1, <2>1, <2>2, ChainLeast
<1>6. w \in [1 .. k -> Slots]
  BY <1>5
<1>7. ASSUME NEW i \in 1 .. k
      PROVE  extent(img, r, i) \in in_use(img) /\ img.data[img.block[extent(img, r, i)]] = <<p, i>>
  <2>1. extent(img, r, i) = w[i]
    BY <1>3, <1>4, <1>6, ExtentIs
  <2>2. w[i] \in in_use(img) /\ img.block[w[i]] = place(w[i])
    BY <1>5 DEF CInv, Placed, in_use
  <2> QED
    BY <1>3, <2>1, <2>2
<1> QED
  BY <1>2, <1>7 DEF exports, p, k

LEMMA RestorableWhenCInv ==
  ASSUME NEW img, CInv(img), NEW r \in deleted(img), img.name[r] # None
  PROVE  may_undelete(img, r)
<1>1. r \in Slots /\ r \notin in_use(img) /\ Linked(img) /\ Kept(img, r)
  BY DEF deleted, in_use, CInv, DInv
<1>2. chain(img, r) \subseteq Slots /\ chain(img, r) \cap in_use(img) = {}
  BY <1>1, ChainCloses DEF Kept
<1>3. ASSUME NEW s \in chain(img, r), NEW t \in in_use(img), img.block[s] = img.block[t]
      PROVE  FALSE
  <2>1. s \in Slots /\ t \in Slots /\ s # t
    BY <1>2 DEF in_use
  <2>2. img.block[s] = place(s) /\ img.block[t] = place(t)
    BY <1>1, <2>1 DEF Kept, CInv, Placed, in_use
  <2>3. s \in Int /\ t \in Int /\ FirstBlock \in Int
    BY <2>1, SlotsAre, DiskAssumption
  <2>4. place(s) = place(t)
    BY <1>3, <2>2
  <2> QED
    BY <2>1, <2>3, <2>4 DEF place
<1> QED
  BY <1>1, <1>2, <1>3 DEF may_undelete, allocated_blocks, Linked

\* CheckClean: the check command never has a complaint about an image that this tool
\* has made.
THEOREM ChecksClean == Spec => []CheckClean
<1>1. IInv => CheckClean
  BY CleanWhenCInv DEF IInv, CheckClean
<1> QED
  BY <1>1, ImageInvariant, PTL

\* UniqueNames: no two files have one name, up to case.
THEOREM NamesUnique == Spec => []UniqueNames
<1>1. IInv => UniqueNames
  BY DEF IInv, CInv, DInv, Unique, UniqueNames
<1> QED
  BY <1>1, ImageInvariant, PTL

\* ReadsBack: export writes what import read, whatever was imported, replaced, deleted
\* and restored around it.
THEOREM FilesReadBack == Spec => []ReadsBack
<1>1. IInv => ReadsBack
  BY ExportsWhenCInv DEF IInv, ReadsBack
<1> QED
  BY <1>1, ImageInvariant, PTL

\* DeletedIsWhole: a deleted file of which the name is left has lost no entry and no
\* block, and undelete does not refuse it for that.
THEOREM DeletedRestorable == Spec => []DeletedIsWhole
<1>1. IInv => DeletedIsWhole
  BY RestorableWhenCInv DEF IInv, DeletedIsWhole
<1> QED
  BY <1>1, ImageInvariant, PTL
=============================================================================
