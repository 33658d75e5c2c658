--------------------------- MODULE Ext2BlockProofs ---------------------------
(***************************************************************************)
(* What the operators of Ext2 do to the blocks and the counts: the lemmas  *)
(* the theorems of Ext2Proofs rest on, for every size of the disk, of a    *)
(* group, of the tables and of a pointer block.                            *)
(***************************************************************************)
EXTENDS Ext2, FiniteSetTheorems, WellFoundedInduction, TLAPS

-----------------------------------------------------------------------------
(* Numbers and finite sets.                                                *)

LEMMA LeastNat ==
  ASSUME NEW T \in SUBSET Nat, T # {}
  PROVE  \E x \in T : \A y \in T : x <= y
<1>1. PICK x \in T : \A y \in T : ~ (<<y, x>> \in OpToRel(<, Nat))
  BY NatLessThanWellFounded, WFMin
<1>2. ASSUME NEW y \in T PROVE x <= y
  <2>1. ~ (y < x)
    BY <1>1 DEF OpToRel
  <2> QED BY <2>1
<1> QED BY <1>2

LEMMA SetInduction ==
  ASSUME NEW S, 0 \in S, \A n \in Nat : n \in S => n + 1 \in S
  PROVE  Nat \subseteq S
<1> SUFFICES ASSUME Nat \ S # {} PROVE FALSE
  OBVIOUS
<1>1. PICK n \in Nat \ S : \A m \in Nat \ S : n <= m
  BY LeastNat
<1>2. n - 1 \in Nat /\ n - 1 \in S
  BY <1>1
<1> QED BY <1>1, <1>2

LEMMA LeastOfIs ==
  ASSUME NEW S \in SUBSET Nat, S # {}
  PROVE  LeastOf(S) \in S /\ \A y \in S : LeastOf(S) <= y
BY LeastNat DEF LeastOf

LEMMA CardMinus ==
  ASSUME NEW S, IsFiniteSet(S), NEW T \in SUBSET S
  PROVE  Cardinality(S \ T) = Cardinality(S) - Cardinality(T)
<1>1. S \cap T = T
  OBVIOUS
<1> QED BY <1>1, FS_Difference

LEMMA CardPlus ==
  ASSUME NEW S, IsFiniteSet(S), NEW T, IsFiniteSet(T), S \cap T = {}
  PROVE  Cardinality(S \cup T) = Cardinality(S) + Cardinality(T)
<1>1. Cardinality(S \cap T) = 0
  BY FS_EmptySet
<1>2. Cardinality(S) \in Nat /\ Cardinality(T) \in Nat
  BY FS_CardinalityType
<1>3. IsFiniteSet(S) /\ IsFiniteSet(T)
  OBVIOUS
<1>4. Cardinality(S \cup T) = Cardinality(S) + Cardinality(T) - Cardinality(S \cap T)
  BY <1>3, FS_Union
<1> QED BY <1>1, <1>2, <1>4

(* What has every smaller number with it is an initial interval.           *)
LEMMA Downward ==
  ASSUME NEW n \in Nat, NEW T \in SUBSET (1 .. n),
         \A m \in T : \A k \in 1 .. n : k < m => k \in T
  PROVE  Cardinality(T) \in 0 .. n /\ T = 1 .. Cardinality(T)
<1> DEFINE U == {u \in Nat : \A m \in T : m <= u}
<1>1. n \in U
  OBVIOUS
<1>2. PICK u \in U : \A v \in U : u <= v
  BY <1>1, LeastNat
<1>3. T = 1 .. u
  <2>1. CASE u = 0
    BY <2>1
  <2>2. CASE u # 0
    <3>1. u - 1 \notin U /\ u - 1 \in Nat
      BY <1>2, <2>2
    <3>2. PICK m \in T : ~(m <= u - 1)
      BY <3>1
    <3>3. m = u
      BY <1>2, <3>2
    <3>4. u \in T /\ u \in 1 .. n
      BY <3>2, <3>3
    <3>5. \A k \in 1 .. u : k \in T
      BY <3>4
    <3>6. \A k \in T : k \in 1 .. u
      BY <1>2
    <3> QED BY <3>5, <3>6
  <2> QED BY <2>1, <2>2
<1>4. u <= n
  BY <1>1, <1>2
<1>5. Cardinality(1 .. u) = u
  BY FS_Interval
<1> QED BY <1>3, <1>4, <1>5

LEMMA NthIs ==
  ASSUME NEW S \in SUBSET Nat, IsFiniteSet(S), NEW k \in 1 .. Cardinality(S)
  PROVE  Nth(S, k) \in S /\ Cardinality({y \in S : y < Nth(S, k)}) = k - 1
<1>0. Cardinality(S) \in Nat /\ \A y \in S : y \in Nat
  BY FS_CardinalityType
<1> DEFINE Below(x) == {y \in S : y < x}
           I == {n \in Nat : n < Cardinality(S) => \E x \in S : Cardinality(Below(x)) = n}
<1>1. 0 \in I
  <2>1. CASE S = {}
    BY <2>1, FS_EmptySet
  <2>2. CASE S # {}
    <3>1. PICK x \in S : \A y \in S : x <= y
      BY <2>2, LeastNat
    <3>2. \A y \in S : ~(y < x)
      BY <1>0, <3>1
    <3>3. Below(x) = {}
      BY <3>2
    <3> QED BY <3>3, FS_EmptySet
  <2> QED BY <2>1, <2>2
<1>2. ASSUME NEW n \in Nat, n \in I PROVE n + 1 \in I
  <2> SUFFICES ASSUME n + 1 < Cardinality(S)
               PROVE  \E x \in S : Cardinality(Below(x)) = n + 1
    OBVIOUS
  <2>1. PICK x \in S : Cardinality(Below(x)) = n
    BY <1>0, <1>2
  <2> DEFINE D == Below(x) \cup {x}
  <2>2. IsFiniteSet(Below(x)) /\ x \notin Below(x)
    BY FS_Subset
  <2>3. Cardinality(D) = n + 1
    BY <2>1, <2>2, FS_AddElement
  <2>4. S \ D # {}
    <3>1. D \subseteq S
      OBVIOUS
    <3> QED BY <2>3, <3>1
  <2>5. PICK z \in S \ D : \A y \in S \ D : z <= y
    BY <2>4, LeastNat
  <2>6. \A y \in S : y < z <=> y \in D
    <3> SUFFICES ASSUME NEW y \in S PROVE y < z <=> y \in D
      OBVIOUS
    <3>1. x \in Nat /\ y \in Nat /\ z \in Nat /\ z # x /\ ~(z < x)
      BY <1>0, <2>5
    <3>2. y \in D <=> y <= x
      BY <3>1
    <3>3. y \notin D => z <= y
      BY <2>5
    <3> QED BY <3>1, <3>2, <3>3
  <2>7. Below(z) = D
    BY <2>6
  <2> QED BY <2>3, <2>5, <2>7
<1>3. k - 1 \in I
  <2>1. Nat \subseteq I
    <3> HIDE DEF I
    <3> QED BY <1>1, <1>2, SetInduction
  <2> QED BY <1>0, <2>1
<1>4. \E x \in S : Cardinality(Below(x)) = k - 1
  BY <1>0, <1>3
<1> QED BY <1>4 DEF Nth

(* The k-th smallest has k elements up to it.                              *)
LEMMA NthTurn ==
  ASSUME NEW S \in SUBSET Nat, IsFiniteSet(S), NEW k \in 1 .. Cardinality(S)
  PROVE  Cardinality({y \in S : y <= Nth(S, k)}) = k
<1> DEFINE x == Nth(S, k)
           B == {y \in S : y < x}
<1>1. x \in S /\ Cardinality(B) = k - 1
  BY NthIs
<1>2. IsFiniteSet(B)
  BY FS_Subset
<1>3. \A y \in S : y <= x <=> y \in B \cup {x}
  <2> SUFFICES ASSUME NEW y \in S PROVE y <= x <=> y \in B \cup {x}
    OBVIOUS
  <2>1. x \in Nat /\ y \in Nat
    BY <1>1
  <2> HIDE DEF x
  <2> QED BY <2>1
<1>4. {y \in S : y <= x} = B \cup {x}
  BY <1>1, <1>3
<1>5. x \notin B
  <2>1. x \in Nat
    BY <1>1
  <2> HIDE DEF x
  <2> QED BY <2>1
<1> HIDE DEF x, B
<1>6. Cardinality(B \cup {x}) = (k - 1) + 1
  BY <1>1, <1>2, <1>5, FS_AddElement
<1>7. k \in Int
  BY FS_CardinalityType
<1> QED BY <1>4, <1>6, <1>7 DEF x

LEMMA DivBelow ==
  ASSUME NEW n \in Nat \ {0}, NEW g \in Nat, NEW a \in Nat, a < g * n
  PROVE  a \div n \in 0 .. g - 1
OBVIOUS

(* The parts of the number m + n * c.                                      *)
LEMMA DivIs ==
  ASSUME NEW n \in Nat \ {0}, NEW c \in Nat, NEW m \in 0 .. n - 1
  PROVE  (c * n + m) \div n = c /\ (c * n + m) % n = m
OBVIOUS

LEMMA DivMod ==
  ASSUME NEW n \in Nat \ {0}, NEW a \in Nat
  PROVE  a \div n \in Nat /\ a % n \in 0 .. n - 1 /\ a = (a \div n) * n + (a % n)
OBVIOUS

LEMMA TimesNat ==
  ASSUME NEW m \in Nat, NEW n \in Nat
  PROVE  m * n \in Nat
OBVIOUS

LEMMA Positive ==
  /\ GroupCount \in Nat \ {0} /\ TableBlocks \in Nat \ {0} /\ InodesPerTable \in Nat \ {0}
  /\ Direct \in Nat \ {0} /\ PtrsPerBlock \in Nat \ {0} /\ BlockLen \in Nat
  /\ BlocksPerGroup \in Nat /\ BlocksPerGroup > 5 + TableBlocks
  /\ DiskBlocks \in Nat
BY Ext2Assumption

LEMMA GroupIn ==
  ASSUME NEW b \in Blocks
  PROVE  Group(b) \in Groups
<1>1. BlocksPerGroup \in Nat \ {0} /\ GroupCount \in Nat
  BY Positive
<1>2. b \in Nat /\ b < GroupCount * BlocksPerGroup
  BY <1>1 DEF Blocks
<1> QED BY <1>1, <1>2, DivBelow DEF Group, Groups

LEMMA InodeGroupIn ==
  ASSUME NEW i \in Inodes
  PROVE  inode_to_bgd(i) \in Groups
<1>1. InodesPerGroup \in Nat \ {0} /\ GroupCount \in Nat
  BY Positive DEF InodesPerGroup
<1>2. i - 1 \in Nat /\ i - 1 < GroupCount * InodesPerGroup
  BY <1>1 DEF Inodes
<1> QED BY <1>1, <1>2, DivBelow DEF inode_to_bgd, Groups

LEMMA FiniteSets ==
  /\ IsFiniteSet(Blocks) /\ Blocks \subseteq Nat
  /\ IsFiniteSet(Inodes) /\ Inodes \subseteq Nat \ {0}
<1>1. GroupCount * BlocksPerGroup \in Nat
  BY Positive, TimesNat
<1>2. InodesPerGroup \in Nat
  BY Positive, TimesNat DEF InodesPerGroup
<1>3. GroupCount * InodesPerGroup \in Nat
  BY <1>2, Positive, TimesNat
<1>4. IsFiniteSet(Blocks) /\ IsFiniteSet(Inodes)
  BY <1>1, <1>3, FS_Interval DEF Blocks, Inodes
<1>5. Blocks \subseteq Nat /\ Inodes \subseteq Nat \ {0}
  BY <1>1, <1>3 DEF Blocks, Inodes
<1> QED BY <1>4, <1>5

LEMMA SlotCount ==
  Cardinality(Slots) = Direct + 3
<1>1. Direct + 2 \in Nat
  BY Positive
<1>2. Cardinality(0 .. Direct + 2) = IF 0 > Direct + 2 THEN 0 ELSE (Direct + 2) - 0 + 1
  BY <1>1, FS_Interval
<1> QED BY <1>1, <1>2, Positive DEF Slots

(* The boot sector is the file system's own, the root's block is not.      *)
LEMMA BootAndRoot ==
  /\ Null \in Meta /\ Meta \subseteq Blocks
  /\ RootBlock \in Blocks /\ RootBlock \notin Meta /\ RootBlock # Null
  /\ Root \in Inodes
<1>1. GroupCount * BlocksPerGroup >= BlocksPerGroup
  BY Positive
<1>2. InodesPerGroup \in Nat \ {0}
  BY Positive DEF InodesPerGroup
<1>3. GroupCount * InodesPerGroup >= 1
  BY <1>2, Positive
<1>4. FirstData(0) = TableBlocks + 5
  BY Positive DEF FirstData
<1>5. TableBlocks + 5 \in Blocks /\ 0 \in Blocks
  BY <1>1, Positive DEF Blocks
<1>6. 0 \div BlocksPerGroup = 0 /\ (TableBlocks + 5) \div BlocksPerGroup = 0
  BY Positive
<1>7. Group(0) = 0 /\ Group(TableBlocks + 5) = 0
  BY <1>6 DEF Group
<1>8. 0 < FirstData(0) /\ ~(FirstData(0) < FirstData(0))
  BY <1>4, Positive
<1> QED BY <1>3, <1>4, <1>5, <1>7, <1>8, Positive DEF Meta, RootBlock, Null, Root, Inodes

-----------------------------------------------------------------------------
(* The state, with counts that may be anything, and what the counts count. *)

CountInts ==
  [blocks : [Groups -> Int], inodes : [Groups -> Int], dirs : [Groups -> Int],
   sblocks : Int, sinodes : Int]
FsInts ==
  [bmap : [Blocks -> BOOLEAN], imap : [Inodes -> BOOLEAN], inode : [Inodes -> InodeType],
   dir : [Blocks -> Seq(EntryType)], data : [Blocks -> {NoData} \cup (Datas \X Nat)],
   ptr : [Blocks -> Seq(Blocks)], count : CountInts, saved : CountInts]

Clear(f) == {b \in Blocks : ~f.bmap[b]}
Used(f)  == {i \in Inodes : f.imap[i]}

BlocksCounted(f) ==
  /\ \A g \in Groups : f.count.blocks[g] = Cardinality(InGroup(Clear(f), g))
  /\ f.count.sblocks = DiskBlocks - Cardinality(Blocks \ Clear(f))
InodesCounted(f) ==
  /\ \A g \in Groups :
       f.count.inodes[g] = Cardinality({i \in Inodes \ Used(f) : inode_to_bgd(i) = g})
  /\ f.count.sinodes = Cardinality(Inodes \ Used(f))
DirsIn(f, g) == {d \in Used(f) : IsDir(f, d) /\ inode_to_bgd(d) = g}
DirsCounted(f) == \A g \in Groups : f.count.dirs[g] = Cardinality(DirsIn(f, g))

Counted(f) == BlocksCounted(f) /\ InodesCounted(f) /\ DirsCounted(f)

LEMMA GroupFinite ==
  ASSUME NEW B \in SUBSET Blocks, NEW g
  PROVE  IsFiniteSet(B) /\ IsFiniteSet(InGroup(B, g))
         /\ Cardinality(B) \in Nat /\ Cardinality(InGroup(B, g)) \in Nat
<1>1. IsFiniteSet(B)
  BY FiniteSets, FS_Subset
<1>2. IsFiniteSet(InGroup(B, g))
  BY <1>1, FS_Subset DEF InGroup
<1> QED BY <1>1, <1>2, FS_CardinalityType

(* Clear blocks that are marked, and marked ones that are cleared, leave   *)
(* the counts exact when the counts follow.                                *)
LEMMA BlocksTaken ==
  ASSUME NEW f, NEW h, NEW B \in SUBSET Clear(f), BlocksCounted(f),
         Clear(h) = Clear(f) \ B,
         \A g \in Groups : h.count.blocks[g] = f.count.blocks[g] - Cardinality(InGroup(B, g)),
         h.count.sblocks = f.count.sblocks - Cardinality(B)
  PROVE  BlocksCounted(h)
<1>0. Clear(f) \subseteq Blocks /\ B \subseteq Blocks
  BY DEF Clear
<1>1. ASSUME NEW g \in Groups
      PROVE  Cardinality(InGroup(Clear(h), g))
               = Cardinality(InGroup(Clear(f), g)) - Cardinality(InGroup(B, g))
  <2>1. InGroup(Clear(h), g) = InGroup(Clear(f), g) \ InGroup(B, g)
    BY DEF InGroup
  <2>2. InGroup(B, g) \subseteq InGroup(Clear(f), g)
    BY DEF InGroup
  <2> QED BY <1>0, <2>1, <2>2, GroupFinite, CardMinus
<1>2. Cardinality(Blocks \ Clear(h)) = Cardinality(Blocks \ Clear(f)) + Cardinality(B)
  <2>1. Blocks \ Clear(h) = (Blocks \ Clear(f)) \cup B
    BY <1>0
  <2>2. (Blocks \ Clear(f)) \cap B = {}
    OBVIOUS
  <2>3. IsFiniteSet(Blocks \ Clear(f)) /\ IsFiniteSet(B)
    BY <1>0, GroupFinite
  <2> QED BY <2>1, <2>2, <2>3, CardPlus
<1>3. Cardinality(Blocks \ Clear(f)) \in Nat /\ Cardinality(B) \in Nat
  BY <1>0, GroupFinite
<1>4. DiskBlocks \in Nat
  BY Positive
<1>5. h.count.sblocks = DiskBlocks - Cardinality(Blocks \ Clear(h))
  <2>1. f.count.sblocks = DiskBlocks - Cardinality(Blocks \ Clear(f))
    BY DEF BlocksCounted
  <2> QED BY <1>2, <1>3, <1>4, <2>1
<1>6. \A g \in Groups : h.count.blocks[g] = Cardinality(InGroup(Clear(h), g))
  BY <1>1 DEF BlocksCounted
<1> QED BY <1>5, <1>6 DEF BlocksCounted

LEMMA BlocksReleased ==
  ASSUME NEW f, NEW h, NEW B \in SUBSET Blocks, B \cap Clear(f) = {}, BlocksCounted(f),
         Clear(h) = Clear(f) \cup B,
         \A g \in Groups : h.count.blocks[g] = f.count.blocks[g] + Cardinality(InGroup(B, g)),
         h.count.sblocks = f.count.sblocks + Cardinality(B)
  PROVE  BlocksCounted(h)
<1>0. Clear(f) \subseteq Blocks
  BY DEF Clear
<1>1. ASSUME NEW g \in Groups
      PROVE  Cardinality(InGroup(Clear(h), g))
               = Cardinality(InGroup(Clear(f), g)) + Cardinality(InGroup(B, g))
  <2>1. InGroup(Clear(h), g) = InGroup(Clear(f), g) \cup InGroup(B, g)
    BY DEF InGroup
  <2>2. InGroup(Clear(f), g) \cap InGroup(B, g) = {}
    BY DEF InGroup
  <2>3. IsFiniteSet(InGroup(Clear(f), g)) /\ IsFiniteSet(InGroup(B, g))
    BY <1>0, GroupFinite
  <2> QED BY <2>1, <2>2, <2>3, CardPlus
<1>2. Cardinality(Blocks \ Clear(h)) = Cardinality(Blocks \ Clear(f)) - Cardinality(B)
  <2>1. Blocks \ Clear(h) = (Blocks \ Clear(f)) \ B
    BY <1>0
  <2>2. B \subseteq Blocks \ Clear(f)
    OBVIOUS
  <2>3. IsFiniteSet(Blocks \ Clear(f))
    BY <1>0, GroupFinite
  <2> QED BY <2>1, <2>2, <2>3, CardMinus
<1>3. Cardinality(Blocks \ Clear(f)) \in Nat /\ Cardinality(B) \in Nat
  BY <1>0, GroupFinite
<1>4. DiskBlocks \in Nat
  BY Positive
<1>5. h.count.sblocks = DiskBlocks - Cardinality(Blocks \ Clear(h))
  <2>1. f.count.sblocks = DiskBlocks - Cardinality(Blocks \ Clear(f))
    BY DEF BlocksCounted
  <2> QED BY <1>2, <1>3, <1>4, <2>1
<1>6. \A g \in Groups : h.count.blocks[g] = Cardinality(InGroup(Clear(h), g))
  BY <1>1 DEF BlocksCounted
<1> QED BY <1>5, <1>6 DEF BlocksCounted

LEMMA InodeFinite ==
  ASSUME NEW I \in SUBSET Inodes, NEW g
  PROVE  LET J == {i \in I : inode_to_bgd(i) = g}
         IN  IsFiniteSet(I) /\ Cardinality(I) \in Nat
             /\ IsFiniteSet(J) /\ Cardinality(J) \in Nat
<1> DEFINE J == {i \in I : inode_to_bgd(i) = g}
<1>1. IsFiniteSet(I)
  BY FiniteSets, FS_Subset
<1>2. IsFiniteSet(J)
  BY <1>1, FS_Subset
<1> QED BY <1>1, <1>2, FS_CardinalityType

LEMMA InodeTaken ==
  ASSUME NEW f, NEW h, NEW i \in Inodes, i \notin Used(f), InodesCounted(f),
         Used(h) = Used(f) \cup {i},
         \A g \in Groups : h.count.inodes[g]
           = IF g = inode_to_bgd(i) THEN f.count.inodes[g] - 1 ELSE f.count.inodes[g],
         h.count.sinodes = f.count.sinodes - 1
  PROVE  InodesCounted(h)
<1> DEFINE Idle(x, g) == {j \in Inodes \ Used(x) : inode_to_bgd(j) = g}
<1>0. Used(f) \subseteq Inodes
  BY DEF Used
<1>1. ASSUME NEW g \in Groups, g = inode_to_bgd(i)
      PROVE  Cardinality(Idle(h, g)) = Cardinality(Idle(f, g)) - 1
  <2>1. Idle(h, g) = Idle(f, g) \ {i} /\ i \in Idle(f, g)
    BY <1>1
  <2>2. IsFiniteSet(Idle(f, g))
    BY InodeFinite
  <2> HIDE DEF Idle
  <2> QED BY <2>1, <2>2, FS_RemoveElement
<1>2. ASSUME NEW g \in Groups, g # inode_to_bgd(i) PROVE Idle(h, g) = Idle(f, g)
  BY <1>2
<1>3. Cardinality(Inodes \ Used(h)) = Cardinality(Inodes \ Used(f)) - 1
  <2> DEFINE S == Inodes \ Used(f)
             T == Inodes \ Used(h)
  <2>1. T = S \ {i} /\ i \in S
    OBVIOUS
  <2>2. IsFiniteSet(S)
    BY InodeFinite
  <2> HIDE DEF S, T
  <2>3. Cardinality(T) = Cardinality(S) - 1
    BY <2>1, <2>2, FS_RemoveElement
  <2> QED BY <2>3 DEF S, T
<1> QED BY <1>1, <1>2, <1>3 DEF InodesCounted

LEMMA InodeReleased ==
  ASSUME NEW f, NEW h, NEW i \in Used(f), InodesCounted(f),
         Used(h) = Used(f) \ {i},
         \A g \in Groups : h.count.inodes[g]
           = IF g = inode_to_bgd(i) THEN f.count.inodes[g] + 1 ELSE f.count.inodes[g],
         h.count.sinodes = f.count.sinodes + 1
  PROVE  InodesCounted(h)
<1> DEFINE Idle(x, g) == {j \in Inodes \ Used(x) : inode_to_bgd(j) = g}
<1>0. i \in Inodes
  BY DEF Used
<1>1. ASSUME NEW g \in Groups, g = inode_to_bgd(i)
      PROVE  Cardinality(Idle(h, g)) = Cardinality(Idle(f, g)) + 1
  <2>1. Idle(h, g) = Idle(f, g) \cup {i} /\ i \notin Idle(f, g)
    BY <1>0, <1>1
  <2>2. IsFiniteSet(Idle(f, g))
    BY InodeFinite
  <2> HIDE DEF Idle
  <2> QED BY <2>1, <2>2, FS_AddElement
<1>2. ASSUME NEW g \in Groups, g # inode_to_bgd(i) PROVE Idle(h, g) = Idle(f, g)
  BY <1>2
<1>3. Cardinality(Inodes \ Used(h)) = Cardinality(Inodes \ Used(f)) + 1
  <2> DEFINE S == Inodes \ Used(f)
             T == Inodes \ Used(h)
  <2>1. T = S \cup {i} /\ i \notin S
    BY <1>0
  <2>2. IsFiniteSet(S)
    BY InodeFinite
  <2> HIDE DEF S, T
  <2>3. Cardinality(T) = Cardinality(S) + 1
    BY <2>1, <2>2, FS_AddElement
  <2> QED BY <2>3 DEF S, T
<1> QED BY <1>1, <1>2, <1>3 DEF InodesCounted

LEMMA DirAdded ==
  ASSUME NEW f, NEW h, NEW i \in Inodes, i \notin Used(f), DirsCounted(f),
         Used(h) = Used(f) \cup {i}, IsDir(h, i),
         \A j \in Used(f) : IsDir(h, j) = IsDir(f, j),
         \A g \in Groups : h.count.dirs[g]
           = IF g = inode_to_bgd(i) THEN f.count.dirs[g] + 1 ELSE f.count.dirs[g]
  PROVE  DirsCounted(h)
<1>1. ASSUME NEW g \in Groups, g = inode_to_bgd(i)
      PROVE  Cardinality(DirsIn(h, g)) = Cardinality(DirsIn(f, g)) + 1
  <2>1. DirsIn(h, g) = DirsIn(f, g) \cup {i} /\ i \notin DirsIn(f, g)
    BY <1>1 DEF DirsIn
  <2>2. IsFiniteSet(DirsIn(f, g))
    BY FiniteSets, FS_Subset DEF DirsIn, Used
  <2> QED BY <2>1, <2>2, FS_AddElement
<1>2. ASSUME NEW g \in Groups, g # inode_to_bgd(i) PROVE DirsIn(h, g) = DirsIn(f, g)
  BY <1>2 DEF DirsIn
<1> QED BY <1>1, <1>2 DEF DirsCounted

LEMMA FileAdded ==
  ASSUME NEW f, NEW h, NEW i \in Inodes, i \notin Used(f), DirsCounted(f),
         Used(h) = Used(f) \cup {i}, ~IsDir(h, i),
         \A j \in Used(f) : IsDir(h, j) = IsDir(f, j),
         \A g \in Groups : h.count.dirs[g] = f.count.dirs[g]
  PROVE  DirsCounted(h)
<1>1. ASSUME NEW g \in Groups PROVE DirsIn(h, g) = DirsIn(f, g)
  BY DEF DirsIn
<1> QED BY <1>1 DEF DirsCounted

(* A directory that is counted is there to be taken off the count.         *)
LEMMA DirReleased ==
  ASSUME NEW f, NEW h, NEW i \in Used(f), DirsCounted(f),
         Used(h) = Used(f) \ {i},
         \A j \in Used(h) : IsDir(h, j) = IsDir(f, j),
         \A g \in Groups : h.count.dirs[g]
           = IF g = inode_to_bgd(i) THEN DirsLeft(f, i) ELSE f.count.dirs[g]
  PROVE  DirsCounted(h)
<1>0. Used(f) \subseteq Inodes /\ i \in Inodes
  BY DEF Used
<1>1. ASSUME NEW g \in Groups, g = inode_to_bgd(i)
      PROVE  Cardinality(DirsIn(h, g)) = DirsLeft(f, i)
  <2>1. IsFiniteSet(DirsIn(f, g)) /\ Cardinality(DirsIn(f, g)) \in Nat
    BY FiniteSets, FS_Subset, FS_CardinalityType DEF DirsIn, Used
  <2>2. f.count.dirs[g] = Cardinality(DirsIn(f, g))
    BY DEF DirsCounted
  <2>3. CASE IsDir(f, i)
    <3>1. DirsIn(h, g) = DirsIn(f, g) \ {i} /\ i \in DirsIn(f, g)
      BY <1>1, <2>3 DEF DirsIn
    <3>2. Cardinality(DirsIn(h, g)) = Cardinality(DirsIn(f, g)) - 1
      BY <2>1, <3>1, FS_RemoveElement
    <3>3. Cardinality(DirsIn(f, g)) > 0
      <4>1. DirsIn(f, g) # {}
        BY <3>1
      <4> QED BY <2>1, <4>1, FS_EmptySet
    <3> QED BY <1>1, <2>2, <2>3, <3>2, <3>3 DEF DirsLeft, IsDir
  <2>4. CASE ~IsDir(f, i)
    <3>1. DirsIn(h, g) = DirsIn(f, g)
      BY <2>4 DEF DirsIn
    <3> QED BY <1>1, <2>2, <2>4, <3>1 DEF DirsLeft, IsDir
  <2> QED BY <2>3, <2>4
<1>2. ASSUME NEW g \in Groups, g # inode_to_bgd(i) PROVE DirsIn(h, g) = DirsIn(f, g)
  BY <1>2 DEF DirsIn
<1> QED BY <1>1, <1>2 DEF DirsCounted

-----------------------------------------------------------------------------
(* What each step of the driver changes, field by field.                   *)

SameTables(f, h)   == h.imap = f.imap /\ h.inode = f.inode
SameContents(f, h) == h.dir = f.dir /\ h.data = f.data /\ h.ptr = f.ptr

LEMMA SyncMetadataIs ==
  ASSUME NEW f \in FsInts
  PROVE  LET h == SyncMetadata(f)
         IN  /\ h \in FsInts /\ h.bmap = f.bmap /\ SameTables(f, h) /\ SameContents(f, h)
             /\ h.count = f.count /\ h.saved = f.count
BY DEF SyncMetadata, FsInts, SameTables, SameContents

LEMMA SyncNodeIs ==
  ASSUME NEW f \in FsInts, NEW i \in Inodes, NEW node \in InodeType
  PROVE  LET h == SyncNode(f, i, node)
         IN  /\ h \in FsInts /\ h.bmap = f.bmap /\ h.imap = f.imap /\ SameContents(f, h)
             /\ h.inode = [f.inode EXCEPT ![i] = node]
             /\ h.count = f.count /\ h.saved = f.saved
BY DEF SyncNode, FsInts, SameContents

LEMMA PutDirIs ==
  ASSUME NEW f \in FsInts, NEW b \in Blocks, NEW entries \in Seq(EntryType)
  PROVE  LET h == PutDir(f, b, entries)
         IN  /\ h \in FsInts /\ h.bmap = f.bmap /\ SameTables(f, h)
             /\ h.dir = [f.dir EXCEPT ![b] = entries]
             /\ h.data = [f.data EXCEPT ![b] = NoData]
             /\ h.ptr = [f.ptr EXCEPT ![b] = <<>>]
             /\ h.count = f.count /\ h.saved = f.saved
<1>1. <<>> \in Seq(Blocks)
  OBVIOUS
<1> QED BY <1>1 DEF PutDir, FsInts, SameTables

LEMMA DirPut ==
  ASSUME NEW f \in FsInts, NEW b \in Blocks, NEW entries \in Seq(EntryType),
         NEW h, h = PutDir(f, b, entries)
  PROVE  /\ h \in FsInts /\ h.bmap = f.bmap /\ SameTables(f, h)
         /\ h.dir = [f.dir EXCEPT ![b] = entries]
         /\ h.data = [f.data EXCEPT ![b] = NoData]
         /\ h.ptr = [f.ptr EXCEPT ![b] = <<>>]
         /\ h.count = f.count /\ h.saved = f.saved
BY PutDirIs

LEMMA TakeBlocksIs ==
  ASSUME NEW f \in FsInts, NEW B \in SUBSET Blocks
  PROVE  LET h == TakeBlocks(f, B)
         IN  /\ h \in FsInts /\ SameTables(f, h) /\ SameContents(f, h) /\ h.saved = f.saved
             /\ h.bmap = [b \in Blocks |-> f.bmap[b] \/ b \in B]
             /\ h.count.blocks = [g \in Groups |-> f.count.blocks[g] - Cardinality(InGroup(B, g))]
             /\ h.count.sblocks = f.count.sblocks - Cardinality(B)
             /\ h.count.inodes = f.count.inodes /\ h.count.sinodes = f.count.sinodes
             /\ h.count.dirs = f.count.dirs
<1> DEFINE bs == [g \in Groups |-> f.count.blocks[g] - Cardinality(InGroup(B, g))]
           sb == f.count.sblocks - Cardinality(B)
           c  == [f.count EXCEPT !.blocks = bs, !.sblocks = sb]
           m  == [b \in Blocks |-> f.bmap[b] \/ b \in B]
<1>1. f.count \in CountInts
  BY DEF FsInts
<1>2. bs \in [Groups -> Int] /\ sb \in Int
  <2>1. Cardinality(B) \in Nat /\ \A g \in Groups : Cardinality(InGroup(B, g)) \in Nat
    BY GroupFinite
  <2> QED BY <1>1, <2>1 DEF CountInts
<1> HIDE DEF bs, sb
<1>3. c \in CountInts /\ c.blocks = bs /\ c.sblocks = sb /\ c.inodes = f.count.inodes
      /\ c.sinodes = f.count.sinodes /\ c.dirs = f.count.dirs
  BY <1>1, <1>2 DEF CountInts
<1>4. m \in [Blocks -> BOOLEAN]
  OBVIOUS
<1>5. TakeBlocks(f, B) = [f EXCEPT !.bmap = m, !.count = c]
  BY DEF TakeBlocks, bs, sb
<1> HIDE DEF c, m
<1>6. LET h == TakeBlocks(f, B)
      IN  h \in FsInts /\ SameTables(f, h) /\ SameContents(f, h) /\ h.saved = f.saved
          /\ h.bmap = m /\ h.count = c
  BY <1>3, <1>4, <1>5 DEF FsInts, SameTables, SameContents
<1> QED BY <1>3, <1>6 DEF bs, sb, m

LEMMA ReleaseBlocksIs ==
  ASSUME NEW f \in FsInts, NEW B \in SUBSET Blocks
  PROVE  LET h == ReleaseBlocks(f, B)
         IN  /\ h \in FsInts /\ SameTables(f, h) /\ h.saved = f.saved
             /\ h.bmap = [b \in Blocks |-> f.bmap[b] /\ b \notin B]
             /\ h.dir  = [b \in Blocks |-> IF b \in B THEN <<>> ELSE f.dir[b]]
             /\ h.data = [b \in Blocks |-> IF b \in B THEN NoData ELSE f.data[b]]
             /\ h.ptr  = [b \in Blocks |-> IF b \in B THEN <<>> ELSE f.ptr[b]]
             /\ h.count.blocks = [g \in Groups |-> f.count.blocks[g] + Cardinality(InGroup(B, g))]
             /\ h.count.sblocks = f.count.sblocks + Cardinality(B)
             /\ h.count.inodes = f.count.inodes /\ h.count.sinodes = f.count.sinodes
             /\ h.count.dirs = f.count.dirs
<1> DEFINE bs == [g \in Groups |-> f.count.blocks[g] + Cardinality(InGroup(B, g))]
           sb == f.count.sblocks + Cardinality(B)
           c  == [f.count EXCEPT !.blocks = bs, !.sblocks = sb]
           m  == [b \in Blocks |-> f.bmap[b] /\ b \notin B]
           di == [b \in Blocks |-> IF b \in B THEN <<>> ELSE f.dir[b]]
           da == [b \in Blocks |-> IF b \in B THEN NoData ELSE f.data[b]]
           pt == [b \in Blocks |-> IF b \in B THEN <<>> ELSE f.ptr[b]]
<1>1. f.count \in CountInts
  BY DEF FsInts
<1>2. bs \in [Groups -> Int] /\ sb \in Int
  <2>1. Cardinality(B) \in Nat /\ \A g \in Groups : Cardinality(InGroup(B, g)) \in Nat
    BY GroupFinite
  <2> QED BY <1>1, <2>1 DEF CountInts
<1> HIDE DEF bs, sb
<1>3. c \in CountInts /\ c.blocks = bs /\ c.sblocks = sb /\ c.inodes = f.count.inodes
      /\ c.sinodes = f.count.sinodes /\ c.dirs = f.count.dirs
  BY <1>1, <1>2 DEF CountInts
<1>4. <<>> \in Seq(EntryType) /\ <<>> \in Seq(Blocks)
  OBVIOUS
<1>5. /\ m \in [Blocks -> BOOLEAN] /\ di \in [Blocks -> Seq(EntryType)]
      /\ da \in [Blocks -> {NoData} \cup (Datas \X Nat)] /\ pt \in [Blocks -> Seq(Blocks)]
  BY <1>4 DEF FsInts
<1>6. ReleaseBlocks(f, B)
        = [f EXCEPT !.bmap = m, !.dir = di, !.data = da, !.ptr = pt, !.count = c]
  BY DEF ReleaseBlocks, bs, sb
<1> HIDE DEF c, m, di, da, pt
<1>7. LET h == ReleaseBlocks(f, B)
      IN  h \in FsInts /\ SameTables(f, h) /\ h.saved = f.saved
          /\ h.bmap = m /\ h.dir = di /\ h.data = da /\ h.ptr = pt /\ h.count = c
  BY <1>3, <1>5, <1>6 DEF FsInts, SameTables
<1> QED BY <1>3, <1>7 DEF bs, sb, m, di, da, pt

LEMMA TakeInodeIs ==
  ASSUME NEW f \in FsInts, NEW i \in Inodes
  PROVE  LET h == TakeInode(f, i)
         IN  /\ h \in FsInts /\ h.bmap = f.bmap /\ h.inode = f.inode /\ SameContents(f, h)
             /\ h.imap = [f.imap EXCEPT ![i] = TRUE] /\ h.saved = h.count
             /\ h.count.blocks = f.count.blocks /\ h.count.sblocks = f.count.sblocks
             /\ h.count.inodes = [f.count.inodes EXCEPT ![inode_to_bgd(i)]
                                    = f.count.inodes[inode_to_bgd(i)] - 1]
             /\ h.count.sinodes = f.count.sinodes - 1 /\ h.count.dirs = f.count.dirs
<1> DEFINE g  == inode_to_bgd(i)
           is == [f.count.inodes EXCEPT ![g] = f.count.inodes[g] - 1]
           si == f.count.sinodes - 1
           c  == [f.count EXCEPT !.inodes = is, !.sinodes = si]
           m  == [f.imap EXCEPT ![i] = TRUE]
           h  == [f EXCEPT !.imap = m, !.count = c]
<1>1. f.count \in CountInts /\ g \in Groups
  BY InodeGroupIn DEF FsInts
<1> HIDE DEF g
<1>2. is \in [Groups -> Int] /\ si \in Int
  BY <1>1 DEF CountInts
<1> HIDE DEF is, si
<1>3. c \in CountInts /\ c.inodes = is /\ c.sinodes = si /\ c.blocks = f.count.blocks
      /\ c.sblocks = f.count.sblocks /\ c.dirs = f.count.dirs
  BY <1>1, <1>2 DEF CountInts
<1>4. m \in [Inodes -> BOOLEAN]
  BY DEF FsInts
<1> HIDE DEF c, m
<1>5. h \in FsInts /\ h.bmap = f.bmap /\ h.inode = f.inode /\ SameContents(f, h)
      /\ h.imap = m /\ h.count = c
  BY <1>3, <1>4 DEF FsInts, SameContents
<1>6. TakeInode(f, i) = SyncMetadata(h)
  BY DEF TakeInode, c, m, is, si, g
<1> HIDE DEF h
<1>7. LET t == TakeInode(f, i)
      IN  t \in FsInts /\ t.bmap = h.bmap /\ SameTables(h, t) /\ SameContents(h, t)
          /\ t.count = h.count /\ t.saved = h.count
  BY <1>5, <1>6, SyncMetadataIs
<1> QED BY <1>3, <1>5, <1>7 DEF SameTables, SameContents, is, si, g, m

-----------------------------------------------------------------------------
(* An inode i gets node, and the blocks B, which were clear; nothing else  *)
(* changes but what B holds and the counts.                                *)
Filled(f, h, i, node, B) ==
  /\ h \in FsInts /\ node \in InodeType
  /\ B \subseteq Clear(f) /\ Clear(h) = Clear(f) \ B
  /\ h.imap = f.imap /\ h.inode = [f.inode EXCEPT ![i] = node]
  /\ \A b \in Blocks \ B :
       h.dir[b] = f.dir[b] /\ h.data[b] = f.data[b] /\ h.ptr[b] = f.ptr[b]
  /\ \A g \in Groups : h.count.blocks[g] = f.count.blocks[g] - Cardinality(InGroup(B, g))
  /\ h.count.sblocks = f.count.sblocks - Cardinality(B)
  /\ h.count.inodes = f.count.inodes /\ h.count.sinodes = f.count.sinodes

(* The pointers of an inode and its pointer blocks go no further than its  *)
(* length calls for.                                                       *)
Shape(f, i) ==
  LET n  == f.inode[i].blocks
      at == f.inode[i].block
  IN  /\ at[Direct + 2] = Null
      /\ \A s \in 0 .. Direct - 1 : at[s] # Null => s < n
      /\ at[Direct] # Null =>
           n > Direct /\ Len(f.ptr[at[Direct]]) <= Smaller(n, Single) - Direct
      /\ at[Direct + 1] # Null =>
           /\ n > Single /\ Len(f.ptr[at[Direct + 1]]) <= Chunks(n)
           /\ \A c \in 1 .. Len(f.ptr[at[Direct + 1]]) :
                LET b == f.ptr[at[Direct + 1]][c]
                IN  b # Null =>
                      Len(f.ptr[b]) <= Smaller(PtrsPerBlock, n - Single - (c - 1) * PtrsPerBlock)

(* A directory has no pointer block.                                       *)
DirShape(f, d) ==
  LET n  == f.inode[d].blocks
      at == f.inode[d].block
  IN  /\ n \in 1 .. Direct
      /\ \A s \in 0 .. n - 1 : at[s] # Null
      /\ \A s, t \in 0 .. n - 1 : at[s] = at[t] => s = t

LEMMA SlotKinds ==
  /\ Slots = (0 .. Direct - 1) \cup {Direct, Direct + 1, Direct + 2}
  /\ Direct \notin 0 .. Direct - 1 /\ Direct + 1 \notin 0 .. Direct - 1
  /\ Direct + 2 \notin 0 .. Direct - 1
  /\ Direct # Direct + 1 /\ Direct # Direct + 2 /\ Direct + 1 # Direct + 2
BY Positive DEF Slots

LEMMA FreeIsClear ==
  ASSUME NEW f, NEW g
  PROVE  FreeFrom(f, g) \subseteq Clear(f) /\ FreeFrom(f, g) \subseteq Blocks
BY DEF FreeFrom, Clear

LEMMA TakeClear ==
  ASSUME NEW f \in FsInts, NEW B \in SUBSET Blocks
  PROVE  Clear(TakeBlocks(f, B)) = Clear(f) \ B
<1>1. TakeBlocks(f, B).bmap = [b \in Blocks |-> f.bmap[b] \/ b \in B]
  BY TakeBlocksIs
<1>2. \A b \in Blocks : TakeBlocks(f, B).bmap[b] <=> (f.bmap[b] \/ b \in B)
  BY <1>1
<1> QED BY <1>2 DEF Clear

LEMMA DirTableType ==
  ASSUME NEW i \in Inodes, NEW parent \in Inodes
  PROVE  DirTable(i, parent) \in Seq(EntryType) /\ Len(DirTable(i, parent)) = 2
<1>1. RecLen[Dot] \in 1 .. BlockLen /\ RecLen[DotDot] \in 1 .. BlockLen
      /\ RecLen[Dot] + RecLen[DotDot] <= BlockLen /\ BlockLen \in Nat
  BY Ext2Assumption
<1>2. BlockLen - RecLen[Dot] \in 1 .. BlockLen
  BY <1>1
<1> DEFINE e1 == [ino |-> i, name |-> Dot, type |-> "dir", len |-> RecLen[Dot]]
           e2 == [ino |-> parent, name |-> DotDot, type |-> "dir", len |-> BlockLen - RecLen[Dot]]
<1>3. e1 \in EntryType /\ e2 \in EntryType
  BY <1>1, <1>2 DEF EntryType
<1> HIDE DEF e1, e2
<1>4. <<e1, e2>> \in Seq(EntryType) /\ Len(<<e1, e2>>) = 2
  BY <1>3
<1> QED BY <1>4 DEF DirTable, e1, e2

(* What init_directory_table and its caller leave behind.                  *)
DirMade(f, h, i, parent) ==
  LET node == h.inode[i]
      b    == node.block[0]
  IN  /\ Filled(f, h, i, node, {b})
      /\ h.count.dirs = [f.count.dirs EXCEPT ![inode_to_bgd(i)]
                           = f.count.dirs[inode_to_bgd(i)] + 1]
      /\ node.mode = "dir" /\ OwnedBlocks(h, i) = {b}
      /\ Shape(h, i) /\ DirShape(h, i) /\ node.blocks = 1
      /\ h.dir[b] = DirTable(i, parent)

LEMMA InitDirectoryFills ==
  ASSUME NEW f \in FsInts, NEW i \in Inodes, NEW parent \in Inodes,
         FreeFrom(f, inode_to_bgd(i)) # {}, Meta \cap Clear(f) = {}
  PROVE  DirMade(f, InitDirectory(f, i, parent), i, parent)
<1> DEFINE g     == inode_to_bgd(i)
           free  == FreeFrom(f, g)
           b     == LeastOf(free)
           taken == TakeBlocks(f, {b})
           at    == [Zeroed.block EXCEPT ![0] = b]
           node  == [mode |-> "dir", blocks |-> 1, block |-> at]
           put   == PutDir(taken, b, DirTable(i, parent))
           made  == SyncMetadata(put)
           c     == [made.count EXCEPT !.dirs = [made.count.dirs EXCEPT ![g] = made.count.dirs[g] + 1]]
           up    == [made EXCEPT !.count = c]
           h     == SyncNode(up, i, node)
<1>1. b \in free /\ b \in Clear(f) /\ b \in Blocks /\ b \notin Meta /\ b # Null
  <2>1. free \subseteq Nat /\ free # {}
    BY FreeIsClear, FiniteSets
  <2>2. b \in free
    BY <2>1, LeastOfIs
  <2> QED BY <2>2, FreeIsClear, BootAndRoot
<1> HIDE DEF free, b
<1>2. InitDirectory(f, i, parent) = h
  BY DEF InitDirectory, free, b
<1>3. at \in [Slots -> Blocks] /\ at[0] = b /\ \A s \in Slots \ {0} : at[s] = Null
  <2>1. Null \in Blocks
    BY BootAndRoot
  <2> QED BY <1>1, <2>1, SlotKinds, Positive DEF Zeroed
<1> HIDE DEF at
<1>4. node \in InodeType
  BY <1>3 DEF InodeType, Modes
<1>5. taken \in FsInts /\ SameTables(f, taken) /\ SameContents(f, taken)
      /\ Clear(taken) = Clear(f) \ {b}
      /\ taken.count.blocks = [x \in Groups |-> f.count.blocks[x] - Cardinality(InGroup({b}, x))]
      /\ taken.count.sblocks = f.count.sblocks - Cardinality({b})
      /\ taken.count.inodes = f.count.inodes /\ taken.count.sinodes = f.count.sinodes
      /\ taken.count.dirs = f.count.dirs
  <2>1. {b} \in SUBSET Blocks
    BY <1>1
  <2> HIDE DEF taken
  <2> QED BY <2>1, TakeBlocksIs, TakeClear DEF taken
<1> HIDE DEF taken
<1>6. put \in FsInts /\ SameTables(taken, put) /\ put.bmap = taken.bmap /\ put.count = taken.count
      /\ put.dir = [taken.dir EXCEPT ![b] = DirTable(i, parent)]
      /\ put.data = [taken.data EXCEPT ![b] = NoData]
      /\ put.ptr = [taken.ptr EXCEPT ![b] = <<>>]
  BY <1>1, <1>5, PutDirIs, DirTableType
<1> HIDE DEF put
<1>7. made \in FsInts /\ SameTables(put, made) /\ SameContents(put, made)
      /\ made.bmap = put.bmap /\ made.count = put.count
  BY <1>6, SyncMetadataIs
<1> HIDE DEF made
<1>8. g \in Groups /\ made.count \in CountInts
  BY <1>7, InodeGroupIn DEF FsInts
<1> HIDE DEF g
<1>9. c \in CountInts /\ c.dirs = [made.count.dirs EXCEPT ![g] = made.count.dirs[g] + 1]
      /\ c.blocks = made.count.blocks /\ c.sblocks = made.count.sblocks
      /\ c.inodes = made.count.inodes /\ c.sinodes = made.count.sinodes
  BY <1>8 DEF CountInts
<1> HIDE DEF c
<1>10. up \in FsInts /\ SameTables(made, up) /\ SameContents(made, up)
       /\ up.bmap = made.bmap /\ up.count = c
  BY <1>7, <1>9 DEF FsInts, SameTables, SameContents
<1> HIDE DEF up, node
<1>11. h \in FsInts /\ h.imap = up.imap /\ SameContents(up, h) /\ h.bmap = up.bmap
       /\ h.count = up.count /\ h.inode = [up.inode EXCEPT ![i] = node]
  BY <1>4, <1>10, SyncNodeIs
<1> HIDE DEF h
<1>12. h.imap = f.imap /\ h.inode = [f.inode EXCEPT ![i] = node] /\ h.inode[i] = node
       /\ h.dir = [f.dir EXCEPT ![b] = DirTable(i, parent)]
       /\ h.data = [f.data EXCEPT ![b] = NoData]
       /\ h.ptr = [f.ptr EXCEPT ![b] = <<>>]
  BY <1>5, <1>6, <1>7, <1>10, <1>11 DEF SameTables, SameContents, FsInts
<1>13. Clear(h) = Clear(f) \ {b}
  BY <1>5, <1>6, <1>7, <1>10, <1>11 DEF Clear
<1>14. /\ \A x \in Groups : h.count.blocks[x] = f.count.blocks[x] - Cardinality(InGroup({b}, x))
       /\ h.count.sblocks = f.count.sblocks - Cardinality({b})
       /\ h.count.inodes = f.count.inodes /\ h.count.sinodes = f.count.sinodes
       /\ h.count.dirs = [f.count.dirs EXCEPT ![g] = f.count.dirs[g] + 1]
  <2>1. h.count = c
    BY <1>10, <1>11
  <2>2. made.count = taken.count
    BY <1>6, <1>7
  <2>3. c.blocks = taken.count.blocks /\ c.sblocks = taken.count.sblocks
        /\ c.inodes = taken.count.inodes /\ c.sinodes = taken.count.sinodes
        /\ c.dirs = [taken.count.dirs EXCEPT ![g] = taken.count.dirs[g] + 1]
    BY <1>9, <2>2
  <2> QED BY <1>5, <2>1, <2>3
<1>15. \A x \in Blocks \ {b} :
         h.dir[x] = f.dir[x] /\ h.data[x] = f.data[x] /\ h.ptr[x] = f.ptr[x]
  BY <1>12 DEF FsInts
<1>16. h.dir[b] = DirTable(i, parent)
  BY <1>1, <1>12 DEF FsInts
<1>17. node.mode = "dir" /\ node.blocks = 1 /\ node.block = at /\ node.block[0] = b
  BY <1>3 DEF node
<1>18. Filled(f, h, i, node, {b})
  BY <1>1, <1>4, <1>11, <1>12, <1>13, <1>14, <1>15 DEF Filled
<1>19. 0 \in Slots /\ Direct \in Slots \ {0} /\ Direct + 1 \in Slots \ {0} /\ Direct + 2 \in Slots \ {0}
       /\ \A s \in 0 .. Direct - 1 : s \in Slots
  BY Positive DEF Slots
<1>20. OwnedBlocks(h, i) = {b}
  <2>1. {at[s] : s \in Slots} = {b, Null}
    BY <1>3, <1>19
  <2> QED BY <1>1, <1>3, <1>12, <1>17, <1>19, <2>1 DEF OwnedBlocks
<1>21. Shape(h, i)
  BY <1>3, <1>12, <1>17, <1>19 DEF Shape
<1>22. DirShape(h, i)
  BY <1>1, <1>3, <1>12, <1>17, Positive DEF DirShape
<1>23. DirMade(f, h, i, parent)
  BY <1>12, <1>14, <1>16, <1>17, <1>18, <1>20, <1>21, <1>22 DEF g, DirMade
<1> QED BY <1>2, <1>23

-----------------------------------------------------------------------------
(* The turns of an allocation.                                             *)

LEMMA TurnNumbers ==
  /\ Single \in Nat /\ Direct < Single /\ Single - Direct = PtrsPerBlock
  /\ IndAt \in Nat /\ IndAt = Direct + 1 /\ DblAt \in Nat /\ DblAt = Single + 2
BY Positive DEF Single, IndAt, DblAt

LEMMA TimesMono ==
  ASSUME NEW a \in Nat, NEW b \in Nat, NEW n \in Nat, a <= b
  PROVE  a * n <= b * n
OBVIOUS

LEMMA TimesSucc ==
  ASSUME NEW a \in Int, NEW n \in Int
  PROVE  (a + 1) * n = a * n + n /\ a * (n + 1) = a * n + a /\ (a - 1) * n = a * n - n
         /\ a * n \in Int
OBVIOUS

(* As many chunks as the blocks behind i_block[13] need.                   *)
LEMMA ChunksIs ==
  ASSUME NEW n \in Nat, n > Single
  PROVE  LET C == Chunks(n)
         IN  C \in Nat \ {0} /\ (C - 1) * PtrsPerBlock < n - Single
             /\ n - Single <= C * PtrsPerBlock
<1> DEFINE P == PtrsPerBlock
           a == n - Single + P - 1
           C == a \div P
           r == a % P
           x == C * P
<1>1. P \in Nat \ {0} /\ a \in Nat
  BY Positive, TurnNumbers
<1>2. Chunks(n) = C
  BY DEF Chunks
<1> HIDE DEF P, a
<1>3. C \in Nat /\ r \in 0 .. P - 1 /\ a = x + r
  BY <1>1, DivMod
<1> HIDE DEF C, r
<1>4. (C - 1) * P = x - P /\ x \in Int
  BY <1>1, <1>3, TimesSucc
<1>5. C = 0 => x = 0
  BY <1>1
<1> HIDE DEF x
<1>6. a = n - Single + P - 1 /\ n - Single >= 1 /\ n - Single \in Int
  BY TurnNumbers DEF a
<1>7. n - Single <= x /\ x - P < n - Single
  BY <1>1, <1>3, <1>4, <1>6
<1>8. C # 0
  BY <1>5, <1>6, <1>7
<1> QED BY <1>2, <1>3, <1>4, <1>7, <1>8 DEF P, x

LEMMA ChunkTurn ==
  ASSUME NEW k \in Nat, k > DblAt
  PROVE  ChunkOf(k) \in Nat /\ PlaceIn(k) \in 0 .. PtrsPerBlock
         /\ k = DblAt + 1 + ChunkOf(k) * (PtrsPerBlock + 1) + PlaceIn(k)
<1> DEFINE a == k - DblAt - 1
           q == PtrsPerBlock + 1
<1>1. a \in Nat /\ q \in Nat \ {0}
  BY TurnNumbers, Positive
<1>2. ChunkOf(k) = a \div q /\ PlaceIn(k) = a % q
  BY DEF ChunkOf, PlaceIn
<1>3. k = DblAt + 1 + a /\ q - 1 = PtrsPerBlock
  BY TurnNumbers, Positive
<1> HIDE DEF a
<1>4. a \div q \in Nat /\ a % q \in 0 .. q - 1 /\ a = (a \div q) * q + (a % q)
  <2> HIDE DEF q
  <2> QED BY <1>1, DivMod
<1>5. (a \div q) * q \in Int
  <2> HIDE DEF q
  <2> QED BY <1>1, <1>4, TimesSucc
<1> DEFINE y == (a \div q) * q
           z == a % q
<1>6. DblAt + 1 + y + z = DblAt + 1 + (y + z)
  <2>1. y \in Int /\ z \in Int
    BY <1>4, <1>5
  <2> HIDE DEF y, z
  <2> QED BY <2>1, TurnNumbers
<1> QED BY <1>2, <1>3, <1>4, <1>6

LEMMA TurnOfChunk ==
  ASSUME NEW c \in Nat, NEW m \in 0 .. PtrsPerBlock
  PROVE  LET k == DblAt + 1 + c * (PtrsPerBlock + 1) + m
         IN  k \in Nat /\ k > DblAt /\ ChunkOf(k) = c /\ PlaceIn(k) = m
<1> DEFINE q == PtrsPerBlock + 1
           x == c * q
           k == DblAt + 1 + x + m
<1>1. q \in Nat \ {0} /\ m \in 0 .. q - 1
  BY Positive
<1>2. (x + m) \div q = c /\ (x + m) % q = m
  <2> HIDE DEF q
  <2> QED BY <1>1, DivIs
<1>3. x \in Nat
  <2> HIDE DEF q
  <2> QED BY <1>1, TimesNat
<1> HIDE DEF x
<1>4. k \in Nat /\ k > DblAt /\ k - DblAt - 1 = x + m
  BY <1>3, TurnNumbers, Positive
<1> HIDE DEF k
<1>5. ChunkOf(k) = c /\ PlaceIn(k) = m
  BY <1>2, <1>4 DEF ChunkOf, PlaceIn
<1> QED BY <1>4, <1>5 DEF k, x

(* No turn goes to a chunk or a place in it that the file does not need.   *)
LEMMA ChunkNeeded ==
  ASSUME NEW n \in Nat, n > Single, NEW k \in Nat, k > DblAt, k <= n + 2 + Chunks(n)
  PROVE  /\ ChunkOf(k) < Chunks(n)
         /\ PlaceIn(k) <= n - Single - ChunkOf(k) * PtrsPerBlock
         /\ n - Single - ChunkOf(k) * PtrsPerBlock >= 1
<1> DEFINE P == PtrsPerBlock
           C == Chunks(n)
           N == n - Single
           c == ChunkOf(k)
           m == PlaceIn(k)
           x == c * P
           y == C * P
<1>1. P \in Nat \ {0} /\ N \in Nat \ {0}
  BY Positive, TurnNumbers
<1>2. C \in Nat \ {0} /\ y - P < N /\ N <= y
  <2>1. C \in Nat \ {0} /\ (C - 1) * P < N /\ N <= C * P
    BY ChunksIs
  <2> HIDE DEF C, N, P
  <2>2. (C - 1) * P = y - P
    BY <1>1, <2>1, TimesSucc
  <2> QED BY <2>1, <2>2
<1>3. c \in Nat /\ m \in 0 .. P /\ k = DblAt + 1 + c * (P + 1) + m
  BY ChunkTurn
<1> HIDE DEF c, m, C
<1>4. c * (P + 1) = x + c /\ x \in Int
  <2> HIDE DEF P
  <2> QED BY <1>1, <1>3, TimesSucc
<1>5. y \in Int
  <2> HIDE DEF P
  <2> QED BY <1>1, <1>2, TimesSucc
<1>6. c >= C => x >= y
  <2> HIDE DEF P
  <2> QED BY <1>1, <1>2, <1>3, TimesMono
<1>7. c + 1 <= C - 1 => x + P <= y - P
  <2> HIDE DEF P
  <2> SUFFICES ASSUME c + 1 <= C - 1 PROVE x + P <= y - P
    OBVIOUS
  <2>1. (c + 1) * P <= (C - 1) * P
    BY <1>1, <1>2, <1>3, TimesMono
  <2>2. (c + 1) * P = x + P /\ (C - 1) * P = y - P
    BY <1>1, <1>2, <1>3, TimesSucc
  <2> QED BY <2>1, <2>2
<1>8. c = C - 1 => x = y - P
  <2> HIDE DEF P
  <2>1. (C - 1) * P = y - P
    BY <1>1, <1>2, TimesSucc
  <2> QED BY <2>1
<1>9. x + c + m <= N + C - 1
  <2>1. k <= n + 2 + C
    BY DEF C
  <2> HIDE DEF P, x, y
  <2> QED BY <1>2, <1>3, <1>4, <2>1, TurnNumbers
<1> HIDE DEF P, x, y, N
<1>10. c < C
  BY <1>1, <1>2, <1>3, <1>4, <1>5, <1>6, <1>9
<1>11. c = C - 1 \/ c + 1 <= C - 1
  BY <1>2, <1>3, <1>10
<1>12. m <= N - x /\ N - x >= 1
  BY <1>1, <1>2, <1>3, <1>4, <1>5, <1>7, <1>8, <1>9, <1>11
<1> QED BY <1>10, <1>12 DEF P, C, N, c, m, x


LEMMA TurnsNeeded ==
  ASSUME NEW n \in Nat
  PROVE  /\ TurnsFor(n) \in Nat
         /\ IndAt <= TurnsFor(n) => n > Direct
         /\ DblAt <= TurnsFor(n) => n > Single /\ TurnsFor(n) = n + 2 + Chunks(n)
<1>1. CASE n <= Direct
  BY <1>1, TurnNumbers, Positive DEF TurnsFor
<1>2. CASE n > Direct /\ n <= Single
  BY <1>2, TurnNumbers, Positive DEF TurnsFor
<1>3. CASE n > Single
  <2>1. Chunks(n) \in Nat
    BY <1>3, ChunksIs
  <2> QED BY <1>3, <2>1, TurnNumbers, Positive DEF TurnsFor
<1> QED BY <1>1, <1>2, <1>3, TurnNumbers, Positive

(* How many turns PointedTurns(k, n) names.                                *)
PointedLen(k, n) ==
  IF k = IndAt THEN Smaller(n, Single) - Direct
  ELSE IF k = DblAt THEN Chunks(n)
  ELSE Smaller(PtrsPerBlock, n - Single - ChunkOf(k) * PtrsPerBlock)

LEMMA PointedIs ==
  ASSUME NEW n \in Nat, NEW k \in Nat, k <= TurnsFor(n), PointerTurn(k)
  PROVE  LET K == PointedTurns(k, n)
             L == PointedLen(k, n)
         IN  /\ L \in Nat /\ DOMAIN K = 1 .. L
             /\ \A m \in 1 .. L : K[m] \in Nat \ {0}
             /\ \A l, m \in 1 .. L : l < m => K[l] <= K[m]
<1> DEFINE K == PointedTurns(k, n)
           L == PointedLen(k, n)
<1>0. TurnsFor(n) \in Nat /\ IndAt < DblAt /\ IndAt \in Nat /\ DblAt \in Nat
  BY TurnsNeeded, TurnNumbers, Positive
<1>1. CASE k = IndAt
  <2>1. n > Direct
    BY <1>0, <1>1, TurnsNeeded
  <2>2. L = Smaller(n, Single) - Direct /\ K = [m \in 1 .. L |-> IndAt + m]
    BY <1>1 DEF PointedLen, PointedTurns
  <2>3. L \in Nat
    BY <2>1, <2>2, TurnNumbers, Positive DEF Smaller
  <2> HIDE DEF K, L
  <2> QED BY <2>2, <2>3, TurnNumbers DEF K, L
<1>2. CASE k = DblAt
  <2>1. n > Single
    BY <1>0, <1>2, TurnsNeeded
  <2>2. L = Chunks(n) /\ K = [c \in 1 .. L |-> DblAt + 1 + (c - 1) * (PtrsPerBlock + 1)]
    <3>1. k # IndAt
      BY <1>0, <1>2
    <3> QED BY <1>2, <3>1 DEF PointedLen, PointedTurns
  <2>3. L \in Nat
    BY <2>1, <2>2, ChunksIs
  <2> HIDE DEF K, L
  <2>4. ASSUME NEW c \in 1 .. L
        PROVE  (c - 1) * (PtrsPerBlock + 1) \in Nat
    <3>1. c - 1 \in Nat /\ PtrsPerBlock + 1 \in Nat
      BY <2>3, Positive
    <3> QED BY <3>1, TimesNat
  <2>5. ASSUME NEW l \in 1 .. L, NEW m \in 1 .. L, l < m
        PROVE  (l - 1) * (PtrsPerBlock + 1) <= (m - 1) * (PtrsPerBlock + 1)
    <3>1. l - 1 \in Nat /\ m - 1 \in Nat /\ l - 1 <= m - 1 /\ PtrsPerBlock + 1 \in Nat
      BY <2>3, <2>5, Positive
    <3> QED BY <3>1, TimesMono
  <2>6. \A m \in 1 .. L : K[m] \in Nat \ {0}
    BY <2>2, <2>4, TurnNumbers
  <2>7. \A l, m \in 1 .. L : l < m => K[l] <= K[m]
    <3> SUFFICES ASSUME NEW l \in 1 .. L, NEW m \in 1 .. L, l < m PROVE K[l] <= K[m]
      OBVIOUS
    <3> DEFINE x == (l - 1) * (PtrsPerBlock + 1)
               y == (m - 1) * (PtrsPerBlock + 1)
    <3>1. K[l] = DblAt + 1 + x /\ K[m] = DblAt + 1 + y
      BY <2>2
    <3>2. x \in Nat /\ y \in Nat /\ x <= y
      BY <2>4, <2>5
    <3> HIDE DEF x, y
    <3> QED BY <3>1, <3>2, TurnNumbers
  <2> QED BY <2>2, <2>3, <2>6, <2>7 DEF K, L
<1>3. CASE k > DblAt
  <2>1. n > Single /\ TurnsFor(n) = n + 2 + Chunks(n)
    <3>1. DblAt <= TurnsFor(n)
      BY <1>0, <1>3, TurnNumbers
    <3> QED BY <3>1, TurnsNeeded
  <2>2. n - Single - ChunkOf(k) * PtrsPerBlock >= 1
    BY <1>3, <2>1, ChunkNeeded
  <2>3. k # IndAt /\ k # DblAt
    BY <1>0, <1>3
  <2>4. L = Smaller(PtrsPerBlock, n - Single - ChunkOf(k) * PtrsPerBlock)
        /\ K = [m \in 1 .. L |-> k + m]
    BY <2>3 DEF PointedLen, PointedTurns
  <2>5. n - Single - ChunkOf(k) * PtrsPerBlock \in Int
    <3>1. ChunkOf(k) \in Nat
      BY <1>3, ChunkTurn
    <3>2. ChunkOf(k) * PtrsPerBlock \in Nat
      BY <3>1, Positive, TimesNat
    <3> QED BY <3>2, TurnNumbers
  <2>6. L \in Nat
    <3> DEFINE z == n - Single - ChunkOf(k) * PtrsPerBlock
    <3>1. z \in Int /\ z >= 1 /\ L = Smaller(PtrsPerBlock, z)
      BY <2>2, <2>4, <2>5
    <3> HIDE DEF z, L
    <3> QED BY <3>1, Positive DEF Smaller
  <2> HIDE DEF K, L
  <2> QED BY <2>4, <2>6 DEF K, L
<1> QED BY <1>1, <1>2, <1>3 DEF PointerTurn

(* Those of its pointers that got a block come first.                      *)
LEMMA GotIs ==
  ASSUME NEW n \in Nat, NEW k \in Nat, k <= TurnsFor(n), PointerTurn(k), NEW turns \in Nat
  PROVE  LET K   == PointedTurns(k, n)
             L   == PointedLen(k, n)
             got == Cardinality({m \in DOMAIN K : K[m] <= turns})
         IN  got \in 0 .. L /\ \A m \in 1 .. L : m <= got <=> K[m] <= turns
<1> DEFINE K == PointedTurns(k, n)
           L == PointedLen(k, n)
           T == {m \in DOMAIN K : K[m] <= turns}
<1>1. L \in Nat /\ DOMAIN K = 1 .. L /\ (\A m \in 1 .. L : K[m] \in Nat \ {0})
      /\ (\A l, m \in 1 .. L : l < m => K[l] <= K[m])
  BY PointedIs
<1> HIDE DEF K, L
<1>2. T \in SUBSET (1 .. L)
  BY <1>1
<1>3. \A m \in T : \A l \in 1 .. L : l < m => l \in T
  <2> SUFFICES ASSUME NEW m \in T, NEW l \in 1 .. L, l < m PROVE K[l] <= turns
    BY <1>1
  <2>1. m \in 1 .. L /\ K[m] <= turns /\ K[l] <= K[m] /\ K[l] \in Nat /\ K[m] \in Nat
    BY <1>1
  <2> QED BY <2>1
<1> HIDE DEF T
<1>4. Cardinality(T) \in 0 .. L /\ T = 1 .. Cardinality(T)
  BY <1>1, <1>2, <1>3, Downward
<1>5. \A m \in 1 .. L : m \in T <=> K[m] <= turns
  BY <1>1 DEF T
<1> QED BY <1>1, <1>4, <1>5 DEF T, K, L


Got(k, n, turns) ==
  Cardinality({m \in DOMAIN PointedTurns(k, n) : PointedTurns(k, n)[m] <= turns})

(* What an allocation of turns blocks, at[1], at[2] and so on, leaves for  *)
(* an inode of n blocks.                                                   *)
Laid(h, i, n, turns, at) ==
  /\ n \in Nat /\ turns \in Nat /\ turns <= TurnsFor(n)
  /\ at \in [1 .. turns -> Blocks \ {Null}]
  /\ h.inode[i].blocks = n
  /\ h.inode[i].block =
       [s \in Slots |-> IF s < Direct + 2 /\ SlotTurn(s) <= turns THEN at[SlotTurn(s)] ELSE Null]
  /\ \A k \in 1 .. turns : PointerTurn(k) =>
       h.ptr[at[k]] = [m \in 1 .. Got(k, n, turns) |-> at[PointedTurns(k, n)[m]]]

LEMMA LaidSlots ==
  ASSUME NEW h, NEW i, NEW n, NEW turns, NEW at, Laid(h, i, n, turns, at)
  PROVE  LET block == h.inode[i].block
         IN  /\ \A s \in 0 .. Direct - 1 : block[s] = IF s + 1 <= turns THEN at[s + 1] ELSE Null
             /\ block[Direct] = IF IndAt <= turns THEN at[IndAt] ELSE Null
             /\ block[Direct + 1] = IF DblAt <= turns THEN at[DblAt] ELSE Null
             /\ block[Direct + 2] = Null
<1>1. ASSUME NEW s \in 0 .. Direct - 1
      PROVE  s < Direct + 2 /\ SlotTurn(s) = s + 1 /\ s \in Slots
  <2>1. s \in Nat /\ s < Direct /\ Direct \in Nat
    BY Positive
  <2> QED BY <2>1 DEF SlotTurn, Slots
<1>2. Direct \in Slots /\ Direct < Direct + 2 /\ SlotTurn(Direct) = IndAt
  BY Positive DEF SlotTurn, Slots
<1>3. Direct + 1 \in Slots /\ Direct + 1 < Direct + 2 /\ SlotTurn(Direct + 1) = DblAt
  BY Positive DEF SlotTurn, Slots
<1>4. Direct + 2 \in Slots /\ ~(Direct + 2 < Direct + 2)
  BY Positive DEF Slots
<1>5. h.inode[i].block =
       [s \in Slots |-> IF s < Direct + 2 /\ SlotTurn(s) <= turns THEN at[SlotTurn(s)] ELSE Null]
  BY DEF Laid
<1> QED BY <1>1, <1>2, <1>3, <1>4, <1>5

LEMMA LaidPointers ==
  ASSUME NEW h, NEW i, NEW n, NEW turns, NEW at, Laid(h, i, n, turns, at),
         NEW k \in 1 .. turns, PointerTurn(k)
  PROVE  LET p == h.ptr[at[k]]
             K == PointedTurns(k, n)
         IN  /\ Len(p) \in 0 .. PointedLen(k, n) /\ DOMAIN p = 1 .. Len(p)
             /\ \A m \in 1 .. Len(p) : K[m] \in 1 .. turns /\ p[m] = at[K[m]]
             /\ \A m \in 1 .. PointedLen(k, n) : K[m] <= turns => m \in 1 .. Len(p)
<1> DEFINE p == h.ptr[at[k]]
           K == PointedTurns(k, n)
           L == PointedLen(k, n)
           G == Got(k, n, turns)
<1>0. n \in Nat /\ turns \in Nat /\ turns <= TurnsFor(n) /\ k \in Nat
  BY DEF Laid
<1>1. k <= TurnsFor(n)
  BY <1>0, TurnsNeeded
<1>2. L \in Nat /\ \A m \in 1 .. L : K[m] \in Nat \ {0}
  BY <1>0, <1>1, PointedIs
<1>3. G \in 0 .. L /\ \A m \in 1 .. L : m <= G <=> K[m] <= turns
  BY <1>0, <1>1, GotIs DEF Got
<1>4. p = [m \in 1 .. G |-> at[K[m]]]
  BY DEF Laid
<1> HIDE DEF p, K, L, G
<1>5. Len(p) = G /\ DOMAIN p = 1 .. G
  BY <1>2, <1>3, <1>4
<1>6. \A m \in 1 .. G : m \in 1 .. L
  BY <1>2, <1>3
<1>7. \A m \in 1 .. G : K[m] \in 1 .. turns /\ p[m] = at[K[m]]
  BY <1>0, <1>2, <1>3, <1>4, <1>6
<1>8. \A m \in 1 .. L : K[m] <= turns => m \in 1 .. G
  BY <1>2, <1>3
<1> QED BY <1>3, <1>5, <1>7, <1>8 DEF p, K, L, G

(* The pointer blocks behind i_block[13].                                  *)
LEMMA LaidChunks ==
  ASSUME NEW h, NEW i, NEW n, NEW turns, NEW at, Laid(h, i, n, turns, at), DblAt <= turns,
         NEW c \in 1 .. Len(h.ptr[at[DblAt]])
  PROVE  LET k == PointedTurns(DblAt, n)[c]
         IN  /\ c - 1 \in Nat /\ k \in 1 .. turns /\ h.ptr[at[DblAt]][c] = at[k]
             /\ k = DblAt + 1 + (c - 1) * (PtrsPerBlock + 1)
             /\ PointerTurn(k) /\ ChunkOf(k) = c - 1 /\ k > DblAt
             /\ PointedLen(k, n) = Smaller(PtrsPerBlock, n - Single - (c - 1) * PtrsPerBlock)
             /\ PointedTurns(k, n) = [m \in 1 .. PointedLen(k, n) |-> k + m]
<1> DEFINE p == h.ptr[at[DblAt]]
           k == PointedTurns(DblAt, n)[c]
<1>0. n \in Nat /\ turns \in Nat /\ DblAt \in 1 .. turns /\ PointerTurn(DblAt)
      /\ IndAt < DblAt /\ IndAt \in Nat /\ DblAt \in Nat
  BY TurnNumbers, Positive DEF Laid, PointerTurn
<1>1. Len(p) \in 0 .. PointedLen(DblAt, n) /\ k \in 1 .. turns /\ p[c] = at[k]
  BY <1>0, LaidPointers
<1>2. IndAt # DblAt
  BY <1>0
<1>3. PointedTurns(DblAt, n) = [d \in 1 .. Chunks(n) |-> DblAt + 1 + (d - 1) * (PtrsPerBlock + 1)]
      /\ PointedLen(DblAt, n) = Chunks(n)
  BY <1>2 DEF PointedTurns, PointedLen
<1>4. turns <= TurnsFor(n)
  BY DEF Laid
<1>5. n > Single
  <2>1. DblAt <= TurnsFor(n)
    BY <1>0, <1>4, TurnsNeeded
  <2> QED BY <1>0, <2>1, TurnsNeeded
<1>6. Chunks(n) \in Nat
  BY <1>0, <1>5, ChunksIs
<1>7. c \in 1 .. Chunks(n) /\ c - 1 \in Nat
  <2> HIDE DEF p
  <2>1. c \in 1 .. Len(p)
    BY DEF p
  <2> QED BY <1>1, <1>3, <1>6, <2>1
<1>8. k = DblAt + 1 + (c - 1) * (PtrsPerBlock + 1)
  BY <1>3, <1>7
<1>9. ChunkOf(k) = c - 1 /\ PlaceIn(k) = 0 /\ k > DblAt
  <2> DEFINE d == c - 1
             x == d * (PtrsPerBlock + 1)
  <2>1. LET j == DblAt + 1 + x + 0
        IN  j \in Nat /\ j > DblAt /\ ChunkOf(j) = d /\ PlaceIn(j) = 0
    <3>1. d \in Nat /\ 0 \in 0 .. PtrsPerBlock
      BY <1>7, Positive
    <3> HIDE DEF d
    <3> QED BY <3>1, TurnOfChunk
  <2>2. x \in Nat
    <3>1. PtrsPerBlock + 1 \in Nat
      BY Positive
    <3> QED BY <1>7, <3>1, TimesNat
  <2>3. DblAt + 1 + x + 0 = k
    <3> HIDE DEF x
    <3> QED BY <1>0, <1>8, <2>2 DEF x
  <2> QED BY <2>1, <2>3
<1> HIDE DEF k
<1>10. k # IndAt /\ k # DblAt /\ k \in Nat
  BY <1>0, <1>1, <1>9
<1>11. PointerTurn(k)
  BY <1>9 DEF PointerTurn
<1>12. PointedLen(k, n) = Smaller(PtrsPerBlock, n - Single - (c - 1) * PtrsPerBlock)
       /\ PointedTurns(k, n) = [m \in 1 .. PointedLen(k, n) |-> k + m]
  BY <1>9, <1>10 DEF PointedTurns, PointedLen
<1> QED BY <1>1, <1>7, <1>8, <1>9, <1>11, <1>12 DEF k, p

LEMMA LaidShape ==
  ASSUME NEW h, NEW i, NEW n, NEW turns, NEW at, Laid(h, i, n, turns, at)
  PROVE  Shape(h, i)
<1> DEFINE block == h.inode[i].block
<1>0. n \in Nat /\ turns \in Nat /\ turns <= TurnsFor(n) /\ TurnsFor(n) \in Nat
      /\ h.inode[i].blocks = n
  BY TurnsNeeded DEF Laid
<1>1. /\ \A s \in 0 .. Direct - 1 : block[s] = IF s + 1 <= turns THEN at[s + 1] ELSE Null
      /\ block[Direct] = IF IndAt <= turns THEN at[IndAt] ELSE Null
      /\ block[Direct + 1] = IF DblAt <= turns THEN at[DblAt] ELSE Null
      /\ block[Direct + 2] = Null
  BY LaidSlots
<1> HIDE DEF block
<1>2. ASSUME NEW s \in 0 .. Direct - 1, block[s] # Null PROVE s < n
  <2>1. s + 1 <= turns
    BY <1>1, <1>2
  <2>2. CASE n <= Direct
    BY <1>0, <2>1, <2>2, Positive DEF TurnsFor
  <2>3. CASE n > Direct
    BY <1>0, <2>3, Positive
  <2> QED BY <1>0, <2>2, <2>3, Positive
<1>3. ASSUME block[Direct] # Null
      PROVE  n > Direct /\ Len(h.ptr[block[Direct]]) <= Smaller(n, Single) - Direct
  <2>1. IndAt <= turns /\ block[Direct] = at[IndAt]
    BY <1>1, <1>3
  <2>2. IndAt \in 1 .. turns /\ PointerTurn(IndAt) /\ IndAt <= TurnsFor(n)
    BY <1>0, <2>1, TurnNumbers, Positive DEF PointerTurn
  <2>3. n > Direct
    BY <1>0, <2>2, TurnsNeeded
  <2>4. Len(h.ptr[at[IndAt]]) \in 0 .. PointedLen(IndAt, n)
    BY <2>2, LaidPointers
  <2>5. PointedLen(IndAt, n) = Smaller(n, Single) - Direct /\ PointedLen(IndAt, n) \in Int
    BY <1>0, TurnNumbers, Positive DEF PointedLen, Smaller
  <2> QED BY <2>1, <2>3, <2>4, <2>5
<1>4. ASSUME block[Direct + 1] # Null
      PROVE  n > Single /\ Len(h.ptr[block[Direct + 1]]) <= Chunks(n)
  <2>1. DblAt <= turns /\ block[Direct + 1] = at[DblAt]
    BY <1>1, <1>4
  <2>2. DblAt \in 1 .. turns /\ PointerTurn(DblAt) /\ DblAt <= TurnsFor(n) /\ IndAt < DblAt
        /\ IndAt \in Nat
    BY <1>0, <2>1, TurnNumbers, Positive DEF PointerTurn
  <2>3. n > Single
    BY <1>0, <2>2, TurnsNeeded
  <2>4. Len(h.ptr[at[DblAt]]) \in 0 .. PointedLen(DblAt, n)
    BY <2>2, LaidPointers
  <2>5. IndAt # DblAt
    BY <2>2
  <2>6. PointedLen(DblAt, n) = Chunks(n) /\ Chunks(n) \in Nat
    BY <1>0, <2>3, <2>5, ChunksIs DEF PointedLen
  <2> QED BY <2>1, <2>3, <2>4, <2>6
<1>5. ASSUME DblAt <= turns, NEW c \in 1 .. Len(h.ptr[at[DblAt]])
      PROVE  LET b == h.ptr[at[DblAt]][c]
             IN  Len(h.ptr[b]) <= Smaller(PtrsPerBlock, n - Single - (c - 1) * PtrsPerBlock)
  <2>1. PICK k : /\ k \in 1 .. turns /\ h.ptr[at[DblAt]][c] = at[k] /\ PointerTurn(k)
                 /\ PointedLen(k, n) = Smaller(PtrsPerBlock, n - Single - (c - 1) * PtrsPerBlock)
    <3>1. LET k == PointedTurns(DblAt, n)[c]
          IN  /\ c - 1 \in Nat /\ k \in 1 .. turns /\ h.ptr[at[DblAt]][c] = at[k]
              /\ k = DblAt + 1 + (c - 1) * (PtrsPerBlock + 1)
              /\ PointerTurn(k) /\ ChunkOf(k) = c - 1 /\ k > DblAt
              /\ PointedLen(k, n) = Smaller(PtrsPerBlock, n - Single - (c - 1) * PtrsPerBlock)
              /\ PointedTurns(k, n) = [m \in 1 .. PointedLen(k, n) |-> k + m]
      BY <1>5, LaidChunks
    <3> QED BY <3>1
  <2> DEFINE M == Smaller(PtrsPerBlock, n - Single - (c - 1) * PtrsPerBlock)
  <2>2. PointedLen(k, n) = M
    BY <2>1
  <2> HIDE DEF M
  <2>3. Len(h.ptr[at[k]]) \in 0 .. M /\ M \in Nat
    <3>1. k \in Nat /\ k <= TurnsFor(n)
      BY <1>0, <2>1
    <3> QED BY <1>0, <2>1, <2>2, <3>1, LaidPointers, PointedIs
  <2> QED BY <2>1, <2>3 DEF M
<1>6. block[Direct + 1] # Null => DblAt <= turns /\ block[Direct + 1] = at[DblAt]
  BY <1>1
<1> QED BY <1>0, <1>1, <1>2, <1>3, <1>4, <1>5, <1>6 DEF Shape, block

(* Some slot of the inode points to b, or a pointer block, or one behind   *)
(* i_block[13].                                                            *)
Reached(h, i, b) ==
  LET block == h.inode[i].block
  IN  \/ \E s \in Slots : block[s] = b
      \/ \E s \in {Direct, Direct + 1} :
           block[s] # Null /\ \E m \in DOMAIN h.ptr[block[s]] : h.ptr[block[s]][m] = b
      \/ /\ block[Direct + 1] # Null
         /\ \E c \in DOMAIN h.ptr[block[Direct + 1]] :
              LET p == h.ptr[block[Direct + 1]][c]
              IN  p # Null /\ \E m \in DOMAIN h.ptr[p] : h.ptr[p][m] = b

LEMMA LaidReached ==
  ASSUME NEW h, NEW i, NEW n, NEW turns, NEW at, Laid(h, i, n, turns, at),
         NEW k \in 1 .. turns
  PROVE  Reached(h, i, at[k])
<1> DEFINE block == h.inode[i].block
<1>0. n \in Nat /\ turns \in Nat /\ turns <= TurnsFor(n) /\ TurnsFor(n) \in Nat
      /\ k \in Nat \ {0} /\ IndAt \in Nat \ {0} /\ DblAt \in Nat \ {0} /\ IndAt < DblAt
      /\ IndAt = Direct + 1 /\ DblAt = Direct + PtrsPerBlock + 2
      /\ PointerTurn(IndAt) /\ PointerTurn(DblAt) /\ PtrsPerBlock \in Nat
      /\ Direct \in Nat
  <2>1. n \in Nat /\ turns \in Nat /\ turns <= TurnsFor(n)
    BY DEF Laid
  <2>2. TurnsFor(n) \in Nat /\ k \in Nat \ {0}
    BY <2>1, TurnsNeeded
  <2>3. IndAt = Direct + 1 /\ DblAt = Direct + PtrsPerBlock + 2
    BY TurnNumbers, Positive DEF Single
  <2>4. PointerTurn(IndAt) /\ PointerTurn(DblAt)
    BY DEF PointerTurn
  <2>5. Direct \in Nat \ {0} /\ PtrsPerBlock \in Nat \ {0}
    BY Positive
  <2>6. IndAt \in Nat \ {0} /\ DblAt \in Nat \ {0} /\ IndAt < DblAt
    BY <2>3, <2>5
  <2> QED BY <2>1, <2>2, <2>3, <2>4, <2>5, <2>6
<1>1. /\ \A s \in 0 .. Direct - 1 : block[s] = IF s + 1 <= turns THEN at[s + 1] ELSE Null
      /\ block[Direct] = IF IndAt <= turns THEN at[IndAt] ELSE Null
      /\ block[Direct + 1] = IF DblAt <= turns THEN at[DblAt] ELSE Null
      /\ block[Direct + 2] = Null
  BY LaidSlots
<1>2. \A j \in 1 .. turns : at[j] # Null
  BY DEF Laid
<1>3. Direct \in Slots /\ Direct + 1 \in Slots /\ \A s \in 0 .. Direct - 1 : s \in Slots
  BY SlotKinds
<1> HIDE DEF block, Reached
<1>4. CASE k <= Direct
  <2>1. k - 1 \in 0 .. Direct - 1 /\ (k - 1) + 1 = k /\ k <= turns
    BY <1>0, <1>4
  <2>2. block[k - 1] = at[k]
    BY <1>1, <2>1
  <2> QED BY <1>3, <2>1, <2>2 DEF block, Reached
<1>5. CASE k = IndAt
  <2>1. block[Direct] = at[k]
    BY <1>0, <1>1, <1>5
  <2> QED BY <1>3, <2>1 DEF block, Reached
<1>6. CASE k > IndAt /\ k < DblAt
  <2> DEFINE m == k - IndAt
  <2>1. IndAt \in 1 .. turns /\ block[Direct] = at[IndAt] /\ at[IndAt] # Null
    BY <1>0, <1>1, <1>2, <1>6
  <2>2. PointedLen(IndAt, n) = Smaller(n, Single) - Direct
        /\ PointedTurns(IndAt, n) = [x \in 1 .. Smaller(n, Single) - Direct |-> IndAt + x]
    BY DEF PointedLen, PointedTurns
  <2>3. m \in 1 .. Smaller(n, Single) - Direct
    <3>1. Single = Direct + PtrsPerBlock /\ Single \in Nat
      BY TurnNumbers DEF Single
    <3>2. CASE n > Single
      BY <1>0, <1>6, <3>1, <3>2 DEF Smaller
    <3>3. CASE n <= Single
      <4>1. n > Direct
        BY <1>0, <2>1, TurnsNeeded
      <4>2. TurnsFor(n) = n + 1
        BY <1>0, <3>3, <4>1 DEF TurnsFor
      <4> QED BY <1>0, <1>6, <3>1, <3>3, <4>2 DEF Smaller
    <3> QED BY <1>0, <3>1, <3>2, <3>3
  <2>4. PointedTurns(IndAt, n)[m] = k
    <3> DEFINE L == Smaller(n, Single) - Direct
    <3>1. m \in 1 .. L /\ PointedTurns(IndAt, n) = [x \in 1 .. L |-> IndAt + x]
      BY <2>2, <2>3
    <3> HIDE DEF L
    <3>2. PointedTurns(IndAt, n)[m] = IndAt + m
      BY <3>1
    <3> QED BY <1>0, <3>2
  <2>5. m \in 1 .. PointedLen(IndAt, n) /\ PointedTurns(IndAt, n)[m] <= turns
    BY <1>0, <2>2, <2>3, <2>4
  <2> HIDE DEF m
  <2>6. m \in DOMAIN h.ptr[at[IndAt]] /\ h.ptr[at[IndAt]][m] = at[k]
    <3> DEFINE q == h.ptr[at[IndAt]]
               K == PointedTurns(IndAt, n)
    <3>1. /\ DOMAIN q = 1 .. Len(q)
          /\ \A x \in 1 .. Len(q) : q[x] = at[K[x]]
          /\ \A x \in 1 .. PointedLen(IndAt, n) : K[x] <= turns => x \in 1 .. Len(q)
      BY <1>0, <2>1, LaidPointers
    <3> HIDE DEF q, K
    <3>2. K[m] = k /\ m \in 1 .. Len(q)
      BY <2>4, <2>5, <3>1 DEF K
    <3>3. m \in DOMAIN q /\ q[m] = at[k]
      BY <3>1, <3>2
    <3> QED BY <3>3 DEF q
  <2> QED BY <2>1, <2>6 DEF block, Reached
<1>7. CASE k = DblAt
  <2>1. block[Direct + 1] = at[k]
    BY <1>0, <1>1, <1>7
  <2> QED BY <1>3, <2>1 DEF block, Reached
<1>8. CASE k > DblAt
  <2> DEFINE c == ChunkOf(k)
             m == PlaceIn(k)
             x == c * (PtrsPerBlock + 1)
             j == DblAt + 1 + x
  <2>1. n > Single /\ TurnsFor(n) = n + 2 + Chunks(n)
    <3>1. DblAt <= TurnsFor(n)
      BY <1>0, <1>8
    <3> QED BY <1>0, <3>1, TurnsNeeded
  <2>2. c < Chunks(n) /\ m <= n - Single - c * PtrsPerBlock
    <3>1. k <= n + 2 + Chunks(n) /\ k \in Nat
      BY <1>0, <2>1
    <3> QED BY <1>0, <1>8, <2>1, <3>1, ChunkNeeded
  <2>3. c \in Nat /\ m \in 0 .. PtrsPerBlock /\ k = j + m
    BY <1>0, <1>8, ChunkTurn
  <2>4. x \in Nat
    <3>1. PtrsPerBlock + 1 \in Nat
      BY <1>0
    <3> HIDE DEF c
    <3> QED BY <2>3, <3>1, TimesNat
  <2>5. Chunks(n) \in Nat
    BY <1>0, <2>1, ChunksIs
  <2> HIDE DEF c, m
  <2>6. DblAt \in 1 .. turns /\ block[Direct + 1] = at[DblAt] /\ at[DblAt] # Null
    BY <1>0, <1>1, <1>2, <1>8
  <2>7. PointedTurns(DblAt, n)[c + 1] = j /\ c + 1 \in 1 .. PointedLen(DblAt, n)
    <3>1. DblAt # IndAt
      BY <1>0
    <3>2. PointedTurns(DblAt, n) = [d \in 1 .. Chunks(n) |-> DblAt + 1 + (d - 1) * (PtrsPerBlock + 1)]
          /\ PointedLen(DblAt, n) = Chunks(n)
      BY <3>1 DEF PointedTurns, PointedLen
    <3>3. c + 1 \in 1 .. Chunks(n) /\ (c + 1) - 1 = c
      BY <2>2, <2>3, <2>5
    <3> QED BY <3>2, <3>3
  <2>8. j \in 1 .. turns
    <3> HIDE DEF x
    <3> QED BY <1>0, <2>3, <2>4
  <2>9. c + 1 \in 1 .. Len(h.ptr[at[DblAt]]) /\ DOMAIN h.ptr[at[DblAt]] = 1 .. Len(h.ptr[at[DblAt]])
    <3> HIDE DEF j
    <3> QED BY <1>0, <2>6, <2>7, <2>8, LaidPointers
  <2>10. h.ptr[at[DblAt]][c + 1] = at[j]
    <3> HIDE DEF j
    <3> QED BY <1>0, <2>6, <2>7, <2>9, LaidPointers
  <2>11. CASE m = 0
    <3>1. k = j
      <4> HIDE DEF x
      <4> QED BY <1>0, <2>3, <2>4, <2>11
    <3> HIDE DEF j
    <3> QED BY <2>6, <2>9, <2>10, <3>1 DEF block, Reached
  <2>12. CASE m # 0
    <3>1. LET q == PointedTurns(DblAt, n)[c + 1]
          IN  /\ (c + 1) - 1 \in Nat /\ q \in 1 .. turns /\ h.ptr[at[DblAt]][c + 1] = at[q]
              /\ q = DblAt + 1 + ((c + 1) - 1) * (PtrsPerBlock + 1)
              /\ PointerTurn(q) /\ ChunkOf(q) = (c + 1) - 1 /\ q > DblAt
              /\ PointedLen(q, n) = Smaller(PtrsPerBlock, n - Single - ((c + 1) - 1) * PtrsPerBlock)
              /\ PointedTurns(q, n) = [y \in 1 .. PointedLen(q, n) |-> q + y]
      <4>1. DblAt <= turns
        BY <1>0, <2>6
      <4> QED BY <2>9, <4>1, LaidChunks
    <3>2. (c + 1) - 1 = c
      BY <2>3
    <3>3. PointerTurn(j) /\ PointedLen(j, n) = Smaller(PtrsPerBlock, n - Single - c * PtrsPerBlock)
          /\ PointedTurns(j, n) = [y \in 1 .. PointedLen(j, n) |-> j + y]
      BY <2>7, <3>1, <3>2
    <3>4. m \in 1 .. PointedLen(j, n)
      <4> DEFINE z == n - Single - c * PtrsPerBlock
      <4>1. z \in Int
        <5>1. c * PtrsPerBlock \in Nat
          BY <1>0, <2>3, TimesNat
        <5> QED BY <1>0, <5>1, TurnNumbers
      <4>2. m <= z /\ PointedLen(j, n) = Smaller(PtrsPerBlock, z)
        BY <2>2, <3>3
      <4> HIDE DEF z, j
      <4> QED BY <1>0, <2>3, <2>12, <4>1, <4>2 DEF Smaller
    <3>5. PointedTurns(j, n)[m] = k
      <4>1. k = j + m
        BY <2>3
      <4> HIDE DEF j
      <4> QED BY <3>3, <3>4, <4>1
    <3> HIDE DEF j
    <3>6. PointedTurns(j, n)[m] <= turns
      BY <1>0, <3>5
    <3>7. m \in DOMAIN h.ptr[at[j]] /\ h.ptr[at[j]][m] = at[k]
      <4>1. LET q == h.ptr[at[j]]
                K == PointedTurns(j, n)
            IN  /\ Len(q) \in 0 .. PointedLen(j, n) /\ DOMAIN q = 1 .. Len(q)
                /\ \A y \in 1 .. Len(q) : K[y] \in 1 .. turns /\ q[y] = at[K[y]]
                /\ \A y \in 1 .. PointedLen(j, n) : K[y] <= turns => y \in 1 .. Len(q)
        BY <2>8, <3>3, LaidPointers
      <4>2. m \in 1 .. Len(h.ptr[at[j]])
        BY <3>4, <3>6, <4>1
      <4> QED BY <3>5, <4>1, <4>2
    <3>8. at[j] # Null
      BY <1>2, <2>8
    <3> QED BY <2>6, <2>9, <2>10, <3>7, <3>8 DEF block, Reached
  <2> QED BY <2>11, <2>12
<1>9. k <= Direct \/ k = IndAt \/ (k > IndAt /\ k < DblAt) \/ k = DblAt \/ k > DblAt
  BY <1>0
<1> QED BY <1>4, <1>5, <1>6, <1>7, <1>8, <1>9

LEMMA LaidOwned ==
  ASSUME NEW h, NEW i, NEW n, NEW turns, NEW at, Laid(h, i, n, turns, at)
  PROVE  OwnedBlocks(h, i) = {at[k] : k \in 1 .. turns}
<1> DEFINE block == h.inode[i].block
           B == {at[k] : k \in 1 .. turns}
           pointers(b) == IF b = Null THEN {} ELSE {h.ptr[b][k] : k \in DOMAIN h.ptr[b]}
           O == {block[s] : s \in Slots} \cup pointers(block[Direct]) \cup pointers(block[Direct + 1])
                  \cup UNION {pointers(b) : b \in pointers(block[Direct + 1])}
<1>0. OwnedBlocks(h, i) = O \ {Null}
  BY DEF OwnedBlocks
<1>1. turns \in Nat /\ IndAt \in Nat \ {0} /\ DblAt \in Nat \ {0}
      /\ PointerTurn(IndAt) /\ PointerTurn(DblAt) /\ Direct \in Nat
  BY TurnNumbers, Positive DEF Laid, PointerTurn
<1>2. /\ \A s \in 0 .. Direct - 1 : block[s] = IF s + 1 <= turns THEN at[s + 1] ELSE Null
      /\ block[Direct] = IF IndAt <= turns THEN at[IndAt] ELSE Null
      /\ block[Direct + 1] = IF DblAt <= turns THEN at[DblAt] ELSE Null
      /\ block[Direct + 2] = Null
  BY LaidSlots
<1>3. B \subseteq O \ {Null}
  <2> SUFFICES ASSUME NEW k \in 1 .. turns PROVE at[k] \in O \ {Null}
    OBVIOUS
  <2>1. at[k] # Null
    BY DEF Laid
  <2>2. Reached(h, i, at[k])
    BY LaidReached
  <2>3. CASE \E s \in Slots : block[s] = at[k]
    BY <2>1, <2>3
  <2>4. CASE \E s \in {Direct, Direct + 1} :
               block[s] # Null /\ \E m \in DOMAIN h.ptr[block[s]] : h.ptr[block[s]][m] = at[k]
    <3>1. \E s \in {Direct, Direct + 1} : at[k] \in pointers(block[s])
      BY <2>4
    <3> HIDE DEF pointers, block
    <3> QED BY <2>1, <3>1
  <2>5. ASSUME block[Direct + 1] # Null, NEW c \in DOMAIN h.ptr[block[Direct + 1]],
               LET p == h.ptr[block[Direct + 1]][c]
               IN  p # Null /\ \E m \in DOMAIN h.ptr[p] : h.ptr[p][m] = at[k]
        PROVE  at[k] \in O \ {Null}
    <3> DEFINE p == h.ptr[block[Direct + 1]][c]
    <3>1. p \in pointers(block[Direct + 1])
      BY <2>5
    <3>2. at[k] \in pointers(p)
      BY <2>5
    <3> HIDE DEF pointers, block, p
    <3> QED BY <2>1, <3>1, <3>2
  <2> HIDE DEF O
  <2> QED BY <2>2, <2>3, <2>4, <2>5 DEF Reached
<1>4. \A s \in Slots : block[s] \in B \cup {Null}
  <2> SUFFICES ASSUME NEW s \in Slots PROVE block[s] \in B \cup {Null}
    OBVIOUS
  <2>1. CASE s \in 0 .. Direct - 1
    <3>1. s + 1 <= turns => s + 1 \in 1 .. turns
      BY <1>1, <2>1
    <3> QED BY <1>2, <2>1, <3>1
  <2>2. CASE s = Direct
    BY <1>1, <1>2, <2>2
  <2>3. CASE s = Direct + 1
    BY <1>1, <1>2, <2>3
  <2>4. CASE s = Direct + 2
    BY <1>2, <2>4
  <2> QED BY <2>1, <2>2, <2>3, <2>4, SlotKinds
<1>5. ASSUME NEW k \in 1 .. turns, PointerTurn(k) PROVE pointers(at[k]) \subseteq B
  <2>1. DOMAIN h.ptr[at[k]] = 1 .. Len(h.ptr[at[k]])
        /\ \A m \in 1 .. Len(h.ptr[at[k]]) :
             PointedTurns(k, n)[m] \in 1 .. turns /\ h.ptr[at[k]][m] = at[PointedTurns(k, n)[m]]
    BY <1>5, LaidPointers
  <2> QED BY <2>1
<1>6. pointers(block[Direct]) \subseteq B
  <2>1. CASE IndAt <= turns
    <3>1. IndAt \in 1 .. turns
      BY <1>1, <2>1
    <3> QED BY <1>1, <1>2, <1>5, <2>1, <3>1
  <2>2. CASE ~(IndAt <= turns)
    BY <1>2, <2>2
  <2> QED BY <2>1, <2>2
<1>7. pointers(block[Direct + 1]) \subseteq B
  <2>1. CASE DblAt <= turns
    <3>1. DblAt \in 1 .. turns
      BY <1>1, <2>1
    <3> QED BY <1>1, <1>2, <1>5, <2>1, <3>1
  <2>2. CASE ~(DblAt <= turns)
    BY <1>2, <2>2
  <2> QED BY <2>1, <2>2
<1>8. ASSUME NEW b \in pointers(block[Direct + 1]) PROVE pointers(b) \subseteq B
  <2>1. DblAt <= turns /\ block[Direct + 1] = at[DblAt]
    BY <1>2
  <2>2. DOMAIN h.ptr[at[DblAt]] = 1 .. Len(h.ptr[at[DblAt]])
    BY <1>1, <2>1, LaidPointers
  <2>3. PICK c \in 1 .. Len(h.ptr[at[DblAt]]) : b = h.ptr[at[DblAt]][c]
    BY <2>1, <2>2
  <2>4. LET k == PointedTurns(DblAt, n)[c]
        IN  /\ c - 1 \in Nat /\ k \in 1 .. turns /\ h.ptr[at[DblAt]][c] = at[k]
            /\ k = DblAt + 1 + (c - 1) * (PtrsPerBlock + 1)
            /\ PointerTurn(k) /\ ChunkOf(k) = c - 1 /\ k > DblAt
            /\ PointedLen(k, n) = Smaller(PtrsPerBlock, n - Single - (c - 1) * PtrsPerBlock)
            /\ PointedTurns(k, n) = [m \in 1 .. PointedLen(k, n) |-> k + m]
    BY <2>1, LaidChunks
  <2>5. PICK k \in 1 .. turns : b = at[k] /\ PointerTurn(k)
    BY <2>3, <2>4
  <2> HIDE DEF pointers, B
  <2> QED BY <1>5, <2>5
<1> HIDE DEF pointers, block
<1>9. O \ {Null} \subseteq B
  BY <1>4, <1>6, <1>7, <1>8
<1> QED BY <1>0, <1>3, <1>9

LEMMA DataNoNat ==
  ASSUME NEW k \in Nat \ {0}
  PROVE  DataNo(k) \in Nat
<1>1. CASE k < DblAt
  BY <1>1, TurnNumbers DEF DataNo
<1>2. CASE k = DblAt
  <2>1. k - DblAt - 1 = 0 - 1 /\ PtrsPerBlock + 1 \in Nat \ {0} /\ PtrsPerBlock + 1 > 1
    BY <1>2, TurnNumbers, Positive
  <2>2. ~(k < IndAt) /\ ~(k < DblAt)
    BY <1>2, TurnNumbers, Positive
  <2>3. ChunkOf(k) = 0 - 1 /\ PlaceIn(k) = PtrsPerBlock
    BY <2>1, Positive DEF ChunkOf, PlaceIn
  <2>4. DataNo(k) = Single + (0 - 1) * PtrsPerBlock + PtrsPerBlock
    BY <2>2, <2>3 DEF DataNo
  <2> QED BY <2>4, TurnNumbers, Positive
<1>3. CASE k > DblAt
  <2>1. ChunkOf(k) \in Nat /\ PlaceIn(k) \in Nat
    BY <1>3, ChunkTurn, Positive
  <2>2. ChunkOf(k) * PtrsPerBlock \in Nat
    BY <2>1, Positive, TimesNat
  <2>3. ~(k < IndAt) /\ ~(k < DblAt)
    BY <1>3, TurnNumbers, Positive
  <2> QED BY <2>1, <2>2, <2>3, TurnNumbers DEF DataNo
<1> QED BY <1>1, <1>2, <1>3, TurnNumbers

(* What a file holds: data block j is taken at turn DataTurn(j).           *)

DataTurn(j) ==
  IF j <= Direct THEN j
  ELSE IF j <= Single THEN j + 1
  ELSE LET q == j - Single - 1
       IN  DblAt + 1 + (q \div PtrsPerBlock) * (PtrsPerBlock + 1) + ((q % PtrsPerBlock) + 1)

(* Behind i_block[13]: the chunk and the place of data block j.            *)
LEMMA FarData ==
  ASSUME NEW j \in Nat, j > Single
  PROVE  LET q == j - Single - 1
             c == q \div PtrsPerBlock
             m == (q % PtrsPerBlock) + 1
             k == DataTurn(j)
         IN  /\ q \in Nat /\ c \in Nat /\ m \in 1 .. PtrsPerBlock /\ c * PtrsPerBlock \in Nat
             /\ q = c * PtrsPerBlock + (m - 1) /\ k = DblAt + 1 + c * (PtrsPerBlock + 1) + m
             /\ k \in Nat /\ k > DblAt /\ ChunkOf(k) = c /\ PlaceIn(k) = m /\ k = j + c + 3
<1> DEFINE P == PtrsPerBlock
           q == j - Single - 1
           c == q \div P
           r == q % P
           m == r + 1
           x == c * P
           y == c * (P + 1)
           k == DataTurn(j)
<1>1. P \in Nat \ {0} /\ q \in Nat /\ ~(j <= Direct) /\ ~(j <= Single)
  BY Positive, TurnNumbers
<1>2. k = DblAt + 1 + y + m
  BY <1>1 DEF DataTurn
<1>3. c \in Nat /\ r \in 0 .. P - 1 /\ q = x + r
  <2> HIDE DEF P, q
  <2> QED BY <1>1, DivMod
<1> HIDE DEF c, r, k
<1>4. y = x + c /\ x \in Nat
  <2> HIDE DEF P, q
  <2> QED BY <1>1, <1>3, TimesSucc, TimesNat
<1>5. m \in 1 .. P
  <2> HIDE DEF P, q
  <2> QED BY <1>1, <1>3
<1>6. k \in Nat /\ k > DblAt /\ ChunkOf(k) = c /\ PlaceIn(k) = m
  <2>1. m \in 0 .. PtrsPerBlock
    BY <1>5, Positive
  <2> QED BY <1>2, <1>3, <2>1, TurnOfChunk
<1>7. k = j + c + 3
  <2>1. q = j - Single - 1
    OBVIOUS
  <2> HIDE DEF P, q, x, y
  <2> QED BY <1>1, <1>2, <1>3, <1>4, <2>1, TurnNumbers
<1>8. q = x + (m - 1)
  <2> HIDE DEF P, q, x
  <2> QED BY <1>1, <1>3, <1>4
<1> QED BY <1>1, <1>2, <1>3, <1>4, <1>5, <1>6, <1>7, <1>8 DEF c, r, k

LEMMA DataTurnIs ==
  ASSUME NEW j \in Nat \ {0}
  PROVE  DataTurn(j) \in Nat \ {0} /\ ~PointerTurn(DataTurn(j)) /\ DataNo(DataTurn(j)) = j
<1>1. CASE j <= Direct
  <2>1. DataTurn(j) = j /\ j < IndAt /\ j < DblAt
    BY <1>1, TurnNumbers, Positive DEF DataTurn
  <2> QED BY <2>1, TurnNumbers DEF PointerTurn, DataNo
<1>2. CASE j > Direct /\ j <= Single
  <2>1. DataTurn(j) = j + 1 /\ j + 1 > IndAt /\ j + 1 < DblAt
    BY <1>2, TurnNumbers, Positive DEF DataTurn
  <2> QED BY <2>1, TurnNumbers DEF PointerTurn, DataNo
<1>3. CASE j > Single
  <2> DEFINE k == DataTurn(j)
             q == j - Single - 1
             c == q \div PtrsPerBlock
             m == (q % PtrsPerBlock) + 1
             x == c * PtrsPerBlock
  <2>1. /\ q \in Nat /\ c \in Nat /\ m \in 1 .. PtrsPerBlock /\ q = x + (m - 1) /\ x \in Nat
        /\ k \in Nat /\ k > DblAt /\ ChunkOf(k) = c /\ PlaceIn(k) = m
    BY <1>3, FarData
  <2>2. q = j - Single - 1
    OBVIOUS
  <2> HIDE DEF k, c, m, q
  <2>3. m # 0 /\ ~(k < IndAt) /\ ~(k < DblAt) /\ k # IndAt /\ k # DblAt /\ m \in Nat
    BY <2>1, TurnNumbers, Positive
  <2>4. DataNo(k) = Single + x + m
    BY <2>1, <2>3 DEF DataNo
  <2> HIDE DEF x
  <2>5. DataNo(k) = j
    BY <2>1, <2>2, <2>3, <2>4, TurnNumbers
  <2> QED BY <2>1, <2>3, <2>5, TurnNumbers DEF PointerTurn, k
<1> QED BY <1>1, <1>2, <1>3, TurnNumbers, Positive

(* A file that is not cut short has them all.                              *)
LEMMA DataTurnNeeded ==
  ASSUME NEW n \in Nat, NEW j \in 1 .. n
  PROVE  DataTurn(j) <= TurnsFor(n)
<1>1. CASE n <= Direct
  BY <1>1, Positive DEF DataTurn, TurnsFor
<1>2. CASE n > Direct /\ n <= Single
  <2>1. TurnsFor(n) = n + 1
    BY <1>2, TurnNumbers, Positive DEF TurnsFor
  <2>2. DataTurn(j) <= j + 1
    BY <1>2, TurnNumbers, Positive DEF DataTurn
  <2>3. DataTurn(j) \in Nat
    BY DataTurnIs
  <2> QED BY <2>1, <2>2, <2>3
<1>3. CASE n > Single
  <2> DEFINE C == Chunks(n)
  <2>1. C \in Nat \ {0} /\ n - Single <= C * PtrsPerBlock /\ C * PtrsPerBlock \in Nat
    BY <1>3, ChunksIs, Positive, TimesNat
  <2>2. TurnsFor(n) = n + 2 + C
    BY <1>3, TurnNumbers, Positive DEF TurnsFor
  <2> HIDE DEF C
  <2>3. CASE j <= Single
    <3>1. DataTurn(j) <= j + 1
      BY <2>3, TurnNumbers, Positive DEF DataTurn
    <3>2. DataTurn(j) \in Nat
      BY DataTurnIs
    <3> QED BY <2>1, <2>2, <3>1, <3>2
  <2>4. CASE j > Single
    <3> DEFINE q == j - Single - 1
               c == q \div PtrsPerBlock
    <3>1. q \in Nat /\ c \in Nat /\ DataTurn(j) = j + c + 3
      BY <2>4, FarData
    <3>2. q < C * PtrsPerBlock
      <4> DEFINE y == C * PtrsPerBlock
      <4>1. y \in Nat /\ n - Single <= y
        BY <2>1
      <4>2. q = j - Single - 1
        OBVIOUS
      <4>3. q < y
        <5> HIDE DEF y, q
        <5> QED BY <4>1, <4>2, TurnNumbers
      <4> QED BY <4>3
    <3>3. c \in 0 .. C - 1
      <4> HIDE DEF q
      <4> QED BY <2>1, <3>1, <3>2, Positive, DivBelow
    <3> HIDE DEF c
    <3> QED BY <2>1, <2>2, <3>1, <3>3
  <2> QED BY <2>3, <2>4, TurnNumbers
<1> QED BY <1>1, <1>2, <1>3, TurnNumbers, Positive

(* read finds the block that was taken in the turn of data block j.        *)
LEMMA LaidData ==
  ASSUME NEW h, NEW i, NEW n, NEW turns, NEW at, Laid(h, i, n, turns, at), NEW j \in 1 .. n
  PROVE  BlockOf(h, i, j) = IF DataTurn(j) <= turns THEN at[DataTurn(j)] ELSE Null
<1> DEFINE block == h.inode[i].block
           k     == DataTurn(j)
<1>0. /\ n \in Nat /\ turns \in Nat /\ turns <= TurnsFor(n) /\ TurnsFor(n) \in Nat
      /\ at \in [1 .. turns -> Blocks \ {Null}]
  BY TurnsNeeded DEF Laid
<1>1. /\ \A s \in 0 .. Direct - 1 : block[s] = IF s + 1 <= turns THEN at[s + 1] ELSE Null
      /\ block[Direct] = IF IndAt <= turns THEN at[IndAt] ELSE Null
      /\ block[Direct + 1] = IF DblAt <= turns THEN at[DblAt] ELSE Null
  BY LaidSlots
<1> HIDE DEF block
<1>2. CASE j <= Direct
  <2>1. BlockOf(h, i, j) = block[j - 1] /\ k = j /\ j - 1 \in 0 .. Direct - 1 /\ (j - 1) + 1 = j
    BY <1>2, Positive DEF BlockOf, DataTurn, block
  <2> QED BY <1>1, <2>1
<1>3. CASE j > Direct /\ j <= Single
  <2>1. BlockOf(h, i, j) = PtrIn(h, block[Direct], j - Direct) /\ k = j + 1
        /\ j - Direct \in Nat \ {0} /\ k = IndAt + (j - Direct) /\ k \in Nat
    BY <1>3, TurnNumbers, Positive DEF BlockOf, DataTurn, block
  <2>2. CASE IndAt > turns
    <3>1. BlockOf(h, i, j) = Null
      BY <1>0, <1>1, <2>1, <2>2, TurnNumbers DEF PtrIn
    <3>2. ~(k <= turns)
      BY <1>0, <2>1, <2>2, TurnNumbers
    <3> QED BY <3>1, <3>2
  <2>3. CASE IndAt <= turns
    <3> DEFINE p == h.ptr[at[IndAt]]
               K == PointedTurns(IndAt, n)
               L == PointedLen(IndAt, n)
    <3>0. IndAt \in 1 .. turns /\ PointerTurn(IndAt) /\ block[Direct] = at[IndAt] /\ at[IndAt] # Null
      BY <1>0, <1>1, <2>3, TurnNumbers, Positive DEF PointerTurn
    <3>1. /\ Len(p) \in 0 .. L
          /\ \A m \in 1 .. Len(p) : K[m] \in 1 .. turns /\ p[m] = at[K[m]]
          /\ \A m \in 1 .. L : K[m] <= turns => m \in 1 .. Len(p)
      BY <3>0, LaidPointers
    <3>2. L = Smaller(n, Single) - Direct /\ K = [m \in 1 .. L |-> IndAt + m]
      BY DEF PointedLen, PointedTurns
    <3> DEFINE m == j - Direct
    <3>3. m \in 1 .. L
      BY <1>0, <1>3, <3>2, TurnNumbers, Positive DEF Smaller
    <3>4. K[m] = k
      BY <2>1, <3>2, <3>3
    <3>5. BlockOf(h, i, j) = IF m \in 1 .. Len(p) THEN p[m] ELSE Null
      BY <2>1, <3>0 DEF PtrIn
    <3> HIDE DEF p, K, L, m
    <3> QED BY <3>1, <3>3, <3>4, <3>5
  <2> QED BY <1>0, <2>2, <2>3, TurnNumbers
<1>4. CASE j > Single
  <2> DEFINE q == j - Single - 1
             c == q \div PtrsPerBlock
             m == (q % PtrsPerBlock) + 1
             x == c * PtrsPerBlock
  <2>1. /\ q \in Nat /\ c \in Nat /\ m \in 1 .. PtrsPerBlock /\ q = x + (m - 1) /\ x \in Nat
        /\ k = DblAt + 1 + c * (PtrsPerBlock + 1) + m
        /\ k \in Nat /\ k > DblAt
    BY <1>4, FarData
  <2>2. BlockOf(h, i, j) = PtrIn(h, PtrIn(h, block[Direct + 1], c + 1), m)
    BY <1>4, TurnNumbers, Positive DEF BlockOf, block
  <2>3. CASE DblAt > turns
    <3>1. BlockOf(h, i, j) = Null
      BY <1>0, <1>1, <2>2, <2>3, TurnNumbers DEF PtrIn
    <3>2. ~(k <= turns)
      BY <1>0, <2>1, <2>3, TurnNumbers
    <3> QED BY <3>1, <3>2
  <2>4. CASE DblAt <= turns
    <3> DEFINE p == h.ptr[at[DblAt]]
               K == PointedTurns(DblAt, n)
               L == PointedLen(DblAt, n)
               u == K[c + 1]
    <3>0. DblAt \in 1 .. turns /\ PointerTurn(DblAt) /\ block[Direct + 1] = at[DblAt]
          /\ at[DblAt] # Null /\ DblAt # IndAt
      BY <1>0, <1>1, <2>4, TurnNumbers, Positive DEF PointerTurn
    <3>1. /\ Len(p) \in 0 .. L
          /\ \A a \in 1 .. L : K[a] <= turns => a \in 1 .. Len(p)
      BY <3>0, LaidPointers
    <3>2. L = Chunks(n) /\ K = [a \in 1 .. L |-> DblAt + 1 + (a - 1) * (PtrsPerBlock + 1)]
      BY <3>0 DEF PointedLen, PointedTurns
    <3>3. c + 1 \in 1 .. L
      <4> DEFINE y == Chunks(n) * PtrsPerBlock
      <4>1. Chunks(n) \in Nat \ {0} /\ n - Single <= y /\ y \in Nat
        BY <1>0, <1>4, ChunksIs, Positive, TimesNat, TurnNumbers
      <4>2. q < y
        <5>1. q = j - Single - 1
          OBVIOUS
        <5> HIDE DEF y, q
        <5> QED BY <1>0, <4>1, <5>1, TurnNumbers
      <4>3. c \in 0 .. Chunks(n) - 1
        <5> HIDE DEF q
        <5> QED BY <2>1, <4>1, <4>2, Positive, DivBelow
      <4> HIDE DEF c
      <4> QED BY <3>2, <4>1, <4>3
    <3>4. u = DblAt + 1 + c * (PtrsPerBlock + 1)
      <4>1. (c + 1) - 1 = c
        BY <2>1
      <4> QED BY <3>2, <3>3, <4>1
    <3>5. u \in Nat /\ k = u + m /\ u < k
      <4> DEFINE y == c * (PtrsPerBlock + 1)
      <4>0. PtrsPerBlock + 1 \in Nat
        BY Positive
      <4>1. y \in Nat
        <5> HIDE DEF c
        <5> QED BY <2>1, <4>0, TimesNat
      <4>2. u = DblAt + 1 + y
        BY <3>4
      <4>3. k = DblAt + 1 + y + m
        BY <2>1
      <4>4. m \in 1 .. PtrsPerBlock
        BY <2>1
      <4> HIDE DEF y, u, k, m, c, x
      <4> QED BY <4>1, <4>2, <4>3, <4>4, TurnNumbers, Positive
    <3>6. PtrIn(h, block[Direct + 1], c + 1) = IF c + 1 \in 1 .. Len(p) THEN p[c + 1] ELSE Null
      BY <3>0 DEF PtrIn
    <3>7. CASE c + 1 \notin 1 .. Len(p)
      <4>1. BlockOf(h, i, j) = Null
        BY <2>2, <3>6, <3>7 DEF PtrIn
      <4>2. ~(u <= turns)
        BY <3>1, <3>3, <3>7
      <4>3. ~(k <= turns)
        BY <1>0, <2>1, <3>5, <4>2
      <4> QED BY <4>1, <4>3
    <3>8. CASE c + 1 \in 1 .. Len(p)
      <4>1. /\ u \in 1 .. turns /\ p[c + 1] = at[u] /\ PointerTurn(u)
            /\ PointedLen(u, n) = Smaller(PtrsPerBlock, n - Single - ((c + 1) - 1) * PtrsPerBlock)
            /\ PointedTurns(u, n) = [a \in 1 .. PointedLen(u, n) |-> u + a]
        BY <2>4, <3>8, LaidChunks
      <4>2. at[u] # Null
        BY <1>0, <4>1
      <4> DEFINE r == h.ptr[at[u]]
                 M == PointedLen(u, n)
      <4>3. /\ Len(r) \in 0 .. M
            /\ \A a \in 1 .. Len(r) : PointedTurns(u, n)[a] \in 1 .. turns /\ r[a] = at[PointedTurns(u, n)[a]]
            /\ \A a \in 1 .. M : PointedTurns(u, n)[a] <= turns => a \in 1 .. Len(r)
        <5>1. ASSUME NEW w \in 1 .. turns, PointerTurn(w)
              PROVE  LET z == h.ptr[at[w]] IN
                     /\ Len(z) \in 0 .. PointedLen(w, n)
                     /\ \A a \in 1 .. Len(z) : PointedTurns(w, n)[a] \in 1 .. turns /\ z[a] = at[PointedTurns(w, n)[a]]
                     /\ \A a \in 1 .. PointedLen(w, n) : PointedTurns(w, n)[a] <= turns => a \in 1 .. Len(z)
          BY <5>1, LaidPointers
        <5> HIDE DEF u
        <5> QED BY <4>1, <5>1
      <4>4. m \in 1 .. M
        <5>1. (c + 1) - 1 = c
          BY <2>1
        <5>2. M = Smaller(PtrsPerBlock, n - Single - x)
          BY <4>1, <5>1
        <5>3. q = j - Single - 1
          OBVIOUS
        <5> HIDE DEF x, q, M, m
        <5>4. m <= n - Single - x
          BY <1>0, <2>1, <5>3, TurnNumbers, Positive
        <5> QED BY <1>0, <2>1, <5>2, <5>4, TurnNumbers, Positive DEF Smaller
      <4>5. PointedTurns(u, n)[m] = k
        <5> HIDE DEF u, k, m
        <5> QED BY <3>5, <4>1, <4>4
      <4>6. BlockOf(h, i, j) = IF m \in 1 .. Len(r) THEN r[m] ELSE Null
        BY <2>2, <3>6, <3>8, <4>1, <4>2 DEF PtrIn
      <4> HIDE DEF r, M, m, u
      <4> QED BY <4>3, <4>4, <4>5, <4>6
    <3> QED BY <3>7, <3>8
  <2> QED BY <1>0, <2>3, <2>4, TurnNumbers
<1> QED BY <1>2, <1>3, <1>4, TurnNumbers, Positive

(* The file i of n blocks holds the value v as far as it goes, and all of  *)
(* it if there was room.                                                   *)
HoldsData(h, i, v, n, room) ==
  \E m \in 0 .. n : FileData(h, i) = [j \in 1 .. m |-> <<v, j>>] /\ (room => m = n)

LEMMA LaidHolds ==
  ASSUME NEW h, NEW i, NEW n, NEW turns, NEW at, Laid(h, i, n, turns, at), NEW v,
         \A k \in 1 .. turns : ~PointerTurn(k) => h.data[at[k]] = <<v, DataNo(k)>>
  PROVE  HoldsData(h, i, v, n, turns = TurnsFor(n))
<1> DEFINE there == {j \in 1 .. n : \A k \in 1 .. j : BlockOf(h, i, k) # Null}
           m     == Cardinality(there)
<1>0. /\ n \in Nat /\ turns \in Nat /\ TurnsFor(n) \in Nat /\ h.inode[i].blocks = n
      /\ at \in [1 .. turns -> Blocks \ {Null}]
  BY TurnsNeeded DEF Laid
<1>1. FileData(h, i) = [j \in 1 .. m |-> h.data[BlockOf(h, i, j)]]
  BY <1>0 DEF FileData
<1>2. m \in 0 .. n /\ there = 1 .. m
  <2>1. there \in SUBSET (1 .. n)
    OBVIOUS
  <2>2. \A j \in there : \A k \in 1 .. n : k < j => k \in there
    BY <1>0
  <2> HIDE DEF there
  <2> QED BY <1>0, <2>1, <2>2, Downward
<1>3. ASSUME NEW j \in 1 .. m PROVE h.data[BlockOf(h, i, j)] = <<v, j>>
  <2>1. j \in there /\ j \in 1 .. n
    BY <1>2
  <2>2. BlockOf(h, i, j) # Null
    BY <2>1
  <2>3. DataTurn(j) \in Nat \ {0} /\ ~PointerTurn(DataTurn(j)) /\ DataNo(DataTurn(j)) = j
    BY <2>1, DataTurnIs
  <2>4. DataTurn(j) <= turns /\ BlockOf(h, i, j) = at[DataTurn(j)]
    BY <2>1, <2>2, LaidData
  <2>5. DataTurn(j) \in 1 .. turns
    BY <1>0, <2>3, <2>4
  <2> QED BY <2>3, <2>4, <2>5
<1>4. ASSUME turns = TurnsFor(n) PROVE m = n
  <2>1. ASSUME NEW j \in 1 .. n PROVE BlockOf(h, i, j) # Null
    <3>1. DataTurn(j) \in Nat \ {0} /\ DataTurn(j) <= turns
      BY <1>0, <1>4, DataTurnIs, DataTurnNeeded
    <3>2. BlockOf(h, i, j) = at[DataTurn(j)] /\ DataTurn(j) \in 1 .. turns
      BY <1>0, <3>1, LaidData
    <3> QED BY <1>0, <3>2
  <2>2. there = 1 .. n
    BY <1>0, <2>1
  <2>3. Cardinality(1 .. n) = IF 1 > n THEN 0 ELSE n - 1 + 1
    BY <1>0, FS_Interval
  <2> HIDE DEF there
  <2> QED BY <1>0, <2>2, <2>3
<1> HIDE DEF m
<1>5. FileData(h, i) = [j \in 1 .. m |-> <<v, j>>]
  BY <1>1, <1>3
<1> QED BY <1>2, <1>4, <1>5 DEF HoldsData

LEMMA AllocateFills ==
  ASSUME NEW f \in FsInts, NEW i \in Inodes, NEW v \in Datas, NEW n \in Nat, NEW g,
         Meta \cap Clear(f) = {}
  PROVE  LET a    == AllocateNodeBlocks(f, v, n, g)
             node == [mode |-> "reg", blocks |-> n, block |-> a.block]
             h    == SyncNode(a.fs, i, node)
         IN  /\ Filled(f, h, i, node, OwnedBlocks(h, i))
             /\ Shape(h, i) /\ h.count.dirs = f.count.dirs
             /\ HoldsData(h, i, v, n, TurnsFor(n) <= Cardinality(FreeFrom(f, g)))
<1> DEFINE free    == FreeFrom(f, g)
           turns   == Smaller(TurnsFor(n), Cardinality(free))
           at      == [k \in 1 .. turns |-> Nth(free, k)]
           taken   == {at[k] : k \in 1 .. turns}
           turn(b)     == Cardinality({y \in free : y <= b})
           got(K)      == Cardinality({m \in DOMAIN K : K[m] <= turns})
           pointers(k) == LET K == PointedTurns(k, n) IN [m \in 1 .. got(K) |-> at[K[m]]]
           t  == TakeBlocks(f, taken)
           di == [b \in Blocks |-> IF b \in taken THEN <<>> ELSE f.dir[b]]
           da == [b \in Blocks |-> IF b \notin taken THEN f.data[b]
                                   ELSE IF PointerTurn(turn(b)) THEN NoData
                                   ELSE <<v, DataNo(turn(b))>>]
           pt == [b \in Blocks |-> IF b \notin taken THEN f.ptr[b]
                                   ELSE IF PointerTurn(turn(b)) THEN pointers(turn(b))
                                   ELSE <<>>]
           u  == [t EXCEPT !.dir = di, !.data = da, !.ptr = pt]
           block == [s \in Slots |->
                      IF s < Direct + 2 /\ SlotTurn(s) <= turns THEN at[SlotTurn(s)] ELSE Null]
           node == [mode |-> "reg", blocks |-> n, block |-> block]
           w == SyncMetadata(u)
           h == SyncNode(w, i, node)
<1>1. AllocateNodeBlocks(f, v, n, g) = [fs |-> w, block |-> block]
  BY DEF AllocateNodeBlocks
<1>2. free \in SUBSET Nat /\ IsFiniteSet(free) /\ free \subseteq Clear(f) /\ free \subseteq Blocks
      /\ Null \notin free /\ Cardinality(free) \in Nat
  BY FreeIsClear, FiniteSets, BootAndRoot, FS_Subset, FS_CardinalityType
<1> HIDE DEF free
<1>3. turns \in Nat /\ turns <= TurnsFor(n) /\ turns <= Cardinality(free)
  BY <1>2, TurnsNeeded DEF Smaller
<1> HIDE DEF turns
<1>4. ASSUME NEW k \in 1 .. turns
      PROVE  at[k] \in free /\ turn(at[k]) = k
  <2>1. k \in 1 .. Cardinality(free) /\ at[k] = Nth(free, k)
    BY <1>2, <1>3
  <2>2. Nth(free, k) \in free /\ Cardinality({y \in free : y <= Nth(free, k)}) = k
    BY <1>2, <2>1, NthIs, NthTurn
  <2>3. turn(at[k]) = Cardinality({y \in free : y <= at[k]})
    OBVIOUS
  <2> HIDE DEF at, turn
  <2> QED BY <2>1, <2>2, <2>3
<1>5. at \in [1 .. turns -> free] /\ at \in [1 .. turns -> Blocks \ {Null}]
  BY <1>2, <1>4
<1> HIDE DEF at, turn
<1>6. taken \subseteq Clear(f) /\ taken \subseteq Blocks
  BY <1>2, <1>5
<1>7. ASSUME NEW k \in 1 .. turns, PointerTurn(k)
      PROVE  pointers(k) \in Seq(Blocks)
             /\ pointers(k) = [m \in 1 .. Got(k, n, turns) |-> at[PointedTurns(k, n)[m]]]
  <2> DEFINE K == PointedTurns(k, n)
             L == PointedLen(k, n)
             G == Got(k, n, turns)
  <2>1. pointers(k) = [m \in 1 .. G |-> at[K[m]]]
    BY DEF Got
  <2>2. k \in Nat /\ k <= TurnsFor(n)
    BY <1>3, TurnsNeeded
  <2>3. L \in Nat /\ \A m \in 1 .. L : K[m] \in Nat \ {0}
    BY <1>7, <2>2, PointedIs
  <2>4. G \in 0 .. L /\ \A m \in 1 .. L : m <= G <=> K[m] <= turns
    BY <1>3, <1>7, <2>2, GotIs DEF Got
  <2> HIDE DEF K, L, G, pointers
  <2>5. G \in Nat /\ \A m \in 1 .. G : K[m] \in 1 .. turns
    BY <1>3, <2>3, <2>4
  <2>6. \A m \in 1 .. G : at[K[m]] \in Blocks
    BY <1>5, <2>5
  <2>7. pointers(k) \in Seq(Blocks)
    BY <2>1, <2>5, <2>6
  <2> QED BY <2>1, <2>7 DEF K, G
<1> HIDE DEF pointers
<1>8. \A b \in taken : turn(b) \in 1 .. turns /\ at[turn(b)] = b
  BY <1>4
<1>9. di \in [Blocks -> Seq(EntryType)]
  <2>1. <<>> \in Seq(EntryType)
    OBVIOUS
  <2> QED BY <2>1 DEF FsInts
<1>10. da \in [Blocks -> {NoData} \cup (Datas \X Nat)]
  <2>1. \A b \in taken : DataNo(turn(b)) \in Nat
    BY <1>3, <1>8, DataNoNat
  <2> HIDE DEF taken
  <2> QED BY <2>1 DEF FsInts
<1>11. pt \in [Blocks -> Seq(Blocks)]
  <2>1. <<>> \in Seq(Blocks)
    OBVIOUS
  <2>2. \A b \in taken : PointerTurn(turn(b)) => pointers(turn(b)) \in Seq(Blocks)
    BY <1>7, <1>8
  <2> HIDE DEF taken
  <2> QED BY <2>1, <2>2 DEF FsInts
<1>12. \A b \in Blocks \ taken : di[b] = f.dir[b] /\ da[b] = f.data[b] /\ pt[b] = f.ptr[b]
  OBVIOUS
<1>13. \A k \in 1 .. turns : PointerTurn(k) =>
         pt[at[k]] = [m \in 1 .. Got(k, n, turns) |-> at[PointedTurns(k, n)[m]]]
  <2> SUFFICES ASSUME NEW k \in 1 .. turns, PointerTurn(k)
               PROVE  pt[at[k]] = pointers(k)
    BY <1>7
  <2>1. at[k] \in taken /\ at[k] \in Blocks /\ turn(at[k]) = k
    BY <1>4, <1>5
  <2> HIDE DEF taken
  <2> QED BY <2>1
<1>14. block \in [Slots -> Blocks]
  <2>1. \A s \in Slots : s < Direct + 2 => SlotTurn(s) \in Nat \ {0}
    BY Positive, TurnNumbers DEF Slots, SlotTurn
  <2>2. \A s \in Slots : s < Direct + 2 /\ SlotTurn(s) <= turns => at[SlotTurn(s)] \in Blocks
    BY <1>3, <1>5, <2>1
  <2> QED BY <2>2, BootAndRoot
<1>15. block = [s \in Slots |->
                  IF s < Direct + 2 /\ SlotTurn(s) <= turns THEN at[SlotTurn(s)] ELSE Null]
  OBVIOUS
<1>15a. \A k \in 1 .. turns : ~PointerTurn(k) => da[at[k]] = <<v, DataNo(k)>>
  <2> TAKE k \in 1 .. turns
  <2> HAVE ~PointerTurn(k)
  <2>1. at[k] \in taken /\ at[k] \in Blocks /\ turn(at[k]) = k
    BY <1>4, <1>5
  <2> HIDE DEF taken
  <2> QED BY <2>1
<1> HIDE DEF block, di, da, pt
<1>16. node \in InodeType /\ node.blocks = n /\ node.block = block
  BY <1>14 DEF InodeType, Modes
<1> HIDE DEF node
<1>17. t \in FsInts /\ SameTables(f, t) /\ Clear(t) = Clear(f) \ taken
       /\ t.count.blocks = [x \in Groups |-> f.count.blocks[x] - Cardinality(InGroup(taken, x))]
       /\ t.count.sblocks = f.count.sblocks - Cardinality(taken)
       /\ t.count.inodes = f.count.inodes /\ t.count.sinodes = f.count.sinodes
       /\ t.count.dirs = f.count.dirs
  <2>1. taken \in SUBSET Blocks
    BY <1>6
  <2> HIDE DEF taken, t
  <2> QED BY <2>1, TakeBlocksIs, TakeClear DEF t
<1> HIDE DEF t
<1>18. u \in FsInts /\ SameTables(t, u) /\ u.bmap = t.bmap /\ u.count = t.count
       /\ u.dir = di /\ u.data = da /\ u.ptr = pt
  BY <1>9, <1>10, <1>11, <1>17 DEF FsInts, SameTables
<1> HIDE DEF u
<1>19. w \in FsInts /\ SameTables(u, w) /\ SameContents(u, w) /\ w.bmap = u.bmap
       /\ w.count = u.count
  BY <1>18, SyncMetadataIs
<1> HIDE DEF w
<1>20. h \in FsInts /\ h.imap = w.imap /\ SameContents(w, h) /\ h.bmap = w.bmap
       /\ h.count = w.count /\ h.inode = [w.inode EXCEPT ![i] = node]
  BY <1>16, <1>19, SyncNodeIs
<1> HIDE DEF h
<1>21. h.imap = f.imap /\ h.inode = [f.inode EXCEPT ![i] = node] /\ h.inode[i] = node
       /\ h.dir = di /\ h.data = da /\ h.ptr = pt /\ h.count = t.count
  BY <1>17, <1>18, <1>19, <1>20 DEF SameTables, SameContents, FsInts
<1>22. Clear(h) = Clear(f) \ taken
  BY <1>17, <1>18, <1>19, <1>20 DEF Clear
<1>23. Laid(h, i, n, turns, at)
  BY <1>3, <1>5, <1>13, <1>15, <1>16, <1>21 DEF Laid
<1>24. OwnedBlocks(h, i) = taken /\ Shape(h, i)
  BY <1>23, LaidOwned, LaidShape
<1>24a. HoldsData(h, i, v, n, TurnsFor(n) <= Cardinality(free))
  <2>1. \A k \in 1 .. turns : ~PointerTurn(k) => h.data[at[k]] = <<v, DataNo(k)>>
    BY <1>15a, <1>21
  <2>2. HoldsData(h, i, v, n, turns = TurnsFor(n))
    BY <1>23, <2>1, LaidHolds
  <2>3. TurnsFor(n) <= Cardinality(free) => turns = TurnsFor(n)
    BY DEF Smaller, turns
  <2> QED BY <2>2, <2>3 DEF HoldsData
<1> HIDE DEF taken
<1>25. Filled(f, h, i, node, taken)
  BY <1>6, <1>12, <1>16, <1>17, <1>20, <1>21, <1>22 DEF Filled
<1>26. h.count.dirs = f.count.dirs
  BY <1>17, <1>21
<1> QED BY <1>1, <1>24, <1>24a, <1>25, <1>26 DEF h, node, free

-----------------------------------------------------------------------------
(* Deletion: what deallocate_node clears is what the inode owns.           *)

LEMMA OwnedReached ==
  ASSUME NEW h, NEW i, NEW b
  PROVE  b \in OwnedBlocks(h, i) <=> b # Null /\ Reached(h, i, b)
<1> DEFINE block == h.inode[i].block
           pointers(x) == IF x = Null THEN {} ELSE {h.ptr[x][k] : k \in DOMAIN h.ptr[x]}
           O == {block[s] : s \in Slots} \cup pointers(block[Direct]) \cup pointers(block[Direct + 1])
                  \cup UNION {pointers(x) : x \in pointers(block[Direct + 1])}
<1>1. OwnedBlocks(h, i) = O \ {Null}
  BY DEF OwnedBlocks
<1>2. \A x, y : y \in pointers(x) <=> x # Null /\ \E m \in DOMAIN h.ptr[x] : h.ptr[x][m] = y
  OBVIOUS
<1> HIDE DEF pointers
<1>3. b \in O <=> \/ \E s \in Slots : block[s] = b
                  \/ b \in pointers(block[Direct]) \/ b \in pointers(block[Direct + 1])
                  \/ \E x \in pointers(block[Direct + 1]) : b \in pointers(x)
  OBVIOUS
<1> HIDE DEF O
<1>4. Reached(h, i, b) <=>
        \/ \E s \in Slots : block[s] = b
        \/ \E s \in {Direct, Direct + 1} :
             block[s] # Null /\ \E m \in DOMAIN h.ptr[block[s]] : h.ptr[block[s]][m] = b
        \/ /\ block[Direct + 1] # Null
           /\ \E c \in DOMAIN h.ptr[block[Direct + 1]] :
                LET p == h.ptr[block[Direct + 1]][c]
                IN  p # Null /\ \E m \in DOMAIN h.ptr[p] : h.ptr[p][m] = b
  BY DEF Reached
<1> HIDE DEF block
<1>5. Reached(h, i, b) <=>
        \/ \E s \in Slots : block[s] = b
        \/ b \in pointers(block[Direct]) \/ b \in pointers(block[Direct + 1])
        \/ \E x \in pointers(block[Direct + 1]) : b \in pointers(x)
  <2>1. (\E s \in {Direct, Direct + 1} :
            block[s] # Null /\ \E m \in DOMAIN h.ptr[block[s]] : h.ptr[block[s]][m] = b)
          <=> b \in pointers(block[Direct]) \/ b \in pointers(block[Direct + 1])
    BY <1>2
  <2>2. (/\ block[Direct + 1] # Null
         /\ \E c \in DOMAIN h.ptr[block[Direct + 1]] :
                LET p == h.ptr[block[Direct + 1]][c]
                IN  p # Null /\ \E m \in DOMAIN h.ptr[p] : h.ptr[p][m] = b)
          <=> \E x \in pointers(block[Direct + 1]) : b \in pointers(x)
    <3>1. ASSUME block[Direct + 1] # Null, NEW c \in DOMAIN h.ptr[block[Direct + 1]],
                 h.ptr[block[Direct + 1]][c] # Null,
                 \E m \in DOMAIN h.ptr[h.ptr[block[Direct + 1]][c]] :
                   h.ptr[h.ptr[block[Direct + 1]][c]][m] = b
          PROVE  \E x \in pointers(block[Direct + 1]) : b \in pointers(x)
      <4>1. b \in pointers(h.ptr[block[Direct + 1]][c])
        BY <1>2, <3>1
      <4>2. h.ptr[block[Direct + 1]][c] \in pointers(block[Direct + 1])
        BY <1>2, <3>1
      <4> QED BY <4>1, <4>2
    <3>2. ASSUME NEW x \in pointers(block[Direct + 1]), b \in pointers(x)
          PROVE  /\ block[Direct + 1] # Null
                 /\ \E c \in DOMAIN h.ptr[block[Direct + 1]] :
                      /\ h.ptr[block[Direct + 1]][c] # Null
                      /\ \E m \in DOMAIN h.ptr[h.ptr[block[Direct + 1]][c]] :
                           h.ptr[h.ptr[block[Direct + 1]][c]][m] = b
      <4>1. block[Direct + 1] # Null
            /\ \E m \in DOMAIN h.ptr[block[Direct + 1]] : h.ptr[block[Direct + 1]][m] = x
        BY <1>2, <3>2
      <4>2. x # Null /\ \E m \in DOMAIN h.ptr[x] : h.ptr[x][m] = b
        BY <1>2, <3>2
      <4> QED BY <4>1, <4>2
    <3> QED BY <3>1, <3>2
  <2> QED BY <1>4, <2>1, <2>2
<1> QED BY <1>1, <1>3, <1>5

(* A call that changes nothing that inode i owns leaves its data.          *)
LEMMA DataFrame ==
  ASSUME NEW f \in FsInts, NEW h, NEW i \in Inodes, h.inode[i] = f.inode[i],
         \A b \in OwnedBlocks(f, i) : h.ptr[b] = f.ptr[b] /\ h.data[b] = f.data[b]
  PROVE  FileData(h, i) = FileData(f, i)
<1> DEFINE at == f.inode[i].block
           n  == f.inode[i].blocks
<1>0. n \in Nat /\ at \in [Slots -> Blocks] /\ \A b \in Blocks : f.ptr[b] \in Seq(Blocks)
  BY DEF FsInts, InodeType
<1>1. ASSUME NEW b, b # Null, Reached(f, i, b)
      PROVE  h.ptr[b] = f.ptr[b] /\ h.data[b] = f.data[b]
  BY <1>1, OwnedReached
<1>2. Direct \in Slots /\ Direct + 1 \in Slots
  BY SlotKinds
<1>3. ASSUME NEW s \in Slots
      PROVE  at[s] # Null => Reached(f, i, at[s])
  BY DEF Reached
<1>4. ASSUME NEW s \in {Direct, Direct + 1}, NEW c
      PROVE  /\ PtrIn(h, at[s], c) = PtrIn(f, at[s], c)
             /\ PtrIn(f, at[s], c) # Null => Reached(f, i, PtrIn(f, at[s], c))
  <2>0. s \in Slots /\ at[s] \in Blocks
    BY <1>0, <1>2
  <2>1. CASE at[s] = Null
    BY <2>1 DEF PtrIn
  <2>2. CASE at[s] # Null
    <3>1. h.ptr[at[s]] = f.ptr[at[s]]
      BY <1>1, <1>3, <2>0, <2>2
    <3> DEFINE p == f.ptr[at[s]]
    <3>2. p \in Seq(Blocks)
      BY <1>0, <2>0
    <3>3. PtrIn(f, at[s], c) = IF c \in 1 .. Len(p) THEN p[c] ELSE Null
      BY <2>2 DEF PtrIn
    <3>4. PtrIn(h, at[s], c) = IF c \in 1 .. Len(p) THEN p[c] ELSE Null
      BY <2>2, <3>1 DEF PtrIn
    <3>5. c \in 1 .. Len(p) => c \in DOMAIN p
      <4> HIDE DEF p
      <4> QED BY <3>2
    <3>6. c \in DOMAIN p => Reached(f, i, p[c])
      BY <2>2 DEF Reached
    <3> QED BY <3>3, <3>4, <3>5, <3>6
  <2> QED BY <2>1, <2>2
<1>5. ASSUME NEW c, NEW m
      PROVE  LET p == PtrIn(f, at[Direct + 1], c)
             IN  /\ PtrIn(h, p, m) = PtrIn(f, p, m)
                 /\ PtrIn(f, p, m) # Null => Reached(f, i, PtrIn(f, p, m))
  <2> DEFINE p == PtrIn(f, at[Direct + 1], c)
             q == f.ptr[at[Direct + 1]]
  <2>1. CASE p = Null
    BY <2>1 DEF PtrIn
  <2>2. CASE p # Null
    <3>1. Reached(f, i, p)
      BY <1>4, <2>2
    <3>2. h.ptr[p] = f.ptr[p]
      <4> HIDE DEF p
      <4> QED BY <1>1, <2>2, <3>1
    <3>3. at[Direct + 1] # Null /\ c \in 1 .. Len(q) /\ p = q[c]
      BY <2>2 DEF PtrIn
    <3>4. q \in Seq(Blocks)
      BY <1>0, <1>2
    <3>5. c \in DOMAIN q /\ p \in Blocks
      <4> HIDE DEF q, p
      <4> QED BY <3>3, <3>4
    <3> DEFINE r == f.ptr[p]
    <3>6. r \in Seq(Blocks)
      <4> HIDE DEF p
      <4> QED BY <1>0, <3>5
    <3>7. PtrIn(f, p, m) = IF m \in 1 .. Len(r) THEN r[m] ELSE Null
      <4> HIDE DEF p
      <4> QED BY <2>2 DEF PtrIn
    <3>8. PtrIn(h, p, m) = IF m \in 1 .. Len(r) THEN r[m] ELSE Null
      <4> HIDE DEF p
      <4> QED BY <2>2, <3>2 DEF PtrIn
    <3>9. m \in 1 .. Len(r) => m \in DOMAIN r
      <4> HIDE DEF r
      <4> QED BY <3>6
    <3>10. m \in DOMAIN r => Reached(f, i, r[m])
      <4>1. q[c] # Null /\ r = f.ptr[q[c]]
        BY <2>2, <3>3
      <4> HIDE DEF q, p, r
      <4>2. ASSUME m \in DOMAIN r PROVE r[m] = f.ptr[q[c]][m] /\ m \in DOMAIN f.ptr[q[c]]
        BY <4>1, <4>2
      <4>3. ASSUME m \in DOMAIN r
            PROVE \E s \in DOMAIN f.ptr[at[Direct + 1]] :
                    LET x == f.ptr[at[Direct + 1]][s]
                    IN  x # Null /\ \E k \in DOMAIN f.ptr[x] : f.ptr[x][k] = r[m]
        BY <3>5, <4>1, <4>2, <4>3 DEF q
      <4> QED BY <3>3, <4>3 DEF Reached
    <3> HIDE DEF r
    <3> QED BY <3>7, <3>8, <3>9, <3>10
  <2> QED BY <2>1, <2>2
<1>6. ASSUME NEW j \in 1 .. n
      PROVE  /\ BlockOf(h, i, j) = BlockOf(f, i, j)
             /\ BlockOf(f, i, j) # Null => Reached(f, i, BlockOf(f, i, j))
  <2> DEFINE c == ((j - Single - 1) \div PtrsPerBlock) + 1
             m == ((j - Single - 1) % PtrsPerBlock) + 1
  <2>0. h.inode[i].block = at
    OBVIOUS
  <2>1. CASE j <= Direct
    <3>1. BlockOf(f, i, j) = at[j - 1] /\ BlockOf(h, i, j) = at[j - 1]
      BY <2>0, <2>1 DEF BlockOf
    <3>2. j - 1 \in Slots
      BY <1>0, <2>1, SlotKinds, Positive DEF Slots
    <3> QED BY <1>3, <3>1, <3>2
  <2>2. CASE ~(j <= Direct) /\ j <= Single
    <3>1. BlockOf(f, i, j) = PtrIn(f, at[Direct], j - Direct) /\ BlockOf(h, i, j) = PtrIn(h, at[Direct], j - Direct)
      BY <2>0, <2>2 DEF BlockOf
    <3> QED BY <1>4, <3>1
  <2>3. CASE ~(j <= Direct) /\ ~(j <= Single)
    <3>1. /\ BlockOf(f, i, j) = PtrIn(f, PtrIn(f, at[Direct + 1], c), m)
          /\ BlockOf(h, i, j) = PtrIn(h, PtrIn(h, at[Direct + 1], c), m)
      BY <2>0, <2>3 DEF BlockOf
    <3> HIDE DEF c, m
    <3>2. PtrIn(h, at[Direct + 1], c) = PtrIn(f, at[Direct + 1], c)
      BY <1>4
    <3> QED BY <1>5, <3>1, <3>2
  <2> QED BY <2>1, <2>2, <2>3
<1> DEFINE there(x) == {j \in 1 .. n : \A k \in 1 .. j : BlockOf(x, i, k) # Null}
           N == Cardinality(there(f))
<1>7. there(h) = there(f)
  <2>1. ASSUME NEW j \in 1 .. n PROVE \A k \in 1 .. j : BlockOf(h, i, k) = BlockOf(f, i, k)
    BY <1>0, <1>6
  <2> QED BY <2>1
<1>8. /\ FileData(f, i) = [j \in 1 .. N |-> f.data[BlockOf(f, i, j)]]
      /\ FileData(h, i) = [j \in 1 .. Cardinality(there(h)) |-> h.data[BlockOf(h, i, j)]]
  BY DEF FileData
<1>9. N \in 0 .. n /\ there(f) = 1 .. N
  <2> DEFINE T == there(f)
  <2>1. T \in SUBSET (1 .. n)
    OBVIOUS
  <2>2. \A j \in T : \A k \in 1 .. n : k < j => k \in T
    BY <1>0
  <2>3. N = Cardinality(T)
    OBVIOUS
  <2> HIDE DEF T, N
  <2>4. N \in 0 .. n /\ T = 1 .. N
    BY <1>0, <2>1, <2>2, <2>3, Downward
  <2> QED BY <2>4 DEF T
<1>10. ASSUME NEW j \in 1 .. N PROVE h.data[BlockOf(h, i, j)] = f.data[BlockOf(f, i, j)]
  <2>1. j \in there(f)
    BY <1>9
  <2>2. j \in 1 .. n /\ BlockOf(f, i, j) # Null
    BY <2>1
  <2> QED BY <1>1, <1>6, <2>2
<1> HIDE DEF N, there
<1> QED BY <1>7, <1>8, <1>10 DEF N

LEMMA FreedIsOwned ==
  ASSUME NEW f \in FsInts, NEW i \in Inodes, Shape(f, i)
  PROVE  Freed(f, i) = OwnedBlocks(f, i)
<1> DEFINE n   == f.inode[i].blocks
           at  == f.inode[i].block
           ind == at[Direct]
           dbl == at[Direct + 1]
           P   == PtrsPerBlock
<1>0. n \in Nat /\ at \in [Slots -> Blocks] /\ f.ptr \in [Blocks -> Seq(Blocks)]
  <2>1. f.inode[i] \in InodeType
    BY DEF FsInts
  <2> QED BY <2>1 DEF InodeType, FsInts
<1>1. /\ at[Direct + 2] = Null
      /\ \A s \in 0 .. Direct - 1 : at[s] # Null => s < n
      /\ ind # Null => n > Direct /\ Len(f.ptr[ind]) <= Smaller(n, Single) - Direct
      /\ dbl # Null =>
           /\ n > Single /\ Len(f.ptr[dbl]) <= Chunks(n)
           /\ \A c \in 1 .. Len(f.ptr[dbl]) : f.ptr[dbl][c] # Null =>
                Len(f.ptr[f.ptr[dbl][c]]) <= Smaller(P, n - Single - (c - 1) * P)
  BY DEF Shape
<1> HIDE DEF n, at
<1>2. ind \in Blocks /\ dbl \in Blocks
  BY <1>0, SlotKinds
<1>3. \A b \in Blocks : /\ f.ptr[b] \in Seq(Blocks) /\ Len(f.ptr[b]) \in Nat
                        /\ DOMAIN f.ptr[b] = 1 .. Len(f.ptr[b])
                        /\ \A m \in 1 .. Len(f.ptr[b]) : f.ptr[b][m] \in Blocks
  BY <1>0
<1>4. ASSUME NEW b \in Blocks, NEW m, PtrIn(f, b, m) # Null
      PROVE  b # Null /\ m \in DOMAIN f.ptr[b] /\ f.ptr[b][m] = PtrIn(f, b, m)
             /\ PtrIn(f, b, m) \in Blocks
  BY <1>3, <1>4 DEF PtrIn
<1>5. ASSUME NEW b \in Blocks, b # Null, NEW m \in DOMAIN f.ptr[b]
      PROVE  PtrIn(f, b, m) = f.ptr[b][m]
  BY <1>3, <1>5 DEF PtrIn
<1>6. Direct \in Nat \ {0} /\ P \in Nat \ {0} /\ Single \in Nat /\ Single = Direct + P
  BY Positive, TurnNumbers DEF Single
<1>7. ASSUME NEW j \in 1 .. n, BlockOf(f, i, j) # Null
      PROVE  Reached(f, i, BlockOf(f, i, j))
  <2> DEFINE q == j - Single - 1
             c == (q \div P) + 1
             m == (q % P) + 1
  <2>1. CASE j <= Direct
    <3>1. BlockOf(f, i, j) = at[j - 1] /\ j - 1 \in Slots
      <4>1. j - 1 \in Slots
        BY <1>0, <1>6, <2>1 DEF Slots
      <4> QED BY <2>1, <4>1 DEF BlockOf, at
    <3> QED BY <3>1 DEF Reached, at
  <2>2. CASE ~(j <= Direct) /\ j <= Single
    <3>1. BlockOf(f, i, j) = PtrIn(f, ind, j - Direct)
      BY <2>2 DEF BlockOf, at
    <3>2. ind # Null /\ j - Direct \in DOMAIN f.ptr[ind] /\ f.ptr[ind][j - Direct] = BlockOf(f, i, j)
      BY <1>2, <1>4, <1>7, <3>1
    <3> QED BY <3>2 DEF Reached, at
  <2>3. CASE ~(j <= Direct) /\ ~(j <= Single)
    <3>1. BlockOf(f, i, j) = PtrIn(f, PtrIn(f, dbl, c), m)
      BY <2>3 DEF BlockOf, at
    <3> HIDE DEF c, m
    <3> DEFINE p == PtrIn(f, dbl, c)
    <3>2. p # Null
      BY <1>7, <3>1 DEF PtrIn
    <3>3. dbl # Null /\ c \in DOMAIN f.ptr[dbl] /\ f.ptr[dbl][c] = p /\ p \in Blocks
      BY <1>2, <1>4, <3>2
    <3> HIDE DEF p
    <3>4. m \in DOMAIN f.ptr[p] /\ f.ptr[p][m] = BlockOf(f, i, j)
      BY <1>4, <1>7, <3>1, <3>3 DEF p
    <3> QED BY <3>2, <3>3, <3>4 DEF Reached, at
  <2> QED BY <2>1, <2>2, <2>3
<1>8. ASSUME NEW b \in Freed(f, i) PROVE b # Null /\ Reached(f, i, b)
  <2>1. b # Null
    BY DEF Freed
  <2>2. \/ \E j \in 1 .. n : b = BlockOf(f, i, j)
        \/ b = ind \/ b = dbl
        \/ \E c \in 1 .. Chunks(n) : b = PtrIn(f, dbl, c)
    BY <1>8 DEF Freed, n, at
  <2>3. CASE b = ind \/ b = dbl
    <3>1. Direct \in Slots /\ Direct + 1 \in Slots
      BY SlotKinds
    <3>2. \E s \in Slots : at[s] = b
      BY <2>3, <3>1
    <3>3. \E s \in Slots : f.inode[i].block[s] = b
      BY <3>2 DEF at
    <3> HIDE DEF ind, dbl
    <3> QED BY <2>1, <3>3 DEF Reached
  <2>4. ASSUME NEW c \in 1 .. Chunks(n), b = PtrIn(f, dbl, c) PROVE Reached(f, i, b)
    <3>1. dbl # Null /\ c \in DOMAIN f.ptr[dbl] /\ f.ptr[dbl][c] = b
      BY <1>2, <1>4, <2>1, <2>4
    <3> QED BY <3>1 DEF Reached, at
  <2> QED BY <1>7, <2>1, <2>2, <2>3, <2>4
<1>9. ASSUME NEW b, b # Null, Reached(f, i, b) PROVE b \in Freed(f, i)
  <2>0. Freed(f, i) = ({BlockOf(f, i, j) : j \in 1 .. n}
          \cup (IF n > Direct THEN {ind} ELSE {})
          \cup (IF n > Single THEN {dbl} \cup {PtrIn(f, dbl, c) : c \in 1 .. Chunks(n)} ELSE {}))
            \ {Null}
    BY DEF Freed, n, at
  <2>1. ASSUME NEW s \in Slots, at[s] = b PROVE b \in Freed(f, i)
    <3>1. CASE s \in 0 .. Direct - 1
      <4>1. s + 1 \in 1 .. n /\ s + 1 <= Direct /\ (s + 1) - 1 = s
        BY <1>0, <1>1, <1>6, <1>9, <2>1, <3>1
      <4>2. BlockOf(f, i, s + 1) = b
        BY <2>1, <4>1 DEF BlockOf, at
      <4> QED BY <1>9, <2>0, <4>1, <4>2
    <3>2. CASE s = Direct
      BY <1>1, <1>9, <2>0, <2>1, <3>2
    <3>3. CASE s = Direct + 1
      BY <1>1, <1>9, <2>0, <2>1, <3>3
    <3>4. CASE s = Direct + 2
      BY <1>1, <1>9, <2>1, <3>4
    <3> QED BY <3>1, <3>2, <3>3, <3>4, SlotKinds
  <2>2. ASSUME ind # Null, NEW m \in DOMAIN f.ptr[ind], f.ptr[ind][m] = b PROVE b \in Freed(f, i)
    <3>1. m \in 1 .. Len(f.ptr[ind]) /\ Len(f.ptr[ind]) \in Nat
          /\ Len(f.ptr[ind]) <= Smaller(n, Single) - Direct /\ n > Direct
      BY <1>1, <1>2, <1>3, <2>2
    <3> DEFINE j == Direct + m
    <3>2. j \in 1 .. n /\ ~(j <= Direct) /\ j <= Single /\ j - Direct = m
      BY <1>0, <1>6, <3>1 DEF Smaller
    <3> HIDE DEF j
    <3>3. BlockOf(f, i, j) = PtrIn(f, ind, m)
      BY <3>2 DEF BlockOf, at
    <3>4. BlockOf(f, i, j) = b
      BY <1>2, <1>5, <2>2, <3>3
    <3> QED BY <1>9, <2>0, <3>2, <3>4
  <2>3. ASSUME dbl # Null, NEW m \in DOMAIN f.ptr[dbl], f.ptr[dbl][m] = b PROVE b \in Freed(f, i)
    <3>1. n > Single /\ m \in 1 .. Chunks(n)
      <4>1. n > Single /\ Len(f.ptr[dbl]) <= Chunks(n)
        BY <1>1, <2>3
      <4>2. Chunks(n) \in Nat
        BY <1>0, <4>1, ChunksIs
      <4>3. m \in 1 .. Len(f.ptr[dbl]) /\ Len(f.ptr[dbl]) \in Nat
        BY <1>2, <1>3, <2>3
      <4> QED BY <4>1, <4>2, <4>3
    <3>2. PtrIn(f, dbl, m) = b
      BY <1>2, <1>5, <2>3
    <3> QED BY <1>9, <2>0, <3>1, <3>2
  <2>4. ASSUME dbl # Null, NEW c \in DOMAIN f.ptr[dbl], NEW p, p = f.ptr[dbl][c], p # Null,
               NEW m \in DOMAIN f.ptr[p], f.ptr[p][m] = b
        PROVE  b \in Freed(f, i)
    <3>1. c \in 1 .. Len(f.ptr[dbl]) /\ Len(f.ptr[dbl]) \in Nat /\ p \in Blocks
      BY <1>2, <1>3, <2>4
    <3>2. m \in 1 .. Len(f.ptr[p]) /\ Len(f.ptr[p]) \in Nat
      BY <1>3, <2>4, <3>1
    <3>3. Len(f.ptr[p]) <= Smaller(P, n - Single - (c - 1) * P) /\ n > Single
      BY <1>1, <2>4, <3>1
    <3> DEFINE x == (c - 1) * P
               j == Single + x + m
               q == j - Single - 1
    <3>4. x \in Nat /\ c - 1 \in Nat
      <4>1. c - 1 \in Nat
        BY <3>1
      <4> HIDE DEF P
      <4> QED BY <1>6, <4>1, TimesNat
    <3>5. m - 1 \in 0 .. P - 1 /\ m <= n - Single - x
      <4> HIDE DEF x
      <4>1. Len(f.ptr[p]) <= Smaller(P, n - Single - x)
        BY <3>3 DEF x
      <4>2. n \in Nat /\ Single \in Nat /\ P \in Nat /\ x \in Nat
        BY <1>0, <1>6, <3>4
      <4> DEFINE L == Len(f.ptr[p])
                 r == n - Single - x
      <4>3. L \in Nat /\ m \in 1 .. L /\ L <= Smaller(P, r) /\ r \in Int
        BY <3>2, <4>1, <4>2
      <4>4. Smaller(P, r) <= P /\ Smaller(P, r) <= r /\ Smaller(P, r) \in Int
        <5> HIDE DEF P, L, r
        <5> QED BY <4>2, <4>3 DEF Smaller
      <4>5. m \in Nat \ {0} /\ m <= P /\ m <= r
        <5> HIDE DEF P, L, r
        <5> QED BY <4>2, <4>3, <4>4
      <4> HIDE DEF P
      <4> QED BY <4>2, <4>5
    <3>6. (x + (m - 1)) \div P = c - 1 /\ (x + (m - 1)) % P = m - 1
      <4> HIDE DEF P
      <4> QED BY <1>6, <3>4, <3>5, DivIs
    <3> HIDE DEF x
    <3>7. j \in 1 .. n /\ ~(j <= Direct) /\ ~(j <= Single) /\ q = x + (m - 1)
      <4>1. m \in Nat \ {0}
        BY <3>2
      <4>2. P \in Nat /\ Direct \in Nat /\ Single = Direct + P /\ n \in Nat /\ x \in Nat
        BY <1>0, <1>6, <3>4
      <4> HIDE DEF P
      <4> QED BY <3>5, <4>1, <4>2
    <3>8. (q \div P) + 1 = c /\ (q % P) + 1 = m
      BY <3>1, <3>2, <3>6, <3>7
    <3>9. BlockOf(f, i, j) = PtrIn(f, PtrIn(f, dbl, (q \div P) + 1), (q % P) + 1)
      <4> HIDE DEF j
      <4> QED BY <3>7 DEF BlockOf, at
    <3> HIDE DEF q, j
    <3>10. PtrIn(f, dbl, c) = p /\ PtrIn(f, p, m) = b
      BY <1>2, <1>5, <2>4, <3>1
    <3>11. BlockOf(f, i, j) = b
      BY <3>8, <3>9, <3>10
    <3> QED BY <1>9, <2>0, <3>7, <3>11
  <2> QED BY <1>9, <2>1, <2>2, <2>3, <2>4 DEF Reached, at
<1> QED BY <1>8, <1>9, OwnedReached

LEMMA OwnedInBlocks ==
  ASSUME NEW f \in FsInts, NEW i \in Inodes
  PROVE  OwnedBlocks(f, i) \subseteq Blocks \ {Null}
<1> SUFFICES ASSUME NEW b, b # Null, Reached(f, i, b) PROVE b \in Blocks
  BY OwnedReached
<1> DEFINE at == f.inode[i].block
<1>1. at \in [Slots -> Blocks] /\ Direct \in Slots /\ Direct + 1 \in Slots
  <2>1. f.inode[i] \in InodeType
    BY DEF FsInts
  <2> QED BY <2>1, SlotKinds DEF InodeType
<1>2. \A x \in Blocks : \A m \in DOMAIN f.ptr[x] : f.ptr[x][m] \in Blocks
  BY DEF FsInts
<1> QED BY <1>1, <1>2 DEF Reached

LEMMA DeallocateNodeIs ==
  ASSUME NEW f \in FsInts, NEW i \in Inodes, Shape(f, i)
  PROVE  LET h == DeallocateNode(f, i)
             B == OwnedBlocks(f, i)
             g == inode_to_bgd(i)
         IN  /\ h \in FsInts /\ Clear(h) = Clear(f) \cup B
             /\ h.imap = [f.imap EXCEPT ![i] = FALSE]
             /\ h.inode = [f.inode EXCEPT ![i] = Zeroed]
             /\ \A b \in Blocks \ B :
                  h.dir[b] = f.dir[b] /\ h.data[b] = f.data[b] /\ h.ptr[b] = f.ptr[b]
             /\ \A x \in Groups : h.count.blocks[x] = f.count.blocks[x] + Cardinality(InGroup(B, x))
             /\ h.count.sblocks = f.count.sblocks + Cardinality(B)
             /\ h.count.inodes = [f.count.inodes EXCEPT ![g] = f.count.inodes[g] + 1]
             /\ h.count.sinodes = f.count.sinodes + 1
             /\ h.count.dirs = [f.count.dirs EXCEPT ![g] = DirsLeft(f, i)]
             /\ h.saved = h.count
<1> DEFINE B  == OwnedBlocks(f, i)
           g  == inode_to_bgd(i)
           r  == ReleaseBlocks(f, B)
           ds == [f.count.dirs EXCEPT ![g] = DirsLeft(f, i)]
           is == [f.count.inodes EXCEPT ![g] = f.count.inodes[g] + 1]
           si == f.count.sinodes + 1
           c  == [r.count EXCEPT !.dirs = ds, !.inodes = is, !.sinodes = si]
           no == [f.inode EXCEPT ![i] = Zeroed]
           m  == [f.imap EXCEPT ![i] = FALSE]
           h  == [r EXCEPT !.inode = no, !.imap = m, !.count = c]
<1>1. B \in SUBSET Blocks /\ Freed(f, i) = B
  BY OwnedInBlocks, FreedIsOwned
<1>2. f.count \in CountInts /\ g \in Groups
  BY InodeGroupIn DEF FsInts
<1>3. DeallocateNode(f, i) = SyncMetadata(h)
  BY <1>1 DEF DeallocateNode
<1> HIDE DEF B
<1>4. /\ r \in FsInts /\ SameTables(f, r)
      /\ r.bmap = [b \in Blocks |-> f.bmap[b] /\ b \notin B]
      /\ r.dir  = [b \in Blocks |-> IF b \in B THEN <<>> ELSE f.dir[b]]
      /\ r.data = [b \in Blocks |-> IF b \in B THEN NoData ELSE f.data[b]]
      /\ r.ptr  = [b \in Blocks |-> IF b \in B THEN <<>> ELSE f.ptr[b]]
      /\ r.count.blocks = [x \in Groups |-> f.count.blocks[x] + Cardinality(InGroup(B, x))]
      /\ r.count.sblocks = f.count.sblocks + Cardinality(B)
  BY <1>1, ReleaseBlocksIs
<1> HIDE DEF r, g
<1>5. ds \in [Groups -> Int] /\ is \in [Groups -> Int] /\ si \in Int
  <2>1. f.count.dirs \in [Groups -> Int] /\ f.count.inodes \in [Groups -> Int]
        /\ f.count.sinodes \in Int
    BY <1>2 DEF CountInts
  <2>2. DirsLeft(f, i) \in Int
    BY <1>2, <2>1 DEF DirsLeft, g
  <2> QED BY <1>2, <2>1, <2>2
<1> HIDE DEF ds, is, si
<1>6. c \in CountInts /\ c.dirs = ds /\ c.inodes = is /\ c.sinodes = si
      /\ c.blocks = r.count.blocks /\ c.sblocks = r.count.sblocks
  <2>1. r.count \in CountInts
    BY <1>4 DEF FsInts
  <2> QED BY <1>5, <2>1 DEF CountInts
<1> HIDE DEF c
<1>7. no \in [Inodes -> InodeType] /\ m \in [Inodes -> BOOLEAN]
  <2>1. Zeroed \in InodeType
    BY BootAndRoot DEF Zeroed, InodeType, Modes
  <2> QED BY <2>1 DEF FsInts
<1> HIDE DEF no, m
<1>8. h \in FsInts /\ h.inode = no /\ h.imap = m /\ h.count = c /\ h.bmap = r.bmap
      /\ SameContents(r, h)
  BY <1>4, <1>6, <1>7 DEF FsInts, SameContents
<1> HIDE DEF h
<1>9. LET d == SyncMetadata(h)
      IN  d \in FsInts /\ d.bmap = h.bmap /\ SameTables(h, d) /\ SameContents(h, d)
          /\ d.count = h.count /\ d.saved = h.count
  BY <1>8, SyncMetadataIs
<1> DEFINE d == SyncMetadata(h)
<1>10. Clear(d) = Clear(f) \cup B
  <2>0. d.bmap = [b \in Blocks |-> f.bmap[b] /\ b \notin B]
    BY <1>4, <1>8, <1>9
  <2> HIDE DEF d
  <2>1. \A b \in Blocks : d.bmap[b] <=> (f.bmap[b] /\ b \notin B)
    BY <2>0
  <2> QED BY <1>1, <2>1 DEF Clear
<1>11. \A b \in Blocks \ B :
          d.dir[b] = f.dir[b] /\ d.data[b] = f.data[b] /\ d.ptr[b] = f.ptr[b]
  BY <1>4, <1>8, <1>9 DEF SameContents
<1>12. /\ d \in FsInts /\ d.imap = m /\ d.inode = no /\ d.count = c /\ d.saved = d.count
  BY <1>8, <1>9 DEF SameTables
<1>13. /\ \A x \in Groups : c.blocks[x] = f.count.blocks[x] + Cardinality(InGroup(B, x))
       /\ c.sblocks = f.count.sblocks + Cardinality(B)
  BY <1>4, <1>6
<1> HIDE DEF d
<1>14. /\ d \in FsInts /\ Clear(d) = Clear(f) \cup B /\ d.imap = m /\ d.inode = no
       /\ \A b \in Blocks \ B :
            d.dir[b] = f.dir[b] /\ d.data[b] = f.data[b] /\ d.ptr[b] = f.ptr[b]
       /\ \A x \in Groups : d.count.blocks[x] = f.count.blocks[x] + Cardinality(InGroup(B, x))
       /\ d.count.sblocks = f.count.sblocks + Cardinality(B)
       /\ d.count.inodes = is /\ d.count.sinodes = si /\ d.count.dirs = ds /\ d.saved = d.count
  BY <1>6, <1>10, <1>11, <1>12, <1>13
<1> QED BY <1>3, <1>14 DEF d, B, g, ds, is, si, no, m

=============================================================================
