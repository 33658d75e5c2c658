------------------------------ MODULE Ext2Proofs ------------------------------
(***************************************************************************)
(* The theorems about Ext2, for every disk, every set of names and data,   *)
(* and any sequence of calls that stays clear of four mishaps of the code  *)
(* (Handled).                                                              *)
(***************************************************************************)
EXTENDS Ext2BlockProofs

-----------------------------------------------------------------------------
(* The calls the theorems are about.                                       *)

Stops(f, req) == Named(f, req.parent, req.name) \cup Roomy(f, req.parent, req.name)

Inserts(f, req) ==
  /\ IsDir(f, req.parent) /\ Stops(f, req) # {}
  /\ FirstOf(Stops(f, req)) \notin Named(f, req.parent, req.name)

Grows(f, req) ==
  /\ IsDir(f, req.parent) /\ Stops(f, req) = {}
  /\ FreeFrom(f, inode_to_bgd(req.parent)) # {}

(* A new directory gets a block of its own.                                *)
RoomFor(f, req, i) == req.type = "dir" => FreeFrom(f, inode_to_bgd(i)) # {}

(* What the code does not handle, and what therefore does not happen here: *)
(* a new directory in a full group takes the group's first data block      *)
(* (ext2.c:113); and where the parent has to grow, no inode is left        *)
(* (ext2.c:650), the new inode is in the table block that is written back  *)
(* (ext2.c:701), or the parent has all of its direct blocks (ext2.c:640).  *)
Handled(f, req) ==
  LET d == req.parent
      i == NewInode(f)
      b == LeastOf(FreeFrom(f, inode_to_bgd(d)))
  IN  /\ Inserts(f, req) /\ i # 0 => RoomFor(f, req, i)
      /\ Grows(f, req) => /\ i # 0 /\ TableBlock(i) # TableBlock(d)
                          /\ f.inode[d].blocks < Direct
                          /\ RoomFor(TakeBlocks(f, {b}), req, i)

HandledNext ==
  \/ \E req \in WriteRequests : Handled(fs, req) /\ Write(req)
  \/ \E req \in DeleteRequests : Delete(req)
  \/ Reboot

HandledSpec == Init /\ [][HandledNext]_fs

-----------------------------------------------------------------------------
(* The inductive invariant: blocks.                                        *)

Owned(f) ==
  /\ \A i \in Used(f) : OwnedBlocks(f, i) \cap (Clear(f) \cup Meta) = {} /\ Shape(f, i)
  /\ \A i, j \in Used(f) : i # j => OwnedBlocks(f, i) \cap OwnedBlocks(f, j) = {}
  /\ \A b \in Blocks \ (Meta \cup Clear(f)) : \E i \in Used(f) : b \in OwnedBlocks(f, i)

UsedDirs(f)      == {d \in Used(f) : IsDir(f, d)}
DirSlots(f, d)   == 0 .. f.inode[d].blocks - 1
Entries(f, d, s) == f.dir[f.inode[d].block[s]]

LEMMA OwnedFrame ==
  ASSUME NEW f \in FsInts, NEW h, NEW j \in Inodes, h.inode[j] = f.inode[j],
         \A b \in OwnedBlocks(f, j) : h.ptr[b] = f.ptr[b], Shape(f, j)
  PROVE  OwnedBlocks(h, j) = OwnedBlocks(f, j) /\ Shape(h, j)
<1> DEFINE at == f.inode[j].block
<1>1. at \in [Slots -> Blocks] /\ Direct \in Slots /\ Direct + 1 \in Slots
  <2>1. f.inode[j] \in InodeType
    BY DEF FsInts
  <2> QED BY <2>1, SlotKinds DEF InodeType
<1>2. \A s \in Slots : at[s] # Null => h.ptr[at[s]] = f.ptr[at[s]]
  <2> TAKE s \in Slots
  <2> HAVE at[s] # Null
  <2>1. Reached(f, j, at[s])
    BY DEF Reached
  <2> QED BY <2>1, OwnedReached
<1>3. \A b \in Blocks : f.ptr[b] \in Seq(Blocks)
  BY DEF FsInts
<1>4. ASSUME at[Direct + 1] # Null, NEW c \in DOMAIN f.ptr[at[Direct + 1]],
             f.ptr[at[Direct + 1]][c] # Null
      PROVE  h.ptr[f.ptr[at[Direct + 1]][c]] = f.ptr[f.ptr[at[Direct + 1]][c]]
  <2>1. Reached(f, j, f.ptr[at[Direct + 1]][c])
    BY <1>4 DEF Reached
  <2> QED BY <1>4, <2>1, OwnedReached
<1>5. ASSUME NEW b PROVE Reached(h, j, b) <=> Reached(f, j, b)
  <2> DEFINE P1(x) == \E s \in Slots : at[s] = b
             P2(x) == \E s \in {Direct, Direct + 1} :
                        at[s] # Null /\ \E m \in DOMAIN x.ptr[at[s]] : x.ptr[at[s]][m] = b
             P3(x) == /\ at[Direct + 1] # Null
                      /\ \E c \in DOMAIN x.ptr[at[Direct + 1]] :
                           LET p == x.ptr[at[Direct + 1]][c]
                           IN  p # Null /\ \E m \in DOMAIN x.ptr[p] : x.ptr[p][m] = b
  <2>1. Reached(f, j, b) <=> P1(f) \/ P2(f) \/ P3(f)
    BY DEF Reached
  <2>2. Reached(h, j, b) <=> P1(h) \/ P2(h) \/ P3(h)
    BY DEF Reached
  <2>3. P2(h) <=> P2(f)
    <3>1. \A s \in {Direct, Direct + 1} : at[s] # Null => h.ptr[at[s]] = f.ptr[at[s]]
      BY <1>1, <1>2
    <3> QED BY <3>1
  <2>4. P3(h) <=> P3(f)
    <3> DEFINE q == f.ptr[at[Direct + 1]]
               r == h.ptr[at[Direct + 1]]
    <3>1. CASE at[Direct + 1] = Null
      BY <3>1
    <3>2. CASE at[Direct + 1] # Null
      <4>1. r = q
        BY <1>1, <1>2, <3>2
      <4>2. \A c \in DOMAIN q : q[c] # Null => h.ptr[q[c]] = f.ptr[q[c]]
        BY <1>4, <3>2
      <4>3. P3(f) <=> \E c \in DOMAIN q : q[c] # Null /\ \E m \in DOMAIN f.ptr[q[c]] : f.ptr[q[c]][m] = b
        BY <3>2
      <4>4. P3(h) <=> \E c \in DOMAIN r : r[c] # Null /\ \E m \in DOMAIN h.ptr[r[c]] : h.ptr[r[c]][m] = b
        BY <3>2
      <4> HIDE DEF r, P3
      <4>5. P3(h) <=> \E c \in DOMAIN q : q[c] # Null /\ \E m \in DOMAIN h.ptr[q[c]] : h.ptr[q[c]][m] = b
        BY <4>1, <4>4
      <4> HIDE DEF q
      <4>6. \A c \in DOMAIN q : q[c] # Null =>
              ((\E m \in DOMAIN h.ptr[q[c]] : h.ptr[q[c]][m] = b)
                <=> (\E m \in DOMAIN f.ptr[q[c]] : f.ptr[q[c]][m] = b))
        BY <4>2
      <4> QED BY <4>3, <4>5, <4>6
    <3> QED BY <3>1, <3>2
  <2> QED BY <2>1, <2>2, <2>3, <2>4
<1>6. OwnedBlocks(h, j) = OwnedBlocks(f, j)
  BY <1>5, OwnedReached
<1>7. Shape(h, j)
  <2> DEFINE n == f.inode[j].blocks
             q == f.ptr[at[Direct + 1]]
  <2>1. /\ at[Direct + 2] = Null
        /\ \A s \in 0 .. Direct - 1 : at[s] # Null => s < n
        /\ at[Direct] # Null => n > Direct /\ Len(h.ptr[at[Direct]]) <= Smaller(n, Single) - Direct
    BY <1>1, <1>2 DEF Shape
  <2>2. ASSUME at[Direct + 1] # Null
        PROVE  /\ n > Single /\ h.ptr[at[Direct + 1]] = q /\ Len(q) <= Chunks(n)
               /\ \A c \in 1 .. Len(q) : q[c] # Null =>
                    Len(h.ptr[q[c]]) <= Smaller(PtrsPerBlock, n - Single - (c - 1) * PtrsPerBlock)
    <3>1. h.ptr[at[Direct + 1]] = q /\ q \in Seq(Blocks)
      BY <1>1, <1>2, <1>3, <2>2
    <3>2. \A c \in 1 .. Len(q) : q[c] # Null => h.ptr[q[c]] = f.ptr[q[c]]
      <4>1. \A c \in DOMAIN q : q[c] # Null => h.ptr[q[c]] = f.ptr[q[c]]
        BY <1>4, <2>2
      <4> HIDE DEF q
      <4> QED BY <3>1, <4>1
    <3>3. /\ n > Single /\ Len(q) <= Chunks(n)
          /\ \A c \in 1 .. Len(q) : q[c] # Null =>
               Len(f.ptr[q[c]]) <= Smaller(PtrsPerBlock, n - Single - (c - 1) * PtrsPerBlock)
      BY <2>2 DEF Shape
    <3> QED BY <3>1, <3>2, <3>3
  <2>3. h.inode[j].block = at /\ h.inode[j].blocks = n
    OBVIOUS
  <2> QED BY <2>1, <2>2, <2>3 DEF Shape
<1> QED BY <1>6, <1>7

LEMMA DirOwns ==
  ASSUME NEW f \in FsInts, NEW d \in Inodes, Shape(f, d), DirShape(f, d)
  PROVE  /\ OwnedBlocks(f, d) = {f.inode[d].block[s] : s \in DirSlots(f, d)}
         /\ \A s \in Slots \ DirSlots(f, d) : f.inode[d].block[s] = Null
         /\ DirSlots(f, d) \subseteq Slots /\ 0 \in DirSlots(f, d)
<1> DEFINE at == f.inode[d].block
           n  == f.inode[d].blocks
<1>1. n \in 1 .. Direct /\ Direct \in Nat
  BY Positive DEF DirShape
<1>2. at[Direct] = Null /\ at[Direct + 1] = Null /\ at[Direct + 2] = Null
  BY <1>1, TurnNumbers DEF Shape
<1>3. DirSlots(f, d) = 0 .. n - 1 /\ 0 \in DirSlots(f, d) /\ DirSlots(f, d) \subseteq 0 .. Direct - 1
  BY <1>1 DEF DirSlots
<1>4. \A s \in Slots \ DirSlots(f, d) : at[s] = Null
  <2> TAKE s \in Slots \ DirSlots(f, d)
  <2>1. CASE s \in 0 .. Direct - 1
    BY <1>1, <1>3, <2>1 DEF Shape
  <2> QED BY <1>2, <2>1, SlotKinds
<1>5. \A s \in DirSlots(f, d) : at[s] # Null
  BY <1>3 DEF DirShape
<1>6. ASSUME NEW b PROVE Reached(f, d, b) <=> \E s \in Slots : at[s] = b
  BY <1>2 DEF Reached
<1>7. OwnedBlocks(f, d) = {at[s] : s \in DirSlots(f, d)}
  BY <1>3, <1>4, <1>5, <1>6, OwnedReached, SlotKinds
<1> QED BY <1>3, <1>4, <1>7, SlotKinds

LEMMA DirKept ==
  ASSUME NEW f, NEW h, NEW d, h.inode[d] = f.inode[d], DirShape(f, d)
  PROVE  DirShape(h, d)
BY DEF DirShape

LEMMA DirGrown ==
  ASSUME NEW f \in FsInts, NEW h \in FsInts, NEW d \in Inodes, Shape(f, d), DirShape(f, d),
         f.inode[d].blocks < Direct, NEW b \in Blocks \ {Null}, b \notin OwnedBlocks(f, d),
         h.inode[d] = GrownParent(f, d, b)
  PROVE  LET n == f.inode[d].blocks
         IN  /\ Shape(h, d) /\ DirShape(h, d) /\ OwnedBlocks(h, d) = OwnedBlocks(f, d) \cup {b}
             /\ h.inode[d].mode = f.inode[d].mode
             /\ DirSlots(h, d) = DirSlots(f, d) \cup {n} /\ h.inode[d].block[n] = b
             /\ n \notin DirSlots(f, d) /\ 0 \in DirSlots(f, d)
             /\ \A s \in DirSlots(f, d) : h.inode[d].block[s] = f.inode[d].block[s]
<1> DEFINE n   == f.inode[d].blocks
           at  == f.inode[d].block
           new == [at EXCEPT ![n] = b]
<1>1. f.inode[d] \in InodeType /\ n \in 1 .. Direct /\ n < Direct /\ Direct \in Nat
  BY Positive DEF FsInts, DirShape
<1>2. at \in [Slots -> Blocks] /\ n \in Slots /\ n \in 0 .. Direct - 1
  BY <1>1, SlotKinds DEF InodeType
<1>3. h.inode[d].blocks = n + 1 /\ h.inode[d].block = new /\ h.inode[d].mode = f.inode[d].mode
  BY <1>1 DEF GrownParent, InodeType
<1>4. new[n] = b /\ \A s \in Slots \ {n} : new[s] = at[s]
  BY <1>2
<1>5. \A s \in Slots \ (0 .. n - 1) : at[s] = Null
  BY DirOwns DEF DirSlots
<1>6. OwnedBlocks(f, d) = {at[s] : s \in 0 .. n - 1}
  BY DirOwns DEF DirSlots
<1>7. (0 .. n) \subseteq Slots /\ 0 .. (n + 1) - 1 = (0 .. n - 1) \cup {n} /\ n \notin 0 .. n - 1
      /\ 0 \in 0 .. n - 1 /\ 0 .. (n + 1) - 1 \subseteq Slots
  BY <1>1, <1>2, SlotKinds
<1>8. \A s \in Slots : new[s] # Null => s \in 0 .. n
  BY <1>1, <1>4, <1>5, <1>7
<1>9. Shape(h, d)
  <2>1. new[Direct] = Null /\ new[Direct + 1] = Null /\ new[Direct + 2] = Null
    BY <1>1, <1>8, SlotKinds
  <2>2. \A s \in 0 .. Direct - 1 : new[s] # Null => s < n + 1
    BY <1>1, <1>8, SlotKinds
  <2> HIDE DEF new, n
  <2> QED BY <1>3, <2>1, <2>2 DEF Shape
<1>10. DirShape(h, d)
  <2>1. \A s \in 0 .. n : new[s] # Null
    BY <1>1, <1>2, <1>4, <1>7 DEF DirShape
  <2>2. \A s, t \in 0 .. n : new[s] = new[t] => s = t
    <3> TAKE s, t \in 0 .. n
    <3> HAVE new[s] = new[t]
    <3>1. s \in Slots /\ t \in Slots /\ (s # n => s \in 0 .. n - 1) /\ (t # n => t \in 0 .. n - 1)
      BY <1>1, <1>7
    <3>2. CASE s = n /\ t = n
      BY <3>2
    <3>3. CASE s # n /\ t # n
      BY <1>4, <3>1, <3>3 DEF DirShape
    <3>4. CASE s = n /\ t # n
      <4>1. new[s] = b /\ new[t] = at[t] /\ at[t] \in OwnedBlocks(f, d)
        BY <1>4, <1>6, <3>1, <3>4
      <4> QED BY <4>1
    <3>5. CASE s # n /\ t = n
      <4>1. new[t] = b /\ new[s] = at[s] /\ at[s] \in OwnedBlocks(f, d)
        BY <1>4, <1>6, <3>1, <3>5
      <4> QED BY <4>1
    <3> QED BY <3>2, <3>3, <3>4, <3>5
  <2>3. n + 1 \in 1 .. Direct /\ (n + 1) - 1 = n
    BY <1>1
  <2> HIDE DEF new, n
  <2> QED BY <1>3, <2>1, <2>2, <2>3 DEF DirShape
<1>11. OwnedBlocks(h, d) = OwnedBlocks(f, d) \cup {b}
  <2>1. OwnedBlocks(h, d) = {new[s] : s \in 0 .. (n + 1) - 1}
    <3>1. OwnedBlocks(h, d) = {h.inode[d].block[s] : s \in DirSlots(h, d)}
      BY <1>9, <1>10, DirOwns
    <3> QED BY <1>3, <3>1 DEF DirSlots
  <2>2. \A s \in 0 .. n - 1 : new[s] = at[s]
    BY <1>4, <1>7
  <2> HIDE DEF new
  <2> QED BY <1>4, <1>6, <1>7, <2>1, <2>2
<1>12. DirSlots(h, d) = DirSlots(f, d) \cup {n} /\ n \notin DirSlots(f, d) /\ 0 \in DirSlots(f, d)
  BY <1>3, <1>7 DEF DirSlots
<1>13. \A s \in DirSlots(f, d) : h.inode[d].block[s] = at[s]
  BY <1>3, <1>4, <1>7 DEF DirSlots
<1> QED BY <1>3, <1>4, <1>9, <1>10, <1>11, <1>12, <1>13

(* An inode i with the blocks B comes, and d gets the blocks A.            *)
LEMMA OwnedCreated ==
  ASSUME NEW f, NEW h, NEW i, i \notin Used(f), NEW d \in Used(f), NEW A, NEW B,
         Owned(f), Used(h) = Used(f) \cup {i},
         A \subseteq Clear(f) \ Meta, B \subseteq Clear(f) \ Meta, A \cap B = {},
         Clear(h) = Clear(f) \ (A \cup B),
         \A j \in Used(f) \ {d} : OwnedBlocks(h, j) = OwnedBlocks(f, j) /\ Shape(h, j),
         OwnedBlocks(h, d) = OwnedBlocks(f, d) \cup A, Shape(h, d),
         OwnedBlocks(h, i) = B, Shape(h, i)
  PROVE  Owned(h)
<1>1. ASSUME NEW j \in Used(h)
      PROVE  OwnedBlocks(h, j) \cap (Clear(h) \cup Meta) = {} /\ Shape(h, j)
  <2>1. CASE j = i
    BY <2>1
  <2>2. CASE j = d
    BY <2>2 DEF Owned
  <2>3. CASE j \in Used(f) \ {d}
    BY <2>3 DEF Owned
  <2> QED BY <2>1, <2>2, <2>3
<1>2. \A j \in Used(f) : OwnedBlocks(h, j) \subseteq OwnedBlocks(f, j) \cup A
                         /\ OwnedBlocks(f, j) \cap Clear(f) = {}
  BY DEF Owned
<1>3. ASSUME NEW j \in Used(h), NEW k \in Used(h), j # k
      PROVE  OwnedBlocks(h, j) \cap OwnedBlocks(h, k) = {}
  <2>1. CASE j = i
    BY <1>2, <1>3, <2>1
  <2>2. CASE k = i
    BY <1>2, <1>3, <2>2
  <2>3. CASE j # i /\ k # i
    <3>1. OwnedBlocks(f, j) \cap OwnedBlocks(f, k) = {}
      BY <1>3, <2>3 DEF Owned
    <3>2. CASE j = d
      BY <1>2, <1>3, <2>3, <3>1, <3>2
    <3>3. CASE k = d
      BY <1>2, <1>3, <2>3, <3>1, <3>3
    <3> QED BY <2>3, <3>1, <3>2, <3>3
  <2> QED BY <2>1, <2>2, <2>3
<1>4. ASSUME NEW b \in Blocks \ (Meta \cup Clear(h)) PROVE \E j \in Used(h) : b \in OwnedBlocks(h, j)
  <2>1. CASE b \in Clear(f)
    BY <1>4, <2>1
  <2>2. CASE b \notin Clear(f)
    <3>1. PICK j \in Used(f) : b \in OwnedBlocks(f, j)
      BY <1>4, <2>2 DEF Owned
    <3>2. b \in OwnedBlocks(h, j)
      BY <3>1
    <3> QED BY <3>1, <3>2
  <2> QED BY <2>1, <2>2
<1> QED BY <1>1, <1>3, <1>4 DEF Owned

(* An inode goes, and what it owned is free.                               *)
LEMMA OwnedDeleted ==
  ASSUME NEW f, NEW h, NEW i \in Used(f), Owned(f), Used(h) = Used(f) \ {i},
         OwnedBlocks(f, i) \subseteq Blocks, Clear(h) = Clear(f) \cup OwnedBlocks(f, i),
         \A j \in Used(h) : OwnedBlocks(h, j) = OwnedBlocks(f, j) /\ Shape(h, j)
  PROVE  Owned(h)
<1>1. ASSUME NEW j \in Used(h)
      PROVE  OwnedBlocks(h, j) \cap (Clear(h) \cup Meta) = {} /\ Shape(h, j)
  <2>1. OwnedBlocks(f, j) \cap OwnedBlocks(f, i) = {} /\ j \in Used(f)
    BY DEF Owned
  <2> QED BY <2>1 DEF Owned
<1>2. \A j, k \in Used(h) : j # k => OwnedBlocks(h, j) \cap OwnedBlocks(h, k) = {}
  BY DEF Owned
<1>3. ASSUME NEW b \in Blocks \ (Meta \cup Clear(h)) PROVE \E j \in Used(h) : b \in OwnedBlocks(h, j)
  <2>1. PICK j \in Used(f) : b \in OwnedBlocks(f, j)
    BY DEF Owned
  <2>2. j \in Used(h)
    BY <2>1
  <2> QED BY <2>1, <2>2
<1> QED BY <1>1, <1>2, <1>3 DEF Owned

-----------------------------------------------------------------------------
(* What a write makes.                                                     *)

LEMMA FreeSame ==
  ASSUME NEW f, NEW h, h.bmap = f.bmap, h.count.blocks = f.count.blocks
  PROVE  \A g : FreeFrom(h, g) = FreeFrom(f, g)
BY DEF FreeFrom

(* Where the counts are exact, the searches find every clear block.        *)
LEMMA FreeCounted ==
  ASSUME NEW f, Counted(f), NEW g
  PROVE  FreeFrom(f, g) = {b \in Clear(f) : Group(b) >= g}
<1> SUFFICES ASSUME NEW b \in Clear(f), Group(b) >= g PROVE f.count.blocks[Group(b)] > 0
  BY DEF FreeFrom, Clear
<1>1. b \in Blocks /\ Group(b) \in Groups
  BY GroupIn DEF Clear
<1>2. f.count.blocks[Group(b)] = Cardinality(InGroup(Clear(f), Group(b)))
  BY <1>1 DEF Counted, BlocksCounted
<1>3. Clear(f) \in SUBSET Blocks
  BY DEF Clear
<1>4. b \in InGroup(Clear(f), Group(b))
  BY DEF InGroup
<1>5. IsFiniteSet(InGroup(Clear(f), Group(b))) /\ Cardinality(InGroup(Clear(f), Group(b))) \in Nat
  BY <1>3, GroupFinite
<1>6. Cardinality(InGroup(Clear(f), Group(b))) # 0
  BY <1>4, <1>5, FS_EmptySet
<1> QED BY <1>2, <1>5, <1>6

LEMMA NewInodeIs ==
  ASSUME NEW f, NewInode(f) # 0
  PROVE  NewInode(f) \in Inodes \ Used(f)
<1>1. FreeInodes(f) # {} /\ FreeInodes(f) \subseteq Nat
  BY FiniteSets DEF NewInode, FreeInodes
<1>2. NewInode(f) \in FreeInodes(f)
  BY <1>1, LeastOfIs DEF NewInode
<1> QED BY <1>2 DEF FreeInodes, Used

LEMMA RequestFields ==
  ASSUME NEW req \in WriteRequests
  PROVE  /\ req.parent \in Inodes /\ req.name \in Names /\ req.type \in {"reg", "dir"}
         /\ req.type \in Kinds /\ req.size \in Nat /\ req.data \in Datas
         /\ req.type = "reg" => req.size \in Sizes
<1>1. req \in [parent : Inodes, name : Names, type : Kinds, size : Sizes \cup {0}, data : Datas]
  BY DEF WriteRequests
<1>2. Sizes \subseteq Nat /\ Kinds \subseteq {"reg", "dir"}
  BY Ext2Assumption
<1>3. /\ req.parent \in Inodes /\ req.name \in Names /\ req.type \in Kinds /\ req.data \in Datas
      /\ req.size \in Sizes \cup {0}
  BY <1>1
<1>4. req.type = "reg" => req.size \in Sizes
  BY DEF WriteRequests
<1>5. req.type \in {"reg", "dir"}
  BY <1>2, <1>3
<1>6. \A x \in Sizes \cup {0} : x \in Nat
  BY <1>2
<1> QED BY <1>3, <1>4, <1>5, <1>6

(* A new file holds the data as far as the groups had blocks for it.       *)
FileStored(h, i, req, room) ==
  req.type = "reg" =>
    h.inode[i].blocks = req.size /\ HoldsData(h, i, req.data, req.size, room)

(* The groups that i's blocks come from have blocks for all of the data.   *)
DataFits(f, i, req) == TurnsFor(req.size) <= Cardinality(FreeFrom(f, inode_to_bgd(i)))

(* The inode that is allocated and filled: its blocks were clear, and the  *)
(* counts stay exact.                                                      *)
LEMMA FillIs ==
  ASSUME NEW f \in FsInts, NEW i \in Inodes \ Used(f), NEW req \in WriteRequests,
         Meta \cap Clear(f) = {}, Counted(f), RoomFor(f, req, i)
  PROVE  LET h == FillInode(TakeInode(f, i), i, req)
             B == OwnedBlocks(h, i)
         IN  /\ h \in FsInts /\ B \subseteq Clear(f) /\ Clear(h) = Clear(f) \ B
             /\ h.imap = [f.imap EXCEPT ![i] = TRUE]
             /\ h.inode = [f.inode EXCEPT ![i] = h.inode[i]]
             /\ \A b \in Blocks \ B :
                  h.dir[b] = f.dir[b] /\ h.data[b] = f.data[b] /\ h.ptr[b] = f.ptr[b]
             /\ Shape(h, i) /\ h.inode[i].mode = req.type
             /\ IsDir(h, i) => /\ DirShape(h, i) /\ h.inode[i].blocks = 1
                               /\ h.dir[h.inode[i].block[0]] = DirTable(i, req.parent)
             /\ Counted(h) /\ FileStored(h, i, req, DataFits(f, i, req))
<1> DEFINE g == inode_to_bgd(i)
           t == TakeInode(f, i)
           h == FillInode(t, i, req)
           B == OwnedBlocks(h, i)
<1>1. /\ t \in FsInts /\ t.bmap = f.bmap /\ t.inode = f.inode /\ SameContents(f, t)
      /\ t.imap = [f.imap EXCEPT ![i] = TRUE]
      /\ t.count.blocks = f.count.blocks /\ t.count.sblocks = f.count.sblocks
      /\ t.count.inodes = [f.count.inodes EXCEPT ![g] = f.count.inodes[g] - 1]
      /\ t.count.sinodes = f.count.sinodes - 1 /\ t.count.dirs = f.count.dirs
  BY TakeInodeIs
<1> HIDE DEF t
<1>2. Clear(t) = Clear(f)
  BY <1>1 DEF Clear
<1>3. req.parent \in Inodes /\ req.type \in {"reg", "dir"} /\ req.data \in Datas /\ req.size \in Nat
  BY RequestFields
<1>4. /\ Filled(t, h, i, h.inode[i], B) /\ Shape(h, i) /\ h.inode[i].mode = req.type
      /\ IsDir(h, i) => /\ DirShape(h, i) /\ h.inode[i].blocks = 1
                        /\ h.dir[h.inode[i].block[0]] = DirTable(i, req.parent)
      /\ h.count.dirs = IF req.type = "dir" THEN [t.count.dirs EXCEPT ![g] = t.count.dirs[g] + 1]
                        ELSE t.count.dirs
      /\ FileStored(h, i, req, DataFits(f, i, req))
  <2>1. CASE req.type = "dir"
    <3>1. h = InitDirectory(t, i, req.parent)
      BY <2>1 DEF FillInode
    <3>2. FreeFrom(t, g) # {}
      BY <1>1, <2>1, FreeSame DEF RoomFor
    <3> DEFINE k == InitDirectory(t, i, req.parent)
    <3>0. Meta \cap Clear(t) = {}
      BY <1>2
    <3>3. /\ Filled(t, k, i, k.inode[i], {k.inode[i].block[0]})
          /\ k.count.dirs = [t.count.dirs EXCEPT ![g] = t.count.dirs[g] + 1]
          /\ k.inode[i].mode = "dir" /\ OwnedBlocks(k, i) = {k.inode[i].block[0]}
          /\ Shape(k, i) /\ DirShape(k, i) /\ k.inode[i].blocks = 1
          /\ k.dir[k.inode[i].block[0]] = DirTable(i, req.parent)
      <4>1. t \in FsInts /\ i \in Inodes /\ req.parent \in Inodes
            /\ FreeFrom(t, inode_to_bgd(i)) # {} /\ Meta \cap Clear(t) = {}
        BY <1>1, <1>3, <3>0, <3>2
      <4>2. DirMade(t, k, i, req.parent)
        BY <4>1, InitDirectoryFills
      <4> HIDE DEF k
      <4> QED BY <4>2 DEF DirMade
    <3> HIDE DEF k, h
    <3>4. h = k
      BY <3>1 DEF k
    <3>5. FileStored(h, i, req, DataFits(f, i, req))
      BY <2>1 DEF FileStored
    <3> QED BY <2>1, <3>3, <3>4, <3>5
  <2>2. CASE req.type # "dir"
    <3> DEFINE a    == AllocateNodeBlocks(t, req.data, req.size, g)
               node == [mode |-> "reg", blocks |-> req.size, block |-> a.block]
               k    == SyncNode(a.fs, i, node)
    <3>1. h = k /\ req.type = "reg"
      BY <1>3, <2>2 DEF FillInode
    <3>2. /\ Filled(t, k, i, node, OwnedBlocks(k, i)) /\ Shape(k, i) /\ k.count.dirs = t.count.dirs
          /\ HoldsData(k, i, req.data, req.size, TurnsFor(req.size) <= Cardinality(FreeFrom(t, g)))
      BY <1>1, <1>2, <1>3, AllocateFills
    <3> HIDE DEF k, h
    <3>3. k.inode[i] = node /\ node.mode = "reg" /\ node.blocks = req.size
      BY <1>1, <3>2 DEF Filled, FsInts
    <3> HIDE DEF node
    <3>4. FreeFrom(t, g) = FreeFrom(f, g)
      BY <1>1, FreeSame
    <3>5. FileStored(k, i, req, DataFits(f, i, req))
      BY <3>2, <3>3, <3>4 DEF FileStored, DataFits
    <3> QED BY <3>1, <3>2, <3>3, <3>5 DEF IsDir
  <2> QED BY <2>1, <2>2
<1> HIDE DEF h
<1>5. /\ h \in FsInts /\ B \subseteq Clear(f) /\ Clear(h) = Clear(f) \ B
      /\ h.imap = [f.imap EXCEPT ![i] = TRUE]
      /\ h.inode = [f.inode EXCEPT ![i] = h.inode[i]]
      /\ \A b \in Blocks \ B :
           h.dir[b] = f.dir[b] /\ h.data[b] = f.data[b] /\ h.ptr[b] = f.ptr[b]
      /\ \A x \in Groups : h.count.blocks[x] = f.count.blocks[x] - Cardinality(InGroup(B, x))
      /\ h.count.sblocks = f.count.sblocks - Cardinality(B)
      /\ h.count.inodes = t.count.inodes /\ h.count.sinodes = t.count.sinodes
  BY <1>1, <1>2, <1>4 DEF Filled, SameContents
<1> HIDE DEF B
<1>6. Used(h) = Used(f) \cup {i}
  BY <1>5 DEF Used, FsInts
<1>7. BlocksCounted(h)
  <2>1. BlocksCounted(f)
    BY DEF Counted
  <2> QED BY <1>5, <2>1, BlocksTaken
<1>8. InodesCounted(h)
  <2>1. InodesCounted(f) /\ f.count \in CountInts
    BY DEF Counted, FsInts
  <2>2. \A x \in Groups : h.count.inodes[x] = IF x = g THEN f.count.inodes[x] - 1 ELSE f.count.inodes[x]
    BY <1>1, <1>5, <2>1 DEF CountInts
  <2>3. h.count.sinodes = f.count.sinodes - 1 /\ i \in Inodes /\ i \notin Used(f)
    BY <1>1, <1>5
  <2> QED BY <1>6, <2>1, <2>2, <2>3, InodeTaken
<1>9. DirsCounted(h)
  <2>1. DirsCounted(f) /\ f.count \in CountInts
    BY DEF Counted, FsInts
  <2>2. \A j \in Used(f) : h.inode[j] = f.inode[j]
    BY <1>5 DEF FsInts, Used
  <2>3. \A j \in Used(f) : IsDir(h, j) = IsDir(f, j)
    BY <2>2 DEF IsDir
  <2>4. CASE req.type = "dir"
    <3>1. \A x \in Groups : h.count.dirs[x] = IF x = g THEN f.count.dirs[x] + 1 ELSE f.count.dirs[x]
      BY <1>1, <1>4, <2>1, <2>4 DEF CountInts
    <3>2. IsDir(h, i)
      BY <1>4, <2>4 DEF IsDir
    <3> QED BY <1>6, <2>1, <2>3, <3>1, <3>2, DirAdded
  <2>5. CASE req.type # "dir"
    <3>1. \A x \in Groups : h.count.dirs[x] = f.count.dirs[x]
      BY <1>1, <1>4, <2>5
    <3>2. ~IsDir(h, i)
      BY <1>4, <2>5 DEF IsDir
    <3> QED BY <1>6, <2>1, <2>3, <3>1, <3>2, FileAdded
  <2> QED BY <2>4, <2>5
<1> QED BY <1>4, <1>5, <1>7, <1>8, <1>9 DEF Counted, h, B, t

-----------------------------------------------------------------------------
(* The records of a directory block.                                       *)

(* off[m] is where the record after the m-th begins.                       *)
Fits(es, off) ==
  /\ off \in [0 .. Len(es) -> 0 .. BlockLen] /\ off[0] = 0 /\ off[Len(es)] = BlockLen
  /\ \A m \in 1 .. Len(es) : off[m] = off[m - 1] + es[m].len

Fit(es) == (\E off : Fits(es, off)) /\ \A m \in 1 .. Len(es) : Hole(es[m]) >= 0

LEMMA Lengths ==
  /\ BlockLen \in Nat \ {0, 1} /\ RecLen \in [Names \cup {Dot, DotDot} -> 1 .. BlockLen]
  /\ RecLen[Dot] \in 1 .. BlockLen /\ RecLen[DotDot] \in 1 .. BlockLen
  /\ RecLen[DotDot] <= BlockLen - RecLen[Dot]
<1>1. BlockLen \in Nat /\ RecLen \in [Names \cup {Dot, DotDot} -> 1 .. BlockLen]
      /\ RecLen[Dot] + RecLen[DotDot] <= BlockLen
  BY Ext2Assumption
<1>2. RecLen[Dot] \in 1 .. BlockLen /\ RecLen[DotDot] \in 1 .. BlockLen
  BY <1>1
<1> QED BY <1>1, <1>2

LEMMA EntryFields ==
  ASSUME NEW e \in EntryType
  PROVE  /\ e.ino \in Inodes \cup {0} /\ e.name \in Names \cup {Dot, DotDot}
         /\ e.type \in {"reg", "dir"} /\ e.len \in 1 .. BlockLen
         /\ RecLen[e.name] \in 1 .. BlockLen /\ Hole(e) = e.len - RecLen[e.name]
<1>1. e.ino \in Inodes \cup {0} /\ e.name \in Names \cup {Dot, DotDot}
      /\ e.type \in {"reg", "dir"} /\ e.len \in 1 .. BlockLen
  BY DEF EntryType
<1> QED BY <1>1, Lengths DEF Hole

(* A block holds no more records than its length has units, and the sum of *)
(* their lengths is its length.                                            *)
LEMMA FitLen ==
  ASSUME NEW es \in Seq(EntryType), NEW off, Fits(es, off)
  PROVE  LenUpTo(es) = BlockLen /\ Len(es) \in 1 .. BlockLen
<1> DEFINE L == Len(es)
           At(h, k) == IF k = 0 THEN 0 ELSE h[k - 1] + es[k].len
           sum == CHOOSE g : g = [k \in 0 .. L |-> At(g, k)]
           T == {k \in Nat : k <= L => sum[k] = off[k]}
           U == {k \in Nat : k <= L => off[k] >= k}
<1>0. L \in Nat /\ BlockLen \in Nat \ {0, 1}
  BY Lengths
<1>1. off \in [0 .. L -> 0 .. BlockLen] /\ off[0] = 0 /\ off[L] = BlockLen
      /\ \A m \in 1 .. L : off[m] = off[m - 1] + es[m].len
  BY DEF Fits
<1>2. \A m \in 1 .. L : es[m].len \in 1 .. BlockLen
  BY EntryFields
<1> HIDE DEF L
<1>3. off = [k \in 0 .. L |-> At(off, k)]
  <2>1. \A k \in 0 .. L : off[k] = At(off, k)
    BY <1>0, <1>1
  <2> HIDE DEF At
  <2> QED BY <1>1, <2>1
<1>4. sum = [k \in 0 .. L |-> At(sum, k)]
  <2> HIDE DEF At
  <2> QED BY <1>3
<1> HIDE DEF sum
<1>5. \A k \in 0 .. L : sum[k] = At(sum, k)
  <2> HIDE DEF At
  <2> QED BY <1>4
<1>6. 0 \in T
  BY <1>0, <1>1, <1>5
<1>7. ASSUME NEW k \in Nat, k \in T PROVE k + 1 \in T
  <2> SUFFICES ASSUME k + 1 <= L PROVE sum[k + 1] = off[k + 1]
    OBVIOUS
  <2>1. k + 1 \in 1 .. L /\ k + 1 \in 0 .. L /\ (k + 1) - 1 = k /\ k <= L /\ k + 1 # 0
    BY <1>0
  <2>2. sum[k + 1] = sum[k] + es[k + 1].len
    BY <1>5, <2>1
  <2>3. off[k + 1] = off[k] + es[k + 1].len
    BY <1>1, <2>1
  <2> QED BY <1>7, <2>1, <2>2, <2>3
<1>8. 0 \in U
  BY <1>1
<1>9. ASSUME NEW k \in Nat, k \in U PROVE k + 1 \in U
  <2> SUFFICES ASSUME k + 1 <= L PROVE off[k + 1] >= k + 1
    OBVIOUS
  <2>1. k + 1 \in 1 .. L /\ k + 1 \in 0 .. L /\ (k + 1) - 1 = k /\ k <= L /\ k \in 0 .. L
    BY <1>0
  <2>2. off[k + 1] = off[k] + es[k + 1].len /\ off[k] \in 0 .. BlockLen
    BY <1>1, <2>1
  <2>3. off[k] >= k /\ es[k + 1].len \in 1 .. BlockLen
    BY <1>2, <1>9, <2>1
  <2> QED BY <1>0, <2>2, <2>3
<1>10. L \in T /\ L \in U
  <2> HIDE DEF T, U
  <2>1. Nat \subseteq T
    BY <1>6, <1>7, SetInduction
  <2>2. Nat \subseteq U
    BY <1>8, <1>9, SetInduction
  <2> QED BY <1>0, <2>1, <2>2
<1>11. sum[L] = BlockLen /\ BlockLen >= L
  BY <1>0, <1>1, <1>10
<1>12. L # 0
  BY <1>0, <1>1
<1>13. LenUpTo(es) = sum[L]
  BY DEF LenUpTo, sum, L
<1> QED BY <1>0, <1>11, <1>12, <1>13 DEF L

LEMMA FitOne ==
  ASSUME NEW e \in EntryType, e.len = BlockLen
  PROVE  <<e>> \in Seq(EntryType) /\ Len(<<e>>) = 1 /\ Fit(<<e>>)
<1> DEFINE off == [m \in 0 .. 1 |-> IF m = 0 THEN 0 ELSE BlockLen]
<1>1. Fits(<<e>>, off)
  <2>1. off \in [0 .. 1 -> 0 .. BlockLen]
    BY Lengths
  <2>2. Len(<<e>>) = 1 /\ <<e>>[1] = e
    OBVIOUS
  <2>3. off[0] = 0 /\ off[1] = BlockLen /\ \A m \in 1 .. 1 : off[m] = off[m - 1] + <<e>>[m].len
    BY Lengths
  <2> HIDE DEF off
  <2> QED BY <2>1, <2>2, <2>3 DEF Fits
<1>2. Hole(e) >= 0
  BY EntryFields, Lengths
<1> QED BY <1>1, <1>2 DEF Fit

LEMMA FitTable ==
  ASSUME NEW i \in Inodes, NEW parent \in Inodes
  PROVE  Fit(DirTable(i, parent))
<1> DEFINE es  == DirTable(i, parent)
           off == [m \in 0 .. 2 |-> IF m = 0 THEN 0 ELSE IF m = 1 THEN RecLen[Dot] ELSE BlockLen]
<1>1. es \in Seq(EntryType) /\ Len(es) = 2
  BY DirTableType
<1>2. es[1].len = RecLen[Dot] /\ es[2].len = BlockLen - RecLen[Dot]
      /\ es[1].name = Dot /\ es[2].name = DotDot
  BY DEF DirTable
<1> HIDE DEF es
<1>3. Fits(es, off)
  <2>1. off \in [0 .. 2 -> 0 .. BlockLen]
    BY Lengths
  <2>2. off[0] = 0 /\ off[1] = RecLen[Dot] /\ off[2] = BlockLen
    OBVIOUS
  <2> HIDE DEF off
  <2>3. \A m \in 1 .. 2 : off[m] = off[m - 1] + es[m].len
    <3> TAKE m \in 1 .. 2
    <3>1. CASE m = 1
      BY <1>2, <2>2, <3>1, Lengths
    <3>2. CASE m = 2
      BY <1>2, <2>2, <3>2, Lengths
    <3> QED BY <3>1, <3>2
  <2> QED BY <1>1, <2>1, <2>2, <2>3 DEF Fits
<1>4. Hole(es[1]) >= 0 /\ Hole(es[2]) >= 0
  BY <1>2, Lengths DEF Hole
<1>5. \A m \in 1 .. 2 : Hole(es[m]) >= 0
  <2> TAKE m \in 1 .. 2
  <2>1. m = 1 \/ m = 2
    OBVIOUS
  <2> QED BY <1>4, <2>1
<1> QED BY <1>1, <1>3, <1>5 DEF Fit, es

(* s is old with mid in place of what is between a and c.                  *)
Spliced(s, S, old, mid, a, c) ==
  /\ s \in Seq(S) /\ Len(s) = a + Len(mid) + (Len(old) - c)
  /\ \A m \in 1 .. a : s[m] = old[m]
  /\ \A m \in 1 .. Len(mid) : s[a + m] = mid[m]
  /\ \A m \in 1 .. Len(old) - c : s[a + Len(mid) + m] = old[c + m]

LEMMA SpliceIs ==
  ASSUME NEW S, NEW old \in Seq(S), NEW mid \in Seq(S), NEW a \in Nat, NEW c \in Nat,
         a <= Len(old), a <= c, c <= Len(old)
  PROVE  Spliced(SubSeq(old, 1, a) \o mid \o SubSeq(old, c + 1, Len(old)), S, old, mid, a, c)
<1> DEFINE s1 == SubSeq(old, 1, a)
           s3 == SubSeq(old, c + 1, Len(old))
           s2 == s1 \o mid
           s  == s2 \o s3
<1>1. s1 \in Seq(S) /\ Len(s1) = a /\ \A m \in 1 .. a : s1[m] = old[m]
  OBVIOUS
<1>2. s3 \in Seq(S) /\ Len(s3) = Len(old) - c /\ \A m \in 1 .. Len(old) - c : s3[m] = old[c + m]
  OBVIOUS
<1> HIDE DEF s1, s3
<1>3. s2 \in Seq(S) /\ Len(s2) = a + Len(mid) /\ (\A m \in 1 .. a : s2[m] = s1[m])
      /\ \A m \in 1 .. Len(mid) : s2[a + m] = mid[m]
  BY <1>1
<1> HIDE DEF s2
<1>4. s \in Seq(S) /\ Len(s) = Len(s2) + Len(s3) /\ (\A m \in 1 .. Len(s2) : s[m] = s2[m])
      /\ \A m \in 1 .. Len(s3) : s[Len(s2) + m] = s3[m]
  <2>1. s2 \in Seq(S) /\ s3 \in Seq(S)
    BY <1>2, <1>3
  <2> QED BY <2>1
<1> HIDE DEF s
<1>5. Len(old) \in Nat /\ Len(mid) \in Nat
  OBVIOUS
<1>6. Len(s) = a + Len(mid) + (Len(old) - c)
  BY <1>2, <1>3, <1>4, <1>5
<1>7. \A m \in 1 .. a : s[m] = old[m]
  BY <1>1, <1>3, <1>4, <1>5
<1>8. \A m \in 1 .. Len(mid) : s[a + m] = mid[m]
  BY <1>3, <1>4, <1>5
<1>9. \A m \in 1 .. Len(old) - c : s[a + Len(mid) + m] = old[c + m]
  BY <1>2, <1>3, <1>4, <1>5
<1>10. Spliced(s, S, old, mid, a, c)
  BY <1>4, <1>6, <1>7, <1>8, <1>9 DEF Spliced
<1> QED BY <1>10 DEF s, s2, s1, s3

(* What InsertEntry writes: record k is cut to its name, and the new one   *)
(* gets what it had to spare.                                              *)
Inserted(old, k, new) ==
  SubSeq(old, 1, k - 1)
    \o <<[old[k] EXCEPT !.len = RecLen[old[k].name]], new>>
    \o SubSeq(old, k + 1, Len(old))

HasInserted(es, old, k, new) ==
  /\ es \in Seq(EntryType) /\ Len(es) = Len(old) + 1
  /\ \A m \in 1 .. k - 1 : es[m] = old[m]
  /\ es[k] = [old[k] EXCEPT !.len = RecLen[old[k].name]] /\ es[k + 1] = new
  /\ \A m \in k + 2 .. Len(old) + 1 : es[m] = old[m - 1]
  /\ Fit(es)

LEMMA InsertedIs ==
  ASSUME NEW old \in Seq(EntryType), NEW k \in 1 .. Len(old), NEW new \in EntryType,
         Hole(old[k]) = new.len, RecLen[new.name] <= new.len, Fit(old)
  PROVE  HasInserted(Inserted(old, k, new), old, k, new)
<1> DEFINE es  == Inserted(old, k, new)
           cut == [old[k] EXCEPT !.len = RecLen[old[k].name]]
           L   == Len(old)
<1>1. old[k] \in EntryType /\ L \in Nat /\ k \in 1 .. L
  OBVIOUS
<1>2. /\ cut \in EntryType /\ cut.len = RecLen[old[k].name] /\ cut.name = old[k].name
      /\ cut.len \in 1 .. BlockLen
  <2>1. RecLen[old[k].name] \in 1 .. BlockLen
    BY <1>1, EntryFields
  <2> QED BY <1>1, <2>1 DEF EntryType
<1> HIDE DEF cut
<1>3. /\ es \in Seq(EntryType) /\ Len(es) = L + 1
      /\ \A m \in 1 .. k - 1 : es[m] = old[m]
      /\ es[k] = cut /\ es[k + 1] = new
      /\ \A m \in k + 2 .. L + 1 : es[m] = old[m - 1]
  <2> DEFINE mid == <<cut, new>>
             s == SubSeq(old, 1, k - 1) \o mid \o SubSeq(old, k + 1, Len(old))
  <2>1. mid \in Seq(EntryType) /\ Len(mid) = 2 /\ mid[1] = cut /\ mid[2] = new
    BY <1>2
  <2>2. es = s
    BY DEF Inserted, cut
  <2> HIDE DEF mid
  <2>3. /\ s \in Seq(EntryType) /\ Len(s) = (k - 1) + Len(mid) + (Len(old) - k)
        /\ \A m \in 1 .. k - 1 : s[m] = old[m]
        /\ \A m \in 1 .. Len(mid) : s[(k - 1) + m] = mid[m]
        /\ \A m \in 1 .. Len(old) - k : s[(k - 1) + Len(mid) + m] = old[k + m]
    <3>1. k - 1 \in Nat /\ k \in Nat /\ k - 1 <= Len(old) /\ k - 1 <= k /\ k <= Len(old)
      BY <1>1
    <3>2. Spliced(s, EntryType, old, mid, k - 1, k)
      BY <2>1, <3>1, SpliceIs
    <3> HIDE DEF s
    <3> QED BY <3>2 DEF Spliced
  <2> HIDE DEF s, es
  <2>4. s[(k - 1) + 1] = cut /\ s[(k - 1) + 2] = new
    BY <2>1, <2>3
  <2>5. \A m \in k + 2 .. L + 1 : s[m] = old[m - 1]
    <3> TAKE m \in k + 2 .. L + 1
    <3>1. m - (k + 1) \in 1 .. Len(old) - k /\ (k - 1) + 2 + (m - (k + 1)) = m
          /\ k + (m - (k + 1)) = m - 1
      BY <1>1
    <3> DEFINE q == m - (k + 1)
    <3>2. s[(k - 1) + Len(mid) + q] = old[k + q]
      BY <2>3, <3>1
    <3>3. (k - 1) + Len(mid) + q = m /\ k + q = m - 1
      BY <2>1, <3>1
    <3> HIDE DEF q
    <3> QED BY <3>2, <3>3
  <2>6. (k - 1) + 1 = k /\ (k - 1) + 2 = k + 1 /\ (k - 1) + 2 + (L - k) = L + 1
    BY <1>1
  <2> QED BY <2>1, <2>2, <2>3, <2>4, <2>5, <2>6
<1> HIDE DEF es
<1>4. PICK off : Fits(old, off)
  BY DEF Fit
<1>5. /\ off \in [0 .. L -> 0 .. BlockLen] /\ off[0] = 0 /\ off[L] = BlockLen
      /\ \A m \in 1 .. L : off[m] = off[m - 1] + old[m].len
  BY <1>4 DEF Fits
<1>6. /\ new.len \in 1 .. BlockLen /\ old[k].len \in 1 .. BlockLen
      /\ old[k].len = cut.len + new.len
  BY <1>1, <1>2, EntryFields
<1>7. off[k - 1] \in 0 .. BlockLen /\ off[k] \in 0 .. BlockLen
      /\ off[k] = off[k - 1] + old[k].len
  BY <1>1, <1>5
<1> DEFINE x   == off[k - 1] + cut.len
           nof == [m \in 0 .. L + 1 |-> IF m < k THEN off[m] ELSE IF m = k THEN x ELSE off[m - 1]]
<1>8. x \in 0 .. BlockLen /\ off[k] = x + new.len /\ BlockLen \in Nat
  <2>1. BlockLen \in Nat
    BY Lengths
  <2>2. cut.len \in Nat /\ new.len \in Nat /\ off[k - 1] \in Nat /\ off[k] \in 0 .. BlockLen
    BY <1>2, <1>6, <1>7, <2>1
  <2>3. off[k] = off[k - 1] + (cut.len + new.len)
    BY <1>6, <1>7
  <2> QED BY <2>1, <2>2, <2>3, SMTT(30)
<1> HIDE DEF x, L
<1>9. nof \in [0 .. L + 1 -> 0 .. BlockLen]
  <2>1. \A m \in 0 .. L + 1 : nof[m] \in 0 .. BlockLen
    <3> TAKE m \in 0 .. L + 1
    <3>1. CASE m < k
      BY <1>1, <1>5, <3>1
    <3>2. CASE m = k
      BY <1>8, <3>2
    <3>3. CASE m > k
      <4>1. m - 1 \in 0 .. L /\ ~(m < k) /\ m # k
        BY <1>1, <3>3
      <4>2. nof[m] = off[m - 1]
        BY <4>1
      <4> HIDE DEF nof
      <4> QED BY <1>5, <4>1, <4>2
    <3> QED BY <1>1, <3>1, <3>2, <3>3
  <2> QED BY <2>1
<1>10. /\ \A m \in 0 .. k - 1 : nof[m] = off[m]
       /\ nof[k] = x /\ \A m \in k + 1 .. L + 1 : nof[m] = off[m - 1]
  BY <1>1
<1> HIDE DEF nof
<1>11. nof[0] = 0 /\ nof[L + 1] = BlockLen
  <2>1. 0 \in 0 .. k - 1 /\ L + 1 \in k + 1 .. L + 1 /\ (L + 1) - 1 = L
    BY <1>1
  <2>2. nof[0] = off[0] /\ nof[L + 1] = off[(L + 1) - 1]
    BY <1>10, <2>1
  <2> QED BY <1>5, <2>1, <2>2
<1>12. \A m \in 1 .. L + 1 : nof[m] = nof[m - 1] + es[m].len
  <2> TAKE m \in 1 .. L + 1
  <2>1. CASE m < k
    <3>1. m \in 1 .. L /\ m \in 1 .. k - 1 /\ m \in 0 .. k - 1 /\ m - 1 \in 0 .. k - 1
      BY <1>1, <2>1
    <3> QED BY <1>3, <1>5, <1>10, <3>1
  <2>2. CASE m = k
    BY <1>1, <1>3, <1>10, <2>2 DEF x
  <2>3. CASE m = k + 1
    BY <1>1, <1>3, <1>8, <1>10, <2>3
  <2>4. CASE m > k + 1
    <3>1. m - 1 \in 1 .. L /\ m - 1 \in k + 1 .. L + 1 /\ m \in k + 2 .. L + 1 /\ m \in k + 1 .. L + 1
      BY <1>1, <2>4
    <3>2. nof[m] = off[m - 1] /\ nof[m - 1] = off[(m - 1) - 1] /\ es[m] = old[m - 1]
      BY <1>3, <1>10, <3>1
    <3> QED BY <1>5, <3>1, <3>2
  <2> QED BY <1>1, <2>1, <2>2, <2>3, <2>4
<1>13. Fits(es, nof)
  BY <1>3, <1>9, <1>11, <1>12 DEF Fits
<1>14. \A m \in 1 .. L + 1 : Hole(es[m]) >= 0
  <2> TAKE m \in 1 .. L + 1
  <2>1. CASE m < k
    BY <1>1, <1>3, <2>1 DEF Fit
  <2>2. CASE m = k
    BY <1>2, <1>3, <2>2 DEF Hole
  <2>3. CASE m = k + 1
    BY <1>3, <1>6, <2>3, EntryFields
  <2>4. CASE m > k + 1
    <3>1. m - 1 \in 1 .. L /\ m \in k + 2 .. L + 1
      BY <1>1, <2>4
    <3> QED BY <1>3, <3>1 DEF Fit, L
  <2> QED BY <1>1, <2>1, <2>2, <2>3, <2>4
<1>15. Fit(es)
  BY <1>3, <1>13, <1>14 DEF Fit
<1>16. HasInserted(es, old, k, new)
  BY <1>3, <1>15 DEF HasInserted, cut, L
<1> QED BY <1>16 DEF es

(* What RemoveEntry writes.                                                *)
Removed(old, k) ==
  IF k = 1
  THEN [old EXCEPT ![1] = [old[1] EXCEPT !.ino = 0]]
  ELSE SubSeq(old, 1, k - 2)
         \o <<[old[k - 1] EXCEPT !.len = old[k - 1].len + old[k].len]>>
         \o SubSeq(old, k + 1, Len(old))

LEMMA FirstCleared ==
  ASSUME NEW old \in Seq(EntryType), 1 \in 1 .. Len(old), Fit(old)
  PROVE  LET es == Removed(old, 1)
         IN  /\ es \in Seq(EntryType) /\ Len(es) = Len(old) /\ es[1].ino = 0
             /\ \A m \in 2 .. Len(old) : es[m] = old[m]
             /\ Fit(es)
<1> DEFINE e  == [old[1] EXCEPT !.ino = 0]
           es == [old EXCEPT ![1] = e]
<1>1. old[1] \in EntryType
  OBVIOUS
<1>2. e \in EntryType /\ e.ino = 0 /\ e.len = old[1].len /\ e.name = old[1].name
  BY <1>1 DEF EntryType
<1> HIDE DEF e
<1>3. es \in Seq(EntryType) /\ Len(es) = Len(old) /\ es[1] = e
      /\ \A m \in 2 .. Len(old) : es[m] = old[m]
  BY <1>2
<1> HIDE DEF es
<1>4. \A m \in 1 .. Len(old) : es[m].len = old[m].len /\ es[m].name = old[m].name
  <2> TAKE m \in 1 .. Len(old)
  <2>1. m = 1 \/ m \in 2 .. Len(old)
    OBVIOUS
  <2> QED BY <1>2, <1>3, <2>1
<1>5. Fit(es)
  <2>1. PICK off : Fits(old, off)
    BY DEF Fit
  <2>2. Fits(es, off)
    BY <1>3, <1>4, <2>1 DEF Fits
  <2> QED BY <1>3, <1>4, <2>2 DEF Fit, Hole
<1> QED BY <1>2, <1>3, <1>5 DEF Removed, es, e

LEMMA RemovedIs ==
  ASSUME NEW old \in Seq(EntryType), NEW k \in 2 .. Len(old), Fit(old)
  PROVE  LET es == Removed(old, k)
         IN  /\ es \in Seq(EntryType) /\ Len(es) = Len(old) - 1
             /\ \A m \in 1 .. k - 2 : es[m] = old[m]
             /\ es[k - 1] = [old[k - 1] EXCEPT !.len = old[k - 1].len + old[k].len]
             /\ \A m \in k .. Len(old) - 1 : es[m] = old[m + 1]
             /\ Fit(es)
<1> DEFINE wide == [old[k - 1] EXCEPT !.len = old[k - 1].len + old[k].len]
           es   == Removed(old, k)
           L    == Len(old)
<1>1. L \in Nat /\ k \in 2 .. L /\ k - 1 \in 1 .. L /\ k \in 1 .. L
      /\ old[k - 1] \in EntryType /\ old[k] \in EntryType
  OBVIOUS
<1>2. PICK off : Fits(old, off)
  BY DEF Fit
<1>3. /\ off \in [0 .. L -> 0 .. BlockLen] /\ off[0] = 0 /\ off[L] = BlockLen
      /\ \A m \in 1 .. L : off[m] = off[m - 1] + old[m].len
  BY <1>2 DEF Fits
<1>4. old[k - 1].len \in 1 .. BlockLen /\ old[k].len \in 1 .. BlockLen
  BY <1>1, EntryFields
<1>5. off[k] = off[k - 2] + (old[k - 1].len + old[k].len) /\ off[k] \in 0 .. BlockLen
      /\ off[k - 2] \in 0 .. BlockLen
  <2>1. (k - 1) - 1 = k - 2 /\ k - 2 \in 0 .. L /\ k - 1 \in 0 .. L /\ k \in 0 .. L
    BY <1>1
  <2>2. off[k] = off[k - 1] + old[k].len /\ off[k - 1] = off[k - 2] + old[k - 1].len
    BY <1>1, <1>3, <2>1
  <2>3. off[k] \in 0 .. BlockLen /\ off[k - 1] \in 0 .. BlockLen /\ off[k - 2] \in 0 .. BlockLen
    BY <1>3, <2>1
  <2> QED BY <1>4, <2>2, <2>3
<1>6. old[k - 1].len + old[k].len \in 1 .. BlockLen
  <2> DEFINE u == old[k - 1].len
             v == old[k].len
             p == off[k - 2]
             q == off[k]
  <2>1. u \in 1 .. BlockLen /\ v \in 1 .. BlockLen /\ q = p + (u + v)
        /\ p \in 0 .. BlockLen /\ q \in 0 .. BlockLen /\ BlockLen \in Nat
    BY <1>4, <1>5, Lengths
  <2> HIDE DEF u, v, p, q
  <2>2. u + v \in 1 .. BlockLen
    BY <2>1
  <2> QED BY <2>2 DEF u, v
<1>7. /\ wide \in EntryType /\ wide.len = old[k - 1].len + old[k].len
      /\ wide.name = old[k - 1].name
  BY <1>1, <1>6 DEF EntryType
<1> HIDE DEF wide
<1>8. /\ es \in Seq(EntryType) /\ Len(es) = L - 1
      /\ \A m \in 1 .. k - 2 : es[m] = old[m]
      /\ es[k - 1] = wide
      /\ \A m \in k .. L - 1 : es[m] = old[m + 1]
  <2> DEFINE mid == <<wide>>
             s == SubSeq(old, 1, k - 2) \o mid \o SubSeq(old, k + 1, Len(old))
  <2>1. mid \in Seq(EntryType) /\ Len(mid) = 1 /\ mid[1] = wide
    BY <1>7
  <2>2. es = s
    <3>1. k # 1
      BY <1>1
    <3> QED BY <3>1 DEF Removed, wide
  <2> HIDE DEF mid
  <2>3. Spliced(s, EntryType, old, mid, k - 2, k)
    <3>1. k - 2 \in Nat /\ k \in Nat /\ k - 2 <= Len(old) /\ k - 2 <= k /\ k <= Len(old)
      BY <1>1
    <3> QED BY <2>1, <3>1, SpliceIs
  <2> HIDE DEF s, es
  <2>4. /\ s \in Seq(EntryType) /\ Len(s) = (k - 2) + 1 + (L - k)
        /\ \A m \in 1 .. k - 2 : s[m] = old[m]
        /\ s[(k - 2) + 1] = wide
        /\ \A m \in 1 .. L - k : s[(k - 2) + 1 + m] = old[k + m]
    BY <2>1, <2>3 DEF Spliced
  <2>5. \A m \in k .. L - 1 : s[m] = old[m + 1]
    <3> TAKE m \in k .. L - 1
    <3>1. m - (k - 1) \in 1 .. L - k /\ (k - 2) + 1 + (m - (k - 1)) = m
          /\ k + (m - (k - 1)) = m + 1
      BY <1>1
    <3> QED BY <2>4, <3>1
  <2>6. (k - 2) + 1 = k - 1 /\ (k - 2) + 1 + (L - k) = L - 1
    BY <1>1
  <2> QED BY <2>2, <2>4, <2>5, <2>6
<1> HIDE DEF es
<1> DEFINE nof == [m \in 0 .. L - 1 |-> IF m <= k - 2 THEN off[m] ELSE off[m + 1]]
<1>9. nof \in [0 .. L - 1 -> 0 .. BlockLen]
  <2>1. \A m \in 0 .. L - 1 : m \in 0 .. L /\ m + 1 \in 0 .. L
    BY <1>1
  <2> QED BY <1>3, <2>1
<1>10. /\ \A m \in 0 .. k - 2 : nof[m] = off[m]
       /\ \A m \in k - 1 .. L - 1 : nof[m] = off[m + 1]
  BY <1>1
<1> HIDE DEF nof
<1>11. nof[0] = 0 /\ nof[L - 1] = BlockLen
  <2>1. 0 \in 0 .. k - 2 /\ L - 1 \in k - 1 .. L - 1 /\ (L - 1) + 1 = L
    BY <1>1
  <2> QED BY <1>3, <1>10, <2>1
<1>12. \A m \in 1 .. L - 1 : nof[m] = nof[m - 1] + es[m].len
  <2> TAKE m \in 1 .. L - 1
  <2>1. CASE m < k - 1
    <3>1. m \in 1 .. L /\ m \in 1 .. k - 2 /\ m \in 0 .. k - 2 /\ m - 1 \in 0 .. k - 2
      BY <1>1, <2>1
    <3> QED BY <1>3, <1>8, <1>10, <3>1
  <2>2. CASE m = k - 1
    <3>1. m \in k - 1 .. L - 1 /\ m + 1 = k /\ m - 1 = k - 2 /\ m - 1 \in 0 .. k - 2
      BY <1>1, <2>2
    <3> QED BY <1>5, <1>7, <1>8, <1>10, <2>2, <3>1
  <2>3. CASE m > k - 1
    <3>1. m \in k .. L - 1 /\ m \in k - 1 .. L - 1 /\ m - 1 \in k - 1 .. L - 1 /\ m + 1 \in 1 .. L
          /\ (m - 1) + 1 = m /\ (m + 1) - 1 = m
      BY <1>1, <2>3
    <3>2. nof[m] = off[m + 1] /\ nof[m - 1] = off[m] /\ es[m] = old[m + 1]
      BY <1>8, <1>10, <3>1
    <3>3. off[m + 1] = off[m] + old[m + 1].len
      BY <1>3, <3>1
    <3> QED BY <3>2, <3>3
  <2> QED BY <1>1, <2>1, <2>2, <2>3
<1>13. Fits(es, nof)
  BY <1>8, <1>9, <1>11, <1>12 DEF Fits
<1>14. \A m \in 1 .. L - 1 : Hole(es[m]) >= 0
  <2> TAKE m \in 1 .. L - 1
  <2>1. CASE m < k - 1
    <3>1. m \in 1 .. L /\ m \in 1 .. k - 2
      BY <1>1, <2>1
    <3> QED BY <1>8, <3>1 DEF Fit
  <2>2. CASE m = k - 1
    <3>1. Hole(old[k - 1]) >= 0 /\ RecLen[old[k - 1].name] \in Nat
      BY <1>1, EntryFields DEF Fit
    <3>2. old[k - 1].len \in Nat /\ old[k].len \in Nat
      BY <1>4
    <3>3. es[m].name = old[k - 1].name /\ es[m].len = old[k - 1].len + old[k].len
      BY <1>7, <1>8, <2>2
    <3> QED BY <3>1, <3>2, <3>3 DEF Hole
  <2>3. CASE m > k - 1
    <3>1. m \in k .. L - 1 /\ m + 1 \in 1 .. L
      BY <1>1, <2>3
    <3> QED BY <1>8, <3>1 DEF Fit
  <2> QED BY <1>1, <2>1, <2>2, <2>3
<1>15. Fit(es)
  BY <1>8, <1>13, <1>14 DEF Fit
<1> QED BY <1>8, <1>15 DEF es, wide

-----------------------------------------------------------------------------
(* The inductive invariant: directories and what their entries name.       *)

Up(f, d) == Entries(f, d, 0)[2].ino

(* "." comes first, with no room behind it, and ".." second; no record of  *)
(* the block is a free one, because none but the first could be.           *)
Begins(es, d) ==
  /\ Len(es) >= 2
  /\ es[1].name = Dot /\ es[1].ino = d /\ es[1].type = "dir" /\ es[1].len = RecLen[Dot]
  /\ es[2].name = DotDot
  /\ \A m \in 1 .. Len(es) : es[m].ino # 0

DirSound(f, d) ==
  /\ DirShape(f, d)
  /\ \A s \in DirSlots(f, d) : Fit(Entries(f, d, s))
  /\ Begins(Entries(f, d, 0), d)

(* Record m of block s of directory d names a child.                       *)
LinkAt(f, d, s, m) ==
  /\ s \in DirSlots(f, d) /\ m \in 1 .. Len(Entries(f, d, s))
  /\ Entries(f, d, s)[m].ino # 0 /\ Entries(f, d, s)[m].name \in Names

Child(f, d, s, m) == Entries(f, d, s)[m].ino
Kind(f, d, s, m)  == Entries(f, d, s)[m].type

LinksTrue(f) ==
  \A d \in UsedDirs(f) : \A s, m \in Nat : LinkAt(f, d, s, m) =>
    LET i == Child(f, d, s, m)
    IN  /\ i \in Used(f) /\ i # Root /\ i # d
        /\ f.inode[i].mode = Kind(f, d, s, m)
        /\ IsDir(f, i) => Up(f, i) = d

LinksOnce(f) ==
  \A d, e \in UsedDirs(f) : \A s, m, t, k \in Nat :
    LinkAt(f, d, s, m) /\ LinkAt(f, e, t, k) /\ Child(f, d, s, m) = Child(f, e, t, k)
      => d = e /\ s = t /\ m = k

LinksAll(f) ==
  \A i \in Used(f) \ {Root} :
    \E d \in UsedDirs(f) : \E s, m \in Nat : LinkAt(f, d, s, m) /\ Child(f, d, s, m) = i

(* A call changes no entry of d.                                           *)
SameDir(f, h, d) ==
  /\ DirSlots(h, d) = DirSlots(f, d)
  /\ \A s \in DirSlots(f, d) : Entries(h, d, s) = Entries(f, d, s)

(* The link at k of a block is at m after the call.                        *)
Carried(f, h, d, s, k, m) ==
  /\ LinkAt(f, d, s, k) /\ LinkAt(h, d, s, m)
  /\ Child(h, d, s, m) = Child(f, d, s, k) /\ Kind(h, d, s, m) = Kind(f, d, s, k)

LEMMA SameCarried ==
  ASSUME NEW f, NEW h, NEW d, SameDir(f, h, d), NEW s, NEW m
  PROVE  /\ LinkAt(h, d, s, m) => Carried(f, h, d, s, m, m)
         /\ LinkAt(f, d, s, m) => Carried(f, h, d, s, m, m)
BY DEF SameDir, LinkAt, Carried, Child, Kind

(* Directory d gets a link, at m0 of its block s0, to an inode i of type t.  *)
LinkAdded(f, h, d, s0, m0, i, t) ==
  /\ \E pos : \A s, m \in Nat : LinkAt(h, d, s, m) =>
       \/ s = s0 /\ m = m0
       \/ \E j \in Nat : Carried(f, h, d, s, j, m) /\ m = pos[s][j]
  /\ \A s, j \in Nat : LinkAt(f, d, s, j) => \E m \in Nat : Carried(f, h, d, s, j, m)
  /\ LinkAt(h, d, s0, m0) /\ Child(h, d, s0, m0) = i /\ Kind(h, d, s0, m0) = t

(* Directory d loses the link at k0 of its block s0.                       *)
LinkGone(f, h, d, s0, k0) ==
  /\ \E pos : \A s, m \in Nat : LinkAt(h, d, s, m) =>
       \E j \in Nat : Carried(f, h, d, s, j, m) /\ m = pos[s][j] /\ ~(s = s0 /\ j = k0)
  /\ \A s, j \in Nat : LinkAt(f, d, s, j) /\ ~(s = s0 /\ j = k0) =>
       \E m \in Nat : Carried(f, h, d, s, j, m)

(* An inode i comes, and directory d gets a link to it.                    *)
LEMMA LinksCreated ==
  ASSUME NEW f, NEW h, NEW i, i \notin Used(f), i # Root, NEW d \in UsedDirs(f),
         NEW s0 \in Nat, NEW m0 \in Nat, LinksTrue(f), LinksOnce(f),
         Used(h) = Used(f) \cup {i},
         \A j \in Used(f) : h.inode[j].mode = f.inode[j].mode,
         \A j \in UsedDirs(f) : Up(h, j) = Up(f, j),
         IsDir(h, i) => Up(h, i) = d /\ \A s, m \in Nat : ~LinkAt(h, i, s, m),
         LinkAdded(f, h, d, s0, m0, i, h.inode[i].mode),
         \A e \in UsedDirs(f) \ {d} : SameDir(f, h, e)
  PROVE  LinksTrue(h) /\ LinksOnce(h) /\ (LinksAll(f) => LinksAll(h))
<1>10. PICK pos : \A s, m \in Nat : LinkAt(h, d, s, m) =>
        \/ s = s0 /\ m = m0
        \/ \E k \in Nat : Carried(f, h, d, s, k, m) /\ m = pos[s][k]
  BY DEF LinkAdded
<1>11. \A s, k \in Nat : LinkAt(f, d, s, k) => \E m \in Nat : Carried(f, h, d, s, k, m)
  BY DEF LinkAdded
<1>12. LinkAt(h, d, s0, m0) /\ Child(h, d, s0, m0) = i /\ Kind(h, d, s0, m0) = h.inode[i].mode
  BY DEF LinkAdded
<1>1. \A j \in Used(f) : IsDir(h, j) <=> IsDir(f, j)
  BY DEF IsDir
<1>2. UsedDirs(f) \subseteq UsedDirs(h) /\ UsedDirs(h) \subseteq UsedDirs(f) \cup {i}
      /\ (i \in UsedDirs(h) => IsDir(h, i))
  BY <1>1 DEF UsedDirs
<1>3. ASSUME NEW e \in UsedDirs(h), NEW s \in Nat, NEW m \in Nat, LinkAt(h, e, s, m)
      PROVE  \/ e = d /\ s = s0 /\ m = m0
             \/ /\ e \in UsedDirs(f)
                /\ \E k \in Nat : Carried(f, h, e, s, k, m)
                                  /\ m = IF e = d THEN pos[s][k] ELSE k
  <2>1. CASE e = d
    BY <1>3, <1>10, <2>1
  <2>2. CASE e # d /\ e \in UsedDirs(f)
    <3>1. Carried(f, h, e, s, m, m)
      BY <1>3, <2>2, SameCarried
    <3> QED BY <2>2, <3>1
  <2>3. CASE e = i
    BY <1>2, <1>3, <2>3
  <2> QED BY <1>2, <2>1, <2>2, <2>3
<1>4. \A e, s, k, m : Carried(f, h, e, s, k, m) =>
        LinkAt(f, e, s, k) /\ Child(h, e, s, m) = Child(f, e, s, k)
        /\ Kind(h, e, s, m) = Kind(f, e, s, k) /\ LinkAt(h, e, s, m)
  BY DEF Carried
<1>5. d \in Used(f) /\ d # i
  BY DEF UsedDirs
<1>6. LinksTrue(h)
  <2> SUFFICES ASSUME NEW e \in UsedDirs(h), NEW s \in Nat, NEW m \in Nat, LinkAt(h, e, s, m)
               PROVE  LET c == Child(h, e, s, m)
                      IN  /\ c \in Used(h) /\ c # Root /\ c # e
                          /\ h.inode[c].mode = Kind(h, e, s, m)
                          /\ IsDir(h, c) => Up(h, c) = e
    BY DEF LinksTrue
  <2>1. CASE e = d /\ s = s0 /\ m = m0
    BY <1>5, <1>12, <2>1
  <2>2. ASSUME e \in UsedDirs(f), NEW k \in Nat, Carried(f, h, e, s, k, m)
        PROVE  LET c == Child(h, e, s, m)
               IN  /\ c \in Used(h) /\ c # Root /\ c # e
                   /\ h.inode[c].mode = Kind(h, e, s, m)
                   /\ IsDir(h, c) => Up(h, c) = e
    <3> DEFINE c == Child(f, e, s, k)
    <3>1. LinkAt(f, e, s, k) /\ Child(h, e, s, m) = c /\ Kind(h, e, s, m) = Kind(f, e, s, k)
      BY <1>4, <2>2
    <3>2. /\ c \in Used(f) /\ c # Root /\ c # e /\ f.inode[c].mode = Kind(f, e, s, k)
          /\ IsDir(f, c) => Up(f, c) = e
      BY <2>2, <3>1 DEF LinksTrue
    <3> HIDE DEF c
    <3>3. IsDir(h, c) => Up(h, c) = e
      BY <1>1, <3>2 DEF UsedDirs
    <3> QED BY <3>1, <3>2, <3>3
  <2> QED BY <1>3, <2>1, <2>2
<1>7. \A e \in UsedDirs(f) : \A s, k \in Nat : LinkAt(f, e, s, k) => Child(f, e, s, k) # i
  BY DEF LinksTrue
<1>8. LinksOnce(h)
  <2> SUFFICES ASSUME NEW e \in UsedDirs(h), NEW s \in Nat, NEW m \in Nat, LinkAt(h, e, s, m),
                      NEW a \in UsedDirs(h), NEW t \in Nat, NEW n \in Nat, LinkAt(h, a, t, n),
                      Child(h, e, s, m) = Child(h, a, t, n)
               PROVE  e = a /\ s = t /\ m = n
    BY DEF LinksOnce
  <2>1. CASE e = d /\ s = s0 /\ m = m0
    <3>1. Child(h, a, t, n) = i
      BY <1>12, <2>1
    <3>2. ~(\E k \in Nat : a \in UsedDirs(f) /\ Carried(f, h, a, t, k, n))
      BY <1>4, <1>7, <3>1
    <3> QED BY <1>3, <2>1, <3>2
  <2>2. CASE a = d /\ t = s0 /\ n = m0
    <3>1. Child(h, e, s, m) = i
      BY <1>12, <2>2
    <3>2. ~(\E k \in Nat : e \in UsedDirs(f) /\ Carried(f, h, e, s, k, m))
      BY <1>4, <1>7, <3>1
    <3> QED BY <1>3, <2>2, <3>2
  <2>3. ASSUME e \in UsedDirs(f), NEW k \in Nat, Carried(f, h, e, s, k, m),
               m = IF e = d THEN pos[s][k] ELSE k,
               a \in UsedDirs(f), NEW j \in Nat, Carried(f, h, a, t, j, n),
               n = IF a = d THEN pos[t][j] ELSE j
        PROVE  e = a /\ s = t /\ m = n
    <3>1. LinkAt(f, e, s, k) /\ LinkAt(f, a, t, j) /\ Child(f, e, s, k) = Child(f, a, t, j)
      BY <1>4, <2>3
    <3>2. e = a /\ s = t /\ k = j
      BY <2>3, <3>1 DEF LinksOnce
    <3> QED BY <2>3, <3>2
  <2> QED BY <1>3, <2>1, <2>2, <2>3
<1>9. ASSUME LinksAll(f) PROVE LinksAll(h)
  <2> SUFFICES ASSUME NEW j \in Used(h) \ {Root}
               PROVE  \E e \in UsedDirs(h) : \E s, m \in Nat : LinkAt(h, e, s, m) /\ Child(h, e, s, m) = j
    BY DEF LinksAll
  <2>1. CASE j = i
    BY <1>2, <1>12, <2>1
  <2>2. CASE j # i
    <3>1. PICK e \in UsedDirs(f) : \E s, m \in Nat : LinkAt(f, e, s, m) /\ Child(f, e, s, m) = j
      BY <1>9, <2>2 DEF LinksAll
    <3>2. PICK s \in Nat, k \in Nat : LinkAt(f, e, s, k) /\ Child(f, e, s, k) = j
      BY <3>1
    <3>3. \E m \in Nat : Carried(f, h, e, s, k, m)
      <4>1. CASE e = d
        BY <1>11, <3>2, <4>1
      <4>2. CASE e # d
        BY <3>2, <4>2, SameCarried
      <4> QED BY <4>1, <4>2
    <3> QED BY <1>2, <1>4, <3>2, <3>3
  <2> QED BY <2>1, <2>2
<1> QED BY <1>6, <1>8, <1>9

(* An inode i goes, and the link to it, record k0 of block s0 of d.        *)
LEMMA LinksDeleted ==
  ASSUME NEW f, NEW h, NEW i \in Used(f), NEW d \in UsedDirs(f), d # i,
         NEW s0 \in Nat, NEW k0 \in Nat, LinksTrue(f), LinksOnce(f),
         LinkAt(f, d, s0, k0), Child(f, d, s0, k0) = i,
         Used(h) = Used(f) \ {i},
         \A j \in Used(h) : h.inode[j].mode = f.inode[j].mode,
         \A j \in UsedDirs(h) : Up(h, j) = Up(f, j),
         \A e \in UsedDirs(h) \ {d} : SameDir(f, h, e), LinkGone(f, h, d, s0, k0)
  PROVE  /\ LinksTrue(h) /\ LinksOnce(h)
         /\ LinksAll(f) /\ (IsDir(f, i) => \A s, m \in Nat : ~LinkAt(f, i, s, m)) => LinksAll(h)
<1>10. PICK pos : \A s, m \in Nat : LinkAt(h, d, s, m) =>
        \E k \in Nat : Carried(f, h, d, s, k, m) /\ m = pos[s][k] /\ ~(s = s0 /\ k = k0)
  BY DEF LinkGone
<1>11. \A s, k \in Nat : LinkAt(f, d, s, k) /\ ~(s = s0 /\ k = k0) =>
        \E m \in Nat : Carried(f, h, d, s, k, m)
  BY DEF LinkGone
<1>1. \A j \in Used(h) : IsDir(h, j) <=> IsDir(f, j)
  BY DEF IsDir
<1>2. UsedDirs(h) \subseteq UsedDirs(f) \ {i} /\ UsedDirs(f) \subseteq UsedDirs(h) \cup {i}
      /\ d \in UsedDirs(h)
  BY <1>1 DEF UsedDirs
<1>3. ASSUME NEW e \in UsedDirs(h), NEW s \in Nat, NEW m \in Nat, LinkAt(h, e, s, m)
      PROVE  \E k \in Nat : /\ Carried(f, h, e, s, k, m) /\ m = (IF e = d THEN pos[s][k] ELSE k)
                            /\ ~(e = d /\ s = s0 /\ k = k0)
  <2>1. CASE e = d
    BY <1>3, <1>10, <2>1
  <2>2. CASE e # d
    <3>1. Carried(f, h, e, s, m, m)
      BY <1>3, <2>2, SameCarried
    <3> QED BY <2>2, <3>1
  <2> QED BY <2>1, <2>2
<1>4. \A e, s, k, m : Carried(f, h, e, s, k, m) =>
        LinkAt(f, e, s, k) /\ Child(h, e, s, m) = Child(f, e, s, k)
        /\ Kind(h, e, s, m) = Kind(f, e, s, k) /\ LinkAt(h, e, s, m)
  BY DEF Carried
<1>5. ASSUME NEW e \in UsedDirs(f), NEW s \in Nat, NEW k \in Nat, LinkAt(f, e, s, k),
             ~(e = d /\ s = s0 /\ k = k0)
      PROVE  Child(f, e, s, k) # i
  BY <1>5 DEF LinksOnce
<1>6. LinksTrue(h)
  <2> SUFFICES ASSUME NEW e \in UsedDirs(h), NEW s \in Nat, NEW m \in Nat, LinkAt(h, e, s, m)
               PROVE  LET c == Child(h, e, s, m)
                      IN  /\ c \in Used(h) /\ c # Root /\ c # e
                          /\ h.inode[c].mode = Kind(h, e, s, m)
                          /\ IsDir(h, c) => Up(h, c) = e
    BY DEF LinksTrue
  <2>0. PICK k \in Nat : Carried(f, h, e, s, k, m) /\ ~(e = d /\ s = s0 /\ k = k0)
    BY <1>3
  <2> DEFINE c == Child(f, e, s, k)
  <2>1. LinkAt(f, e, s, k) /\ Child(h, e, s, m) = c /\ Kind(h, e, s, m) = Kind(f, e, s, k)
    BY <1>4, <2>0
  <2>2. /\ c \in Used(f) /\ c # Root /\ c # e /\ f.inode[c].mode = Kind(f, e, s, k)
        /\ IsDir(f, c) => Up(f, c) = e
    BY <1>2, <2>1 DEF LinksTrue
  <2>3. c # i
    BY <1>2, <1>5, <2>0, <2>1
  <2> HIDE DEF c
  <2>4. c \in Used(h)
    BY <2>2, <2>3
  <2>5. IsDir(h, c) => Up(h, c) = e
    BY <1>1, <2>2, <2>4 DEF UsedDirs
  <2> QED BY <2>1, <2>2, <2>4, <2>5
<1>7. LinksOnce(h)
  <2> SUFFICES ASSUME NEW e \in UsedDirs(h), NEW s \in Nat, NEW m \in Nat, LinkAt(h, e, s, m),
                      NEW a \in UsedDirs(h), NEW t \in Nat, NEW n \in Nat, LinkAt(h, a, t, n),
                      Child(h, e, s, m) = Child(h, a, t, n)
               PROVE  e = a /\ s = t /\ m = n
    BY DEF LinksOnce
  <2>1. PICK k \in Nat : Carried(f, h, e, s, k, m) /\ m = (IF e = d THEN pos[s][k] ELSE k)
    BY <1>3
  <2>2. PICK j \in Nat : Carried(f, h, a, t, j, n) /\ n = (IF a = d THEN pos[t][j] ELSE j)
    BY <1>3
  <2>3. LinkAt(f, e, s, k) /\ LinkAt(f, a, t, j) /\ Child(f, e, s, k) = Child(f, a, t, j)
    BY <1>4, <2>1, <2>2
  <2>4. e = a /\ s = t /\ k = j
    BY <1>2, <2>3 DEF LinksOnce
  <2> QED BY <2>1, <2>2, <2>4
<1>8. ASSUME LinksAll(f), IsDir(f, i) => \A s, m \in Nat : ~LinkAt(f, i, s, m)
      PROVE  LinksAll(h)
  <2> SUFFICES ASSUME NEW j \in Used(h) \ {Root}
               PROVE  \E e \in UsedDirs(h) : \E s, m \in Nat : LinkAt(h, e, s, m) /\ Child(h, e, s, m) = j
    BY DEF LinksAll
  <2>1. PICK e \in UsedDirs(f) : \E s, m \in Nat : LinkAt(f, e, s, m) /\ Child(f, e, s, m) = j
    BY <1>8 DEF LinksAll
  <2>2. PICK s \in Nat, k \in Nat : LinkAt(f, e, s, k) /\ Child(f, e, s, k) = j
    BY <2>1
  <2>3. e # i
    BY <1>8, <2>2 DEF UsedDirs
  <2>4. e \in UsedDirs(h) /\ j # i
    BY <1>2, <2>3
  <2>5. \E m \in Nat : Carried(f, h, e, s, k, m)
    <3>1. CASE e = d
      <4>1. ~(s = s0 /\ k = k0)
        BY <2>2, <2>4, <3>1
      <4> QED BY <1>11, <2>2, <3>1, <4>1
    <3>2. CASE e # d
      BY <2>2, <2>4, <3>2, SameCarried
    <3> QED BY <3>1, <3>2
  <2> QED BY <1>4, <2>2, <2>4, <2>5
<1> QED BY <1>6, <1>7, <1>8

(* One block of directory d is written again.                              *)
DirRewritten(f, h, d, s0, es) ==
  /\ DirSlots(h, d) = DirSlots(f, d) /\ s0 \in DirSlots(f, d) /\ Entries(h, d, s0) = es
  /\ \A s \in DirSlots(f, d) \ {s0} : Entries(h, d, s) = Entries(f, d, s)

LEMMA OtherSlots ==
  ASSUME NEW f, NEW h, NEW d, NEW s0, NEW es, DirRewritten(f, h, d, s0, es), NEW s, s # s0, NEW m
  PROVE  /\ LinkAt(h, d, s, m) => Carried(f, h, d, s, m, m)
         /\ LinkAt(f, d, s, m) => Carried(f, h, d, s, m, m)
BY DEF DirRewritten, LinkAt, Carried, Child, Kind

LEMMA ThisSlot ==
  ASSUME NEW f, NEW h, NEW d, NEW s0, NEW es, DirRewritten(f, h, d, s0, es)
  PROVE  /\ \A m : LinkAt(h, d, s0, m) <=> m \in 1 .. Len(es) /\ es[m].ino # 0 /\ es[m].name \in Names
         /\ \A m : Child(h, d, s0, m) = es[m].ino /\ Kind(h, d, s0, m) = es[m].type
         /\ LET old == Entries(f, d, s0)
            IN  \A m : /\ LinkAt(f, d, s0, m)
                            <=> m \in 1 .. Len(old) /\ old[m].ino # 0 /\ old[m].name \in Names
                       /\ Child(f, d, s0, m) = old[m].ino /\ Kind(f, d, s0, m) = old[m].type
BY DEF DirRewritten, LinkAt, Child, Kind

LEMMA LinksInserted ==
  ASSUME NEW f, NEW h, NEW d, NEW s0 \in Nat, NEW old \in Seq(EntryType), NEW k \in 1 .. Len(old),
         old = Entries(f, d, s0), Fit(old), NEW new \in EntryType,
         Hole(old[k]) = new.len, RecLen[new.name] <= new.len, new.name \in Names, new.ino # 0,
         DirRewritten(f, h, d, s0, Inserted(old, k, new))
  PROVE  LinkAdded(f, h, d, s0, k + 1, new.ino, new.type)
<1> DEFINE es  == Inserted(old, k, new)
           cut == [old[k] EXCEPT !.len = RecLen[old[k].name]]
           L   == Len(old)
           pos == [s \in Nat |-> [m \in Nat |-> IF s = s0 /\ m > k THEN m + 1 ELSE m]]
<1>1. L \in Nat /\ k \in 1 .. L /\ old[k] \in EntryType
  OBVIOUS
<1>2. /\ es \in Seq(EntryType) /\ Len(es) = L + 1
      /\ \A m \in 1 .. k - 1 : es[m] = old[m]
      /\ es[k] = cut /\ es[k + 1] = new
      /\ \A m \in k + 2 .. L + 1 : es[m] = old[m - 1]
  <2>1. HasInserted(es, old, k, new)
    BY InsertedIs
  <2> HIDE DEF es
  <2> QED BY <2>1 DEF HasInserted
<1>3. cut.ino = old[k].ino /\ cut.name = old[k].name /\ cut.type = old[k].type
  BY <1>1 DEF EntryType
<1> HIDE DEF es, cut
<1>4. \A m : LinkAt(h, d, s0, m) <=> m \in 1 .. L + 1 /\ es[m].ino # 0 /\ es[m].name \in Names
  BY <1>2, ThisSlot DEF es
<1>5. \A m : Child(h, d, s0, m) = es[m].ino /\ Kind(h, d, s0, m) = es[m].type
  BY ThisSlot DEF es
<1>6. \A m : LinkAt(f, d, s0, m) <=> m \in 1 .. L /\ old[m].ino # 0 /\ old[m].name \in Names
  BY ThisSlot
<1>7. \A m : Child(f, d, s0, m) = old[m].ino /\ Kind(f, d, s0, m) = old[m].type
  BY ThisSlot
<1>8. \A m \in 1 .. k : es[m].ino = old[m].ino /\ es[m].name = old[m].name /\ es[m].type = old[m].type
  <2> TAKE m \in 1 .. k
  <2>1. m = k \/ m \in 1 .. k - 1
    BY <1>1
  <2> QED BY <1>2, <1>3, <2>1
<1>9. ASSUME NEW m \in 1 .. k
      PROVE  /\ LinkAt(h, d, s0, m) <=> LinkAt(f, d, s0, m)
             /\ LinkAt(f, d, s0, m) => Carried(f, h, d, s0, m, m)
  <2>1. m \in 1 .. L /\ m \in 1 .. L + 1
    BY <1>1
  <2> QED BY <1>4, <1>5, <1>6, <1>7, <1>8, <2>1 DEF Carried
<1>10. ASSUME NEW m \in k + 1 .. L
       PROVE  /\ LinkAt(h, d, s0, m + 1) <=> LinkAt(f, d, s0, m)
              /\ LinkAt(f, d, s0, m) => Carried(f, h, d, s0, m, m + 1)
  <2>1. m \in 1 .. L /\ m + 1 \in 1 .. L + 1 /\ m + 1 \in k + 2 .. L + 1 /\ (m + 1) - 1 = m
    BY <1>1
  <2>2. es[m + 1] = old[m]
    BY <1>2, <2>1
  <2> QED BY <1>4, <1>5, <1>6, <1>7, <2>1, <2>2 DEF Carried
<1>11. ASSUME NEW s \in Nat, NEW m \in Nat, LinkAt(h, d, s, m)
       PROVE  \/ s = s0 /\ m = k + 1
              \/ \E j \in Nat : Carried(f, h, d, s, j, m) /\ m = pos[s][j]
  <2>1. CASE s # s0
    <3>1. Carried(f, h, d, s, m, m)
      BY <1>11, <2>1, OtherSlots
    <3>2. pos[s][m] = m
      BY <2>1
    <3> QED BY <3>1, <3>2
  <2>2. CASE s = s0
    <3>1. m \in 1 .. L + 1
      BY <1>4, <1>11, <2>2
    <3>2. CASE m \in 1 .. k
      <4>1. Carried(f, h, d, s, m, m) /\ pos[s][m] = m
        BY <1>1, <1>9, <1>11, <2>2, <3>2
      <4> QED BY <4>1
    <3>3. CASE m > k + 1
      <4>1. m - 1 \in k + 1 .. L /\ (m - 1) + 1 = m /\ m - 1 \in Nat /\ m - 1 > k
        BY <1>1, <3>1, <3>3
      <4>2. Carried(f, h, d, s, m - 1, m)
        BY <1>10, <1>11, <2>2, <4>1
      <4>3. pos[s][m - 1] = m
        BY <2>2, <4>1
      <4> QED BY <4>1, <4>2, <4>3
    <3> QED BY <1>1, <2>2, <3>1, <3>2, <3>3
  <2> QED BY <2>1, <2>2
<1>12. ASSUME NEW s \in Nat, NEW j \in Nat, LinkAt(f, d, s, j)
       PROVE  \E m \in Nat : Carried(f, h, d, s, j, m)
  <2>1. CASE s # s0
    BY <1>12, <2>1, OtherSlots
  <2>2. CASE s = s0
    <3>1. j \in 1 .. L
      BY <1>6, <1>12, <2>2
    <3>2. j \in 1 .. k \/ j \in k + 1 .. L
      BY <1>1, <3>1
    <3>3. Carried(f, h, d, s, j, j) \/ Carried(f, h, d, s, j, j + 1)
      BY <1>9, <1>10, <1>12, <2>2, <3>2
    <3> QED BY <3>3
  <2> QED BY <2>1, <2>2
<1>13. LinkAt(h, d, s0, k + 1) /\ Child(h, d, s0, k + 1) = new.ino /\ Kind(h, d, s0, k + 1) = new.type
  <2>1. k + 1 \in 1 .. L + 1
    BY <1>1
  <2> QED BY <1>2, <1>4, <1>5, <2>1
<1> HIDE DEF pos
<1>14. \E pn : \A s, m \in Nat : LinkAt(h, d, s, m) =>
         \/ s = s0 /\ m = k + 1
         \/ \E j \in Nat : Carried(f, h, d, s, j, m) /\ m = pn[s][j]
  <2>1. \A s, m \in Nat : LinkAt(h, d, s, m) =>
          \/ s = s0 /\ m = k + 1
          \/ \E j \in Nat : Carried(f, h, d, s, j, m) /\ m = pos[s][j]
    BY <1>11
  <2> HIDE DEF es, L
  <2> QED BY <2>1
<1> QED BY <1>12, <1>13, <1>14 DEF LinkAdded

LEMMA LinksRemoved ==
  ASSUME NEW f, NEW h, NEW d, NEW s0 \in Nat, NEW old \in Seq(EntryType), NEW k \in 1 .. Len(old),
         old = Entries(f, d, s0), Fit(old),
         DirRewritten(f, h, d, s0, Removed(old, k))
  PROVE  LinkGone(f, h, d, s0, k)
<1> DEFINE es  == Removed(old, k)
           L   == Len(old)
           pos == [s \in Nat |-> [m \in Nat |-> IF s = s0 /\ k # 1 /\ m > k THEN m - 1 ELSE m]]
<1>1. L \in Nat /\ k \in 1 .. L
  OBVIOUS
<1>2. \A m : LinkAt(h, d, s0, m) <=> m \in 1 .. Len(es) /\ es[m].ino # 0 /\ es[m].name \in Names
  BY ThisSlot
<1>3. \A m : Child(h, d, s0, m) = es[m].ino /\ Kind(h, d, s0, m) = es[m].type
  BY ThisSlot
<1>4. \A m : LinkAt(f, d, s0, m) <=> m \in 1 .. L /\ old[m].ino # 0 /\ old[m].name \in Names
  BY ThisSlot
<1>5. \A m : Child(f, d, s0, m) = old[m].ino /\ Kind(f, d, s0, m) = old[m].type
  BY ThisSlot
(* Where record m comes from.                                              *)
<1> DEFINE from(m) == IF k # 1 /\ m >= k THEN m + 1 ELSE m
<1>6. ASSUME NEW m \in 1 .. Len(es), es[m].ino # 0
      PROVE  /\ from(m) \in 1 .. L /\ from(m) # k /\ pos[s0][from(m)] = m
             /\ es[m].ino = old[from(m)].ino /\ es[m].name = old[from(m)].name
             /\ es[m].type = old[from(m)].type
  <2>1. CASE k = 1
    <3>1. Len(es) = L /\ es[1].ino = 0 /\ \A n \in 2 .. L : es[n] = old[n]
      BY <1>1, <2>1, FirstCleared
    <3>2. m \in 2 .. L /\ from(m) = m
      BY <1>1, <1>6, <2>1, <3>1
    <3> QED BY <1>1, <2>1, <3>1, <3>2
  <2>2. CASE k # 1
    <3>0. k \in 2 .. L
      BY <1>1, <2>2
    <3>1. /\ Len(es) = L - 1
          /\ \A n \in 1 .. k - 2 : es[n] = old[n]
          /\ es[k - 1] = [old[k - 1] EXCEPT !.len = old[k - 1].len + old[k].len]
          /\ \A n \in k .. L - 1 : es[n] = old[n + 1]
      BY <3>0, RemovedIs
    <3> HIDE DEF es
    <3>2. CASE m < k - 1
      BY <1>1, <1>6, <2>2, <3>1, <3>2
    <3>3. CASE m = k - 1
      <4>1. old[k - 1] \in EntryType
        BY <3>0
      <4>2. es[m].ino = old[m].ino /\ es[m].name = old[m].name /\ es[m].type = old[m].type
        BY <3>1, <3>3, <4>1 DEF EntryType
      <4>3. from(m) = m /\ m \in 1 .. L /\ m # k /\ pos[s0][m] = m
        BY <1>1, <3>0, <3>3
      <4> HIDE DEF from, pos
      <4> QED BY <4>2, <4>3
    <3>4. CASE m > k - 1
      <4>1. m \in k .. L - 1 /\ from(m) = m + 1 /\ m + 1 \in 1 .. L /\ m + 1 # k
            /\ pos[s0][m + 1] = m
        BY <1>1, <3>0, <3>1, <3>4
      <4>2. es[m] = old[m + 1]
        BY <3>1, <4>1
      <4> HIDE DEF from, pos
      <4> QED BY <4>1, <4>2
    <3> QED BY <1>1, <3>2, <3>3, <3>4
  <2> QED BY <2>1, <2>2
<1> HIDE DEF es
<1>7. ASSUME NEW s \in Nat, NEW m \in Nat, LinkAt(h, d, s, m)
      PROVE  \E j \in Nat : Carried(f, h, d, s, j, m) /\ m = pos[s][j] /\ ~(s = s0 /\ j = k)
  <2>1. CASE s # s0
    <3>1. Carried(f, h, d, s, m, m)
      BY <1>7, <2>1, OtherSlots DEF es
    <3>2. pos[s][m] = m
      BY <2>1
    <3> QED BY <2>1, <3>1, <3>2
  <2>2. CASE s = s0
    <3>1. m \in 1 .. Len(es) /\ es[m].ino # 0 /\ es[m].name \in Names
      BY <1>2, <1>7, <2>2
    <3> HIDE DEF from, pos
    <3>2. /\ from(m) \in 1 .. L /\ from(m) # k /\ pos[s0][from(m)] = m
          /\ es[m].ino = old[from(m)].ino /\ es[m].name = old[from(m)].name
          /\ es[m].type = old[from(m)].type
      BY <1>6, <3>1
    <3>3. Carried(f, h, d, s, from(m), m)
      BY <1>3, <1>4, <1>5, <1>7, <2>2, <3>1, <3>2 DEF Carried
    <3>4. from(m) \in Nat
      BY <1>1, <3>2
    <3> QED BY <2>2, <3>2, <3>3, <3>4
  <2> QED BY <2>1, <2>2
<1>8. ASSUME NEW j \in 1 .. L, j # k
      PROVE  \E m \in 1 .. Len(es) : /\ es[m].ino = old[j].ino /\ es[m].name = old[j].name
                                     /\ es[m].type = old[j].type
  <2>1. CASE k = 1
    <3>1. Len(es) = L /\ \A n \in 2 .. L : es[n] = old[n]
      BY <1>1, <2>1, FirstCleared DEF es
    <3>2. j \in 2 .. L /\ j \in 1 .. Len(es)
      BY <1>1, <1>8, <2>1, <3>1
    <3> QED BY <3>1, <3>2
  <2>2. CASE k # 1
    <3>0. k \in 2 .. L
      BY <1>1, <2>2
    <3>1. /\ Len(es) = L - 1
          /\ \A n \in 1 .. k - 2 : es[n] = old[n]
          /\ es[k - 1] = [old[k - 1] EXCEPT !.len = old[k - 1].len + old[k].len]
          /\ \A n \in k .. L - 1 : es[n] = old[n + 1]
      BY <3>0, RemovedIs DEF es
    <3>2. CASE j < k - 1
      <4>1. j \in 1 .. k - 2 /\ j \in 1 .. Len(es)
        BY <1>1, <3>0, <3>1, <3>2
      <4> QED BY <3>1, <4>1
    <3>3. CASE j = k - 1
      <4>1. old[k - 1] \in EntryType
        BY <3>0
      <4>2. es[j].ino = old[j].ino /\ es[j].name = old[j].name /\ es[j].type = old[j].type
        BY <3>1, <3>3, <4>1 DEF EntryType
      <4>3. j \in 1 .. Len(es)
        BY <1>1, <3>0, <3>1, <3>3
      <4> QED BY <4>2, <4>3
    <3>4. CASE j > k
      <4>1. j - 1 \in k .. L - 1 /\ j - 1 \in 1 .. Len(es) /\ (j - 1) + 1 = j
        BY <1>1, <3>0, <3>1, <3>4
      <4>2. es[j - 1] = old[j]
        BY <3>1, <4>1
      <4> QED BY <4>1, <4>2
    <3> QED BY <1>1, <1>8, <3>0, <3>2, <3>3, <3>4
  <2> QED BY <2>1, <2>2
<1>9. ASSUME NEW s \in Nat, NEW j \in Nat, LinkAt(f, d, s, j), ~(s = s0 /\ j = k)
      PROVE  \E m \in Nat : Carried(f, h, d, s, j, m)
  <2>1. CASE s # s0
    BY <1>9, <2>1, OtherSlots
  <2>2. CASE s = s0
    <3>1. j \in 1 .. L /\ j # k /\ old[j].ino # 0 /\ old[j].name \in Names
      BY <1>4, <1>9, <2>2
    <3>2. PICK m \in 1 .. Len(es) : /\ es[m].ino = old[j].ino /\ es[m].name = old[j].name
                                    /\ es[m].type = old[j].type
      BY <1>8, <3>1
    <3>3. Carried(f, h, d, s, j, m)
      BY <1>2, <1>3, <1>5, <1>9, <2>2, <3>1, <3>2 DEF Carried
    <3>4. m \in Nat
      BY <3>2
    <3> QED BY <3>3, <3>4
  <2> QED BY <2>1, <2>2
<1> HIDE DEF pos
<1> DEFINE T(q) == \A s, m \in Nat : LinkAt(h, d, s, m) =>
         \E j \in Nat : Carried(f, h, d, s, j, m) /\ m = q[s][j] /\ ~(s = s0 /\ j = k)
<1>10. T(pos)
  BY <1>7
<1>11. \E q : T(q)
  <2> HIDE DEF T
  <2> QED BY <1>10
<1> QED BY <1>9, <1>11 DEF LinkGone

LEMMA BeginsInserted ==
  ASSUME NEW old \in Seq(EntryType), NEW k \in 1 .. Len(old), NEW new \in EntryType,
         Hole(old[k]) = new.len, RecLen[new.name] <= new.len, Fit(old), NEW d, Begins(old, d),
         new.ino # 0
  PROVE  LET es == Inserted(old, k, new) IN Begins(es, d) /\ es[2].ino = old[2].ino
<1> DEFINE es  == Inserted(old, k, new)
           cut == [old[k] EXCEPT !.len = RecLen[old[k].name]]
<1>1. HasInserted(es, old, k, new)
  BY InsertedIs
<1> HIDE DEF es
<1>2. Len(old) \in Nat /\ Len(old) >= 2 /\ old[1].name = Dot /\ old[1].ino = d
      /\ old[1].len = RecLen[Dot] /\ old[2].name = DotDot
  BY DEF Begins
<1>3. k # 1
  <2> SUFFICES ASSUME k = 1 PROVE FALSE
    OBVIOUS
  <2>1. new.len = 0
    BY <1>2, Lengths DEF Hole
  <2> QED BY <2>1, EntryFields
<1>4. old[k] \in EntryType /\ k \in 2 .. Len(old)
  BY <1>3
<1>5. Len(es) >= 2 /\ es[1] = old[1]
  <2>1. 1 \in 1 .. k - 1
    BY <1>4
  <2> QED BY <1>1, <1>2, <2>1 DEF HasInserted
<1>6. es[2].name = old[2].name /\ es[2].ino = old[2].ino
  <2>1. CASE k = 2
    <3>1. es[2] = cut
      BY <1>1, <2>1 DEF HasInserted
    <3> QED BY <1>4, <2>1, <3>1 DEF EntryType
  <2>2. CASE k # 2
    <3>1. 2 \in 1 .. k - 1
      BY <1>4, <2>2
    <3> QED BY <1>1, <3>1 DEF HasInserted
  <2> QED BY <2>1, <2>2
<1>7. ASSUME NEW m \in 1 .. Len(es) PROVE es[m].ino # 0
  <2>1. /\ Len(es) = Len(old) + 1 /\ \A j \in 1 .. k - 1 : es[j] = old[j]
        /\ es[k] = cut /\ es[k + 1] = new
        /\ \A j \in k + 2 .. Len(old) + 1 : es[j] = old[j - 1]
    BY <1>1 DEF HasInserted
  <2>2. cut.ino = old[k].ino
    BY <1>4 DEF EntryType
  <2>3. \A j \in 1 .. Len(old) : old[j].ino # 0
    BY DEF Begins
  <2> HIDE DEF cut
  <2>4. CASE m \in 1 .. k - 1
    BY <1>2, <2>1, <2>3, <2>4
  <2>5. CASE m = k
    BY <2>1, <2>2, <2>3, <2>5
  <2>6. CASE m = k + 1
    BY <2>1, <2>6
  <2>7. CASE m \in k + 2 .. Len(old) + 1
    <3>1. m - 1 \in 1 .. Len(old)
      BY <1>2, <1>4, <2>7
    <3> QED BY <2>1, <2>3, <2>7, <3>1
  <2> QED BY <1>2, <1>4, <2>1, <2>4, <2>5, <2>6, <2>7
<1> QED BY <1>2, <1>5, <1>6, <1>7 DEF Begins, es

LEMMA BeginsRemoved ==
  ASSUME NEW old \in Seq(EntryType), NEW k \in 3 .. Len(old), Fit(old), NEW d, Begins(old, d)
  PROVE  LET es == Removed(old, k) IN Begins(es, d) /\ es[2].ino = old[2].ino
<1> DEFINE es == Removed(old, k)
<1>1. Len(old) \in Nat /\ k \in 3 .. Len(old) /\ k \in 2 .. Len(old) /\ k - 1 \in 1 .. Len(old)
  OBVIOUS
<1>2. /\ Len(es) = Len(old) - 1
      /\ \A m \in 1 .. k - 2 : es[m] = old[m]
      /\ es[k - 1] = [old[k - 1] EXCEPT !.len = old[k - 1].len + old[k].len]
      /\ \A m \in k .. Len(old) - 1 : es[m] = old[m + 1]
  BY <1>1, RemovedIs
<1> HIDE DEF es
<1>3. Len(es) >= 2 /\ es[1] = old[1]
  <2>1. 1 \in 1 .. k - 2
    BY <1>1
  <2> QED BY <1>1, <1>2, <2>1
<1>4. es[2].name = old[2].name /\ es[2].ino = old[2].ino
  <2>1. CASE k = 3
    <3>1. old[2] \in EntryType /\ k - 1 = 2
      BY <1>1, <2>1
    <3>2. es[2] = [old[2] EXCEPT !.len = old[2].len + old[k].len]
      BY <1>2, <3>1
    <3> QED BY <3>1, <3>2 DEF EntryType
  <2>2. CASE k # 3
    <3>1. 2 \in 1 .. k - 2
      BY <1>1, <2>2
    <3> QED BY <1>2, <3>1
  <2> QED BY <2>1, <2>2
<1>5. ASSUME NEW m \in 1 .. Len(es) PROVE es[m].ino # 0
  <2>1. \A j \in 1 .. Len(old) : old[j].ino # 0
    BY DEF Begins
  <2>2. CASE m \in 1 .. k - 2
    BY <1>1, <1>2, <2>1, <2>2
  <2>3. CASE m = k - 1
    <3>1. old[k - 1] \in EntryType
      BY <1>1
    <3>2. es[k - 1].ino = old[k - 1].ino
      BY <1>2, <3>1 DEF EntryType
    <3> QED BY <1>1, <2>1, <2>3, <3>2
  <2>4. CASE m \in k .. Len(old) - 1
    <3>1. m + 1 \in 1 .. Len(old)
      BY <1>1, <2>4
    <3> QED BY <1>2, <2>1, <2>4, <3>1
  <2> QED BY <1>1, <1>2, <2>2, <2>3, <2>4
<1> QED BY <1>3, <1>4, <1>5 DEF Begins, es

LEMMA OtherDir ==
  ASSUME NEW f \in FsInts, NEW h, NEW e \in Inodes, Shape(f, e), DirSound(f, e),
         h.inode[e] = f.inode[e], \A b \in OwnedBlocks(f, e) : h.dir[b] = f.dir[b]
  PROVE  SameDir(f, h, e) /\ Up(h, e) = Up(f, e) /\ DirSound(h, e)
<1>0. DirShape(f, e)
  BY DEF DirSound
<1>1. DirSlots(h, e) = DirSlots(f, e) /\ 0 \in DirSlots(f, e)
  BY <1>0, DirOwns DEF DirSlots
<1>2. \A s \in DirSlots(f, e) : f.inode[e].block[s] \in OwnedBlocks(f, e)
  BY <1>0, DirOwns
<1>3. \A s \in DirSlots(f, e) : Entries(h, e, s) = Entries(f, e, s)
  BY <1>2 DEF Entries
<1>4. DirShape(h, e)
  BY <1>0, DirKept
<1> QED BY <1>1, <1>3, <1>4 DEF SameDir, Up, DirSound

LEMMA RewrittenDir ==
  ASSUME NEW f \in FsInts, NEW h, NEW d \in Inodes, Shape(f, d), DirSound(f, d),
         h.inode[d] = f.inode[d], NEW s0 \in DirSlots(f, d), NEW es,
         h.dir[f.inode[d].block[s0]] = es,
         \A b \in OwnedBlocks(f, d) \ {f.inode[d].block[s0]} : h.dir[b] = f.dir[b],
         Fit(es), s0 = 0 => Begins(es, d) /\ es[2].ino = Up(f, d)
  PROVE  DirRewritten(f, h, d, s0, es) /\ DirSound(h, d) /\ Up(h, d) = Up(f, d)
<1>0. DirShape(f, d)
  BY DEF DirSound
<1>1. DirSlots(h, d) = DirSlots(f, d) /\ 0 \in DirSlots(f, d)
  BY <1>0, DirOwns DEF DirSlots
<1>2. \A s \in DirSlots(f, d) : f.inode[d].block[s] \in OwnedBlocks(f, d)
  BY <1>0, DirOwns
<1>3. \A s \in DirSlots(f, d) \ {s0} : f.inode[d].block[s] # f.inode[d].block[s0]
  BY <1>0 DEF DirShape, DirSlots
<1>4. Entries(h, d, s0) = es
  BY DEF Entries
<1>5. \A s \in DirSlots(f, d) \ {s0} : Entries(h, d, s) = Entries(f, d, s)
  BY <1>2, <1>3 DEF Entries
<1>6. DirShape(h, d)
  BY <1>0, DirKept
<1>7. \A s \in DirSlots(h, d) : Fit(Entries(h, d, s))
  BY <1>1, <1>4, <1>5 DEF DirSound
<1>8. Begins(Entries(h, d, 0), d) /\ Up(h, d) = Up(f, d)
  BY <1>1, <1>4, <1>5 DEF DirSound, Up
<1>9. DirRewritten(f, h, d, s0, es)
  BY <1>1, <1>4, <1>5 DEF DirRewritten
<1> QED BY <1>6, <1>7, <1>8, <1>9 DEF DirSound

LEMMA GrownDir ==
  ASSUME NEW f \in FsInts, NEW h \in FsInts, NEW d \in Inodes, Shape(f, d), DirSound(f, d),
         f.inode[d].blocks < Direct, NEW b \in Blocks \ {Null}, b \notin OwnedBlocks(f, d),
         h.inode[d] = GrownParent(f, d, b), NEW new \in EntryType, h.dir[b] = <<new>>,
         new.ino # 0, new.name \in Names, new.len = BlockLen,
         \A x \in OwnedBlocks(f, d) : h.dir[x] = f.dir[x]
  PROVE  LET s0 == f.inode[d].blocks
         IN  /\ DirSound(h, d) /\ Up(h, d) = Up(f, d) /\ s0 \in Nat
             /\ LinkAdded(f, h, d, s0, 1, new.ino, new.type)
<1> DEFINE s0  == f.inode[d].blocks
           pos == [s \in Nat |-> [m \in Nat |-> m]]
<1>0. DirShape(f, d)
  BY DEF DirSound
<1>1. /\ Shape(h, d) /\ DirShape(h, d)
      /\ DirSlots(h, d) = DirSlots(f, d) \cup {s0} /\ h.inode[d].block[s0] = b
      /\ s0 \notin DirSlots(f, d) /\ 0 \in DirSlots(f, d)
      /\ \A s \in DirSlots(f, d) : h.inode[d].block[s] = f.inode[d].block[s]
  BY <1>0, DirGrown
<1>2. s0 \in Nat
  BY <1>0, Positive DEF DirShape
<1> HIDE DEF s0
<1>3. \A s \in DirSlots(f, d) : f.inode[d].block[s] \in OwnedBlocks(f, d)
  BY <1>0, DirOwns
<1>4. \A s \in DirSlots(f, d) : Entries(h, d, s) = Entries(f, d, s)
  BY <1>1, <1>3 DEF Entries
<1>5. Entries(h, d, s0) = <<new>>
  BY <1>1 DEF Entries
<1>6. Fit(<<new>>) /\ Len(<<new>>) = 1 /\ <<new>>[1] = new
  BY FitOne
<1>7. DirSound(h, d) /\ Up(h, d) = Up(f, d)
  BY <1>1, <1>4, <1>5, <1>6 DEF DirSound, Up
<1>8. \A s, m : LinkAt(f, d, s, m) => Carried(f, h, d, s, m, m)
  BY <1>1, <1>4 DEF LinkAt, Carried, Child, Kind
<1>9. \A s, m : s # s0 /\ LinkAt(h, d, s, m) => Carried(f, h, d, s, m, m)
  BY <1>1, <1>4 DEF LinkAt, Carried, Child, Kind
<1>10. \A m : LinkAt(h, d, s0, m) => m = 1
  BY <1>5, <1>6 DEF LinkAt
<1>11. LinkAt(h, d, s0, 1) /\ Child(h, d, s0, 1) = new.ino /\ Kind(h, d, s0, 1) = new.type
  BY <1>1, <1>5, <1>6 DEF LinkAt, Child, Kind
<1>12. ASSUME NEW s \in Nat, NEW m \in Nat, LinkAt(h, d, s, m)
       PROVE  \/ s = s0 /\ m = 1
              \/ \E j \in Nat : Carried(f, h, d, s, j, m) /\ m = pos[s][j]
  <2>1. pos[s][m] = m
    OBVIOUS
  <2> QED BY <1>9, <1>10, <1>12, <2>1
<1> HIDE DEF pos
<1> DEFINE T(q) == \A s, m \in Nat : LinkAt(h, d, s, m) =>
         \/ s = s0 /\ m = 1
         \/ \E j \in Nat : Carried(f, h, d, s, j, m) /\ m = q[s][j]
<1>13. \E q : T(q)
  <2>1. T(pos)
    BY <1>12
  <2> HIDE DEF T
  <2> QED BY <2>1
<1>14. \A s, j \in Nat : LinkAt(f, d, s, j) => \E m \in Nat : Carried(f, h, d, s, j, m)
  BY <1>8
<1>15. LinkAdded(f, h, d, s0, 1, new.ino, new.type)
  BY <1>11, <1>13, <1>14 DEF LinkAdded
<1> QED BY <1>2, <1>7, <1>15 DEF s0

-----------------------------------------------------------------------------
(* The whole invariant, and what a write does to it.                       *)

Sound(f) ==
  /\ f \in FsInts /\ f.saved = f.count /\ Counted(f) /\ Meta \cap Clear(f) = {}
  /\ Owned(f)
  /\ \A i \in Inodes : f.inode[i].mode # "none" <=> i \in Used(f)
  /\ Root \in UsedDirs(f) /\ \A d \in UsedDirs(f) : DirSound(f, d)
  /\ LinksTrue(f) /\ LinksOnce(f)

LEMMA DirUsed ==
  ASSUME NEW f, Sound(f), NEW d \in Inodes, IsDir(f, d)
  PROVE  d \in UsedDirs(f)
BY DEF Sound, UsedDirs, IsDir

LEMMA TableSound ==
  ASSUME NEW h, NEW i \in Inodes, NEW d \in Inodes, DirShape(h, i), h.inode[i].blocks = 1,
         h.dir[h.inode[i].block[0]] = DirTable(i, d)
  PROVE  DirSound(h, i) /\ Up(h, i) = d /\ \A s, m : ~LinkAt(h, i, s, m)
<1> DEFINE es == DirTable(i, d)
<1>1. DirSlots(h, i) = {0} /\ Entries(h, i, 0) = es
  BY DEF DirSlots, Entries
<1>2. Len(es) = 2 /\ Fit(es)
  BY DirTableType, FitTable
<1>3. /\ es[1].name = Dot /\ es[1].ino = i /\ es[1].type = "dir" /\ es[1].len = RecLen[Dot]
      /\ es[2].name = DotDot /\ es[2].ino = d
  BY DEF DirTable
<1> HIDE DEF es
<1>4. DirSound(h, i) /\ Up(h, i) = d
  <2>1. i # 0 /\ d # 0
    BY FiniteSets
  <2>2. ASSUME NEW m \in 1 .. Len(es) PROVE es[m].ino # 0
    <3>1. m = 1 \/ m = 2
      BY <1>2
    <3> QED BY <1>3, <2>1, <3>1
  <2> QED BY <1>1, <1>2, <1>3, <2>2 DEF DirSound, Begins, Up
<1>5. Dot \notin Names /\ DotDot \notin Names
  BY Ext2Assumption
<1>6. ASSUME NEW s, NEW m, LinkAt(h, i, s, m) PROVE FALSE
  <2>1. m \in 1 .. 2 /\ es[m].name \in Names
    BY <1>1, <1>2, <1>6 DEF LinkAt
  <2>2. m = 1 \/ m = 2
    BY <2>1
  <2> QED BY <1>3, <1>5, <2>1, <2>2
<1> QED BY <1>4, <1>6

(* More blocks than that, because the directory may take one first.        *)
HasSpace(f, i, req) == TurnsFor(req.size) < Cardinality(FreeFrom(f, inode_to_bgd(i)))

(* Inode i comes, the block c of directory d gets the records es, and A is *)
(* what d takes for that.                                                  *)
Created(f, h, i, d, req, A, c, es) ==
  LET B == OwnedBlocks(h, i)
  IN  /\ h \in FsInts /\ h.saved = h.count /\ Counted(h)
      /\ h.imap = [f.imap EXCEPT ![i] = TRUE]
      /\ \A j \in Inodes \ {d, i} : h.inode[j] = f.inode[j]
      /\ h.inode[i].mode = req.type /\ Shape(h, i)
      /\ IsDir(h, i) => /\ DirShape(h, i) /\ h.inode[i].blocks = 1
                        /\ h.dir[h.inode[i].block[0]] = DirTable(i, d)
      /\ A \cup B \subseteq Clear(f) /\ A \cap B = {} /\ Clear(h) = Clear(f) \ (A \cup B)
      /\ c \in Blocks \ B /\ h.dir[c] = es
      /\ \A b \in Blocks \ (B \cup {c}) :
           h.dir[b] = f.dir[b] /\ h.ptr[b] = f.ptr[b] /\ h.data[b] = f.data[b]
      /\ FileStored(h, i, req, HasSpace(f, i, req))

(* A call leaves inode j and all it owns as they were.                     *)
OtherKept(f, h, j) ==
  /\ h.inode[j] = f.inode[j]
  /\ \A b \in OwnedBlocks(f, j) :
       h.dir[b] = f.dir[b] /\ h.ptr[b] = f.ptr[b] /\ h.data[b] = f.data[b]
  /\ OwnedBlocks(h, j) = OwnedBlocks(f, j) /\ Shape(h, j) /\ FileData(h, j) = FileData(f, j)
  /\ j \in UsedDirs(f) => SameDir(f, h, j) /\ Up(h, j) = Up(f, j) /\ DirSound(h, j)

LEMMA CreatedOthers ==
  ASSUME NEW f, NEW h, Sound(f), NEW i \in Inodes \ Used(f), NEW d \in UsedDirs(f), NEW req \in WriteRequests,
         NEW A, NEW c, NEW es, Created(f, h, i, d, req, A, c, es), c \in OwnedBlocks(f, d) \cup A,
         NEW j \in Used(f), j # d
  PROVE  OtherKept(f, h, j)
<1>1. j \in Inodes /\ d \in Used(f) /\ f \in FsInts
  BY DEF Sound, Used, UsedDirs
<1>2. h.inode[j] = f.inode[j]
  BY <1>1 DEF Created
<1>3. OwnedBlocks(f, j) \cap Clear(f) = {} /\ OwnedBlocks(f, j) \cap OwnedBlocks(f, d) = {} /\ Shape(f, j)
  BY <1>1 DEF Sound, Owned
<1>4. OwnedBlocks(f, j) \subseteq Blocks
  BY <1>1, OwnedInBlocks
<1>5. OwnedBlocks(f, j) \cap (OwnedBlocks(h, i) \cup {c}) = {}
  BY <1>3 DEF Created
<1>6. \A b \in OwnedBlocks(f, j) : h.dir[b] = f.dir[b] /\ h.ptr[b] = f.ptr[b] /\ h.data[b] = f.data[b]
  BY <1>4, <1>5 DEF Created
<1>7. OwnedBlocks(h, j) = OwnedBlocks(f, j) /\ Shape(h, j)
  BY <1>1, <1>2, <1>3, <1>6, OwnedFrame
<1>8. ASSUME j \in UsedDirs(f) PROVE SameDir(f, h, j) /\ Up(h, j) = Up(f, j) /\ DirSound(h, j)
  <2>1. DirSound(f, j)
    BY <1>8 DEF Sound
  <2> QED BY <1>1, <1>2, <1>3, <1>6, <2>1, OtherDir
<1>9. FileData(h, j) = FileData(f, j)
  BY <1>1, <1>2, <1>6, DataFrame
<1> QED BY <1>2, <1>6, <1>7, <1>8, <1>9 DEF OtherKept

LEMMA CreatedSound ==
  ASSUME NEW f, NEW h, Sound(f), NEW i \in Inodes \ Used(f), NEW d \in UsedDirs(f), NEW req \in WriteRequests,
         NEW A, A \cap Meta = {}, NEW c, NEW es, Created(f, h, i, d, req, A, c, es),
         c \in OwnedBlocks(f, d) \cup A,
         h.inode[d].mode = f.inode[d].mode, OwnedBlocks(h, d) = OwnedBlocks(f, d) \cup A,
         Shape(h, d), DirSound(h, d), Up(h, d) = Up(f, d),
         NEW s0 \in Nat, NEW m0 \in Nat,
         LinkAdded(f, h, d, s0, m0, i, req.type)
  PROVE  Sound(h) /\ (LinksAll(f) => LinksAll(h))
<1> DEFINE B == OwnedBlocks(h, i)
<1>1. f \in FsInts /\ d \in Used(f) /\ d \in Inodes /\ d # i /\ i # Root /\ Root \in Used(f)
  BY DEF Sound, Used, UsedDirs
<1>2. Used(h) = Used(f) \cup {i}
  BY <1>1 DEF Created, Used, FsInts
<1>3. \A j \in Used(f) \ {d} :
        /\ h.inode[j] = f.inode[j] /\ OwnedBlocks(h, j) = OwnedBlocks(f, j) /\ Shape(h, j)
        /\ j \in UsedDirs(f) => SameDir(f, h, j) /\ Up(h, j) = Up(f, j) /\ DirSound(h, j)
  <2>1. \A j \in Used(f) \ {d} : OtherKept(f, h, j)
    BY CreatedOthers
  <2> QED BY <2>1 DEF OtherKept
<1>4. \A j \in Used(f) : h.inode[j].mode = f.inode[j].mode
  BY <1>3
<1>5. IsDir(h, i) => DirSound(h, i) /\ Up(h, i) = d /\ \A s, m : ~LinkAt(h, i, s, m)
  BY <1>1, TableSound DEF Created
<1>6. UsedDirs(h) \subseteq UsedDirs(f) \cup {i} /\ UsedDirs(f) \subseteq UsedDirs(h)
      /\ (i \in UsedDirs(h) => IsDir(h, i))
  BY <1>2, <1>4 DEF UsedDirs, IsDir
<1>7. Owned(h)
  <2>1. Owned(f) /\ Meta \cap Clear(f) = {}
    BY DEF Sound
  <2>2. /\ A \subseteq Clear(f) \ Meta /\ B \subseteq Clear(f) \ Meta /\ A \cap B = {}
        /\ Clear(h) = Clear(f) \ (A \cup B) /\ Shape(h, i)
    BY <2>1 DEF Created
  <2> HIDE DEF B
  <2>3. OwnedBlocks(h, i) = B
    BY DEF B
  <2>4. \A j \in Used(f) \ {d} : OwnedBlocks(h, j) = OwnedBlocks(f, j) /\ Shape(h, j)
    BY <1>3
  <2>5. i \notin Used(f)
    OBVIOUS
  <2> QED BY <1>1, <1>2, <2>1, <2>2, <2>3, <2>4, <2>5, OwnedCreated
<1>8. LinksTrue(h) /\ LinksOnce(h) /\ (LinksAll(f) => LinksAll(h))
  <2>1. LinksTrue(f) /\ LinksOnce(f)
    BY DEF Sound
  <2>3. \A j \in UsedDirs(f) : Up(h, j) = Up(f, j)
    BY <1>3 DEF UsedDirs
  <2>4. \A e \in UsedDirs(f) \ {d} : SameDir(f, h, e)
    BY <1>3 DEF UsedDirs
  <2>5. h.inode[i].mode = req.type
    BY DEF Created
  <2>6. IsDir(h, i) => Up(h, i) = d /\ \A s, m \in Nat : ~LinkAt(h, i, s, m)
    BY <1>5
  <2>7. i \notin Used(f)
    OBVIOUS
  <2> HIDE DEF B
  <2> QED BY <1>1, <1>2, <1>4, <2>1, <2>3, <2>4, <2>5, <2>6, <2>7, LinksCreated
<1>9. \A j \in UsedDirs(h) : DirSound(h, j)
  <2> TAKE j \in UsedDirs(h)
  <2>1. CASE j = i
    BY <1>5, <1>6, <2>1
  <2>2. CASE j = d
    BY <2>2
  <2>3. CASE j \in UsedDirs(f) \ {d}
    BY <1>3, <2>3 DEF UsedDirs
  <2> QED BY <1>6, <2>1, <2>2, <2>3
<1>10. \A j \in Inodes : h.inode[j].mode # "none" <=> j \in Used(h)
  <2> TAKE j \in Inodes
  <2>1. CASE j = i
    <3>1. h.inode[i].mode = req.type /\ req.type # "none"
      BY RequestFields DEF Created
    <3> QED BY <1>2, <2>1, <3>1
  <2>2. CASE j # i
    <3>1. h.inode[j].mode = f.inode[j].mode
      BY <2>2 DEF Created
    <3> QED BY <1>2, <2>2, <3>1 DEF Sound
  <2> QED BY <2>1, <2>2
<1>11. Meta \cap Clear(h) = {} /\ h \in FsInts /\ h.saved = h.count /\ Counted(h)
  BY DEF Sound, Created
<1>12. Root \in UsedDirs(h)
  BY <1>6 DEF Sound
<1> QED BY <1>7, <1>8, <1>9, <1>10, <1>11, <1>12 DEF Sound

-----------------------------------------------------------------------------
(* Scanning a directory.                                                   *)

LEMMA FirstIs ==
  ASSUME NEW P \in SUBSET (Nat \X Nat), P # {}
  PROVE  LET p == FirstOf(P)
         IN  p \in P /\ \A q \in P : p[1] < q[1] \/ (p[1] = q[1] /\ p[2] <= q[2])
<1> DEFINE S == {p[1] : p \in P}
<1>1. S \in SUBSET Nat /\ S # {}
  OBVIOUS
<1>2. PICK s \in S : \A t \in S : s <= t
  BY <1>1, LeastNat
<1> DEFINE M == {m \in Nat : <<s, m>> \in P}
<1>3. M \in SUBSET Nat /\ M # {}
  <2>1. PICK p \in P : s = p[1]
    OBVIOUS
  <2>2. p = <<p[1], p[2]>> /\ p[2] \in Nat
    OBVIOUS
  <2> QED BY <2>1, <2>2
<1>4. PICK m \in M : \A k \in M : m <= k
  BY <1>3, LeastNat
<1>5. <<s, m>> \in P /\ s \in Nat /\ m \in Nat
  OBVIOUS
<1>6. \A q \in P : s < q[1] \/ (s = q[1] /\ m <= q[2])
  <2> TAKE q \in P
  <2>1. q = <<q[1], q[2]>> /\ q[1] \in Nat /\ q[2] \in Nat /\ q[1] \in S
    OBVIOUS
  <2>2. s <= q[1]
    BY <1>2, <2>1
  <2>3. CASE s = q[1]
    <3>1. q[2] \in M
      BY <2>1, <2>3
    <3> QED BY <1>4, <2>3, <3>1
  <2> QED BY <1>5, <2>1, <2>2, <2>3
<1>7. \E p \in P : \A q \in P : p[1] < q[1] \/ (p[1] = q[1] /\ p[2] <= q[2])
  <2> WITNESS <<s, m>> \in P
  <2> QED BY <1>6
<1> QED BY <1>7 DEF FirstOf

(* The places of a directory are the records of its blocks.                *)
LEMMA PlacesIs ==
  ASSUME NEW f \in FsInts, NEW d \in Inodes, Shape(f, d), DirSound(f, d)
  PROVE  /\ Places(f, d) \subseteq Nat \X Nat
         /\ \A p \in Places(f, d) :
              /\ p[1] \in DirSlots(f, d) /\ p[2] \in 1 .. Len(Entries(f, d, p[1]))
              /\ EntryAt(f, d, p) = Entries(f, d, p[1])[p[2]]
              /\ Entries(f, d, p[1]) \in Seq(EntryType)
         /\ \A s \in DirSlots(f, d) : \A m \in 1 .. Len(Entries(f, d, s)) :
              <<s, m>> \in Places(f, d) /\ EntryAt(f, d, <<s, m>>) = Entries(f, d, s)[m]
<1> DEFINE n == f.inode[d].blocks
<1>1. n \in 1 .. Direct /\ Direct \in Nat
  BY Positive DEF DirSound, DirShape
<1>2. DirBlocks(f, d) = DirSlots(f, d) /\ DirSlots(f, d) \subseteq Nat
  <2>1. Smaller(n, Cardinality(Slots)) = n
    BY <1>1, SlotCount DEF Smaller
  <2> QED BY <1>1, <2>1 DEF DirBlocks, DirSlots
<1>3. ASSUME NEW s \in DirSlots(f, d)
      PROVE  Entries(f, d, s) \in Seq(EntryType) /\ Len(Entries(f, d, s)) \in 1 .. BlockLen
  <2>1. s \in Slots
    BY DirOwns DEF DirSound
  <2>2. f.inode[d].block[s] \in Blocks
    <3>1. f.inode[d] \in InodeType
      BY DEF FsInts
    <3> QED BY <2>1, <3>1 DEF InodeType
  <2>3. Entries(f, d, s) \in Seq(EntryType)
    BY <2>2 DEF FsInts, Entries
  <2>4. Fit(Entries(f, d, s))
    BY DEF DirSound
  <2>5. PICK off : Fits(Entries(f, d, s), off)
    BY <2>4 DEF Fit
  <2> QED BY <2>3, <2>5, FitLen
<1>4. BlockLen \in Nat
  BY Ext2Assumption
<1>5. ASSUME NEW p \in Places(f, d)
      PROVE  /\ p = <<p[1], p[2]>> /\ p[1] \in DirSlots(f, d) /\ p[2] \in 1 .. Len(Entries(f, d, p[1]))
             /\ EntryAt(f, d, p) = Entries(f, d, p[1])[p[2]]
  <2>1. PICK s \in DirSlots(f, d) : p \in {s} \X DOMAIN Entries(f, d, s)
    BY <1>2 DEF Places, Entries
  <2>2. p = <<p[1], p[2]>> /\ p[1] = s /\ p[2] \in DOMAIN Entries(f, d, s)
    BY <2>1
  <2>3. DOMAIN Entries(f, d, s) = 1 .. Len(Entries(f, d, s))
    BY <1>3
  <2> QED BY <2>2, <2>3 DEF EntryAt, Entries
<1>6. ASSUME NEW s \in DirSlots(f, d), NEW m \in 1 .. Len(Entries(f, d, s))
      PROVE  <<s, m>> \in Places(f, d) /\ EntryAt(f, d, <<s, m>>) = Entries(f, d, s)[m]
  <2>1. DOMAIN Entries(f, d, s) = 1 .. Len(Entries(f, d, s))
    BY <1>3
  <2>2. <<s, m>> \in {s} \X DOMAIN Entries(f, d, s)
    BY <2>1
  <2> QED BY <1>2, <2>2 DEF Places, EntryAt, Entries
<1>7. Places(f, d) \subseteq Nat \X Nat
  <2> SUFFICES ASSUME NEW p \in Places(f, d) PROVE p \in Nat \X Nat
    OBVIOUS
  <2>1. p[2] \in Nat
    BY <1>3, <1>4, <1>5
  <2> QED BY <1>2, <1>5, <2>1
<1> QED BY <1>3, <1>5, <1>6, <1>7

-----------------------------------------------------------------------------
(* A write that makes an entry.                                            *)

LEMMA CountedSame ==
  ASSUME NEW f, NEW h, Counted(f), h.bmap = f.bmap, h.imap = f.imap, h.count = f.count,
         \A j \in Inodes : h.inode[j].mode = f.inode[j].mode
  PROVE  Counted(h)
<1>1. Clear(h) = Clear(f) /\ Used(h) = Used(f)
  BY DEF Clear, Used
<1>2. \A g : DirsIn(h, g) = DirsIn(f, g)
  BY <1>1 DEF DirsIn, IsDir, Used
<1>3. BlocksCounted(h)
  BY <1>1 DEF Counted, BlocksCounted
<1>4. InodesCounted(h)
  BY <1>1 DEF Counted, InodesCounted
<1>5. DirsCounted(h)
  BY <1>2 DEF Counted, DirsCounted
<1> QED BY <1>3, <1>4, <1>5 DEF Counted

(* The inode is filled and the records es are in block c.                  *)
Placed(f, h, i, d, req, c, es) ==
  LET B == OwnedBlocks(h, i)
  IN  /\ h \in FsInts /\ Counted(h)
      /\ h.imap = [f.imap EXCEPT ![i] = TRUE]
      /\ h.inode = [f.inode EXCEPT ![i] = h.inode[i]]
      /\ h.inode[i].mode = req.type /\ Shape(h, i)
      /\ IsDir(h, i) => /\ DirShape(h, i) /\ h.inode[i].blocks = 1
                        /\ h.dir[h.inode[i].block[0]] = DirTable(i, d)
      /\ B \subseteq Clear(f) /\ Clear(h) = Clear(f) \ B
      /\ h.dir[c] = es
      /\ \A b \in Blocks \ (B \cup {c}) :
           h.dir[b] = f.dir[b] /\ h.ptr[b] = f.ptr[b] /\ h.data[b] = f.data[b]
      /\ FileStored(h, i, req, DataFits(f, i, req))

LEMMA PlacedIs ==
  ASSUME NEW f \in FsInts, NEW i \in Inodes \ Used(f), NEW req \in WriteRequests,
         Meta \cap Clear(f) = {}, Counted(f), RoomFor(f, req, i),
         NEW c \in Blocks \ Clear(f), NEW es \in Seq(EntryType)
  PROVE  Placed(f, PutDir(FillInode(TakeInode(f, i), i, req), c, es), i, req.parent, req, c, es)
<1> DEFINE g == FillInode(TakeInode(f, i), i, req)
           B == OwnedBlocks(g, i)
           h == PutDir(g, c, es)
<1>1. /\ g \in FsInts /\ B \subseteq Clear(f) /\ Clear(g) = Clear(f) \ B
      /\ g.imap = [f.imap EXCEPT ![i] = TRUE]
      /\ g.inode = [f.inode EXCEPT ![i] = g.inode[i]]
      /\ \A b \in Blocks \ B :
           g.dir[b] = f.dir[b] /\ g.data[b] = f.data[b] /\ g.ptr[b] = f.ptr[b]
      /\ Shape(g, i) /\ g.inode[i].mode = req.type
      /\ IsDir(g, i) => /\ DirShape(g, i) /\ g.inode[i].blocks = 1
                        /\ g.dir[g.inode[i].block[0]] = DirTable(i, req.parent)
      /\ Counted(g) /\ FileStored(g, i, req, DataFits(f, i, req))
  BY FillIs
<1> HIDE DEF g
<1>2. /\ h \in FsInts /\ h.bmap = g.bmap /\ h.imap = g.imap /\ h.inode = g.inode
      /\ h.dir = [g.dir EXCEPT ![c] = es] /\ h.ptr = [g.ptr EXCEPT ![c] = <<>>]
      /\ h.data = [g.data EXCEPT ![c] = NoData] /\ h.count = g.count
  <2>1. g \in FsInts /\ c \in Blocks /\ es \in Seq(EntryType) /\ h = PutDir(g, c, es)
    BY <1>1
  <2> HIDE DEF B, h
  <2>2. /\ h \in FsInts /\ h.bmap = g.bmap /\ SameTables(g, h)
        /\ h.dir = [g.dir EXCEPT ![c] = es]
        /\ h.data = [g.data EXCEPT ![c] = NoData]
        /\ h.ptr = [g.ptr EXCEPT ![c] = <<>>]
        /\ h.count = g.count /\ h.saved = g.saved
    BY <2>1, DirPut, SMTT(30)
  <2> QED BY <2>2 DEF SameTables
<1> HIDE DEF h
<1>3. /\ g.dir \in [Blocks -> Seq(EntryType)] /\ g.ptr \in [Blocks -> Seq(Blocks)]
      /\ g.data \in [Blocks -> {NoData} \cup (Datas \X Nat)]
  BY <1>1 DEF FsInts
<1>4. h.dir[c] = es /\ \A b \in Blocks \ {c} :
                          h.dir[b] = g.dir[b] /\ h.ptr[b] = g.ptr[b] /\ h.data[b] = g.data[b]
  BY <1>2, <1>3
<1>5. B \subseteq Blocks /\ c \notin B
      /\ \A b \in B : h.dir[b] = g.dir[b] /\ h.ptr[b] = g.ptr[b] /\ h.data[b] = g.data[b]
  BY <1>1, <1>4 DEF Clear
<1>6. OwnedBlocks(h, i) = B /\ Shape(h, i)
  BY <1>1, <1>2, <1>5, OwnedFrame
<1>7. Counted(h)
  BY <1>1, <1>2, CountedSame
<1>8. Clear(h) = Clear(f) \ B
  BY <1>1, <1>2 DEF Clear
<1>9. \A b \in Blocks \ (B \cup {c}) :
        h.dir[b] = f.dir[b] /\ h.ptr[b] = f.ptr[b] /\ h.data[b] = f.data[b]
  BY <1>1, <1>4
<1>10. ASSUME IsDir(h, i)
       PROVE  /\ DirShape(h, i) /\ h.inode[i].blocks = 1
              /\ h.dir[h.inode[i].block[0]] = DirTable(i, req.parent)
  <2>1. IsDir(g, i) /\ h.inode[i] = g.inode[i]
    BY <1>2, <1>10 DEF IsDir
  <2>2. DirShape(g, i) /\ g.inode[i].blocks = 1
        /\ g.dir[g.inode[i].block[0]] = DirTable(i, req.parent)
    BY <1>1, <2>1
  <2>3. g.inode[i].block[0] \in B
    <3>1. 0 \in DirSlots(g, i) /\ OwnedBlocks(g, i) = {g.inode[i].block[s] : s \in DirSlots(g, i)}
      BY <1>1, <2>2, DirOwns
    <3> QED BY <3>1
  <2>4. DirShape(h, i)
    BY <2>1, <2>2, DirKept
  <2> QED BY <1>5, <2>1, <2>2, <2>3, <2>4
<1>12. FileStored(h, i, req, DataFits(f, i, req))
  <2>1. h.inode[i] = g.inode[i] /\ g \in FsInts /\ i \in Inodes
    BY <1>1, <1>2
  <2>2. FileData(h, i) = FileData(g, i)
    BY <1>5, <2>1, DataFrame
  <2> QED BY <1>1, <2>1, <2>2 DEF FileStored, HoldsData
<1> HIDE DEF B
<1>11. Placed(f, h, i, req.parent, req, c, es)
  BY <1>1, <1>2, <1>4, <1>6, <1>7, <1>8, <1>9, <1>10, <1>12 DEF Placed
<1> QED BY <1>11 DEF h, g

(* The parent's inode may change, and the counts go to the disk.           *)
LEMMA CreatedFrom ==
  ASSUME NEW f, NEW e \in FsInts, NEW g, NEW h \in FsInts, NEW i \in Inodes, NEW d \in Inodes, d # i,
         NEW req, NEW A \in SUBSET Clear(f), NEW c \in Blocks \ Clear(e), NEW es,
         Placed(e, g, i, d, req, c, es), HasSpace(f, i, req) => DataFits(e, i, req),
         e.imap = f.imap, e.inode = f.inode, SameContents(f, e), Clear(e) = Clear(f) \ A,
         h.bmap = g.bmap, h.imap = g.imap, SameContents(g, h), h.count = g.count, h.saved = h.count,
         \A j \in Inodes \ {d} : h.inode[j] = g.inode[j], h.inode[d].mode = g.inode[d].mode
  PROVE  Created(f, h, i, d, req, A, c, es)
<1> DEFINE B == OwnedBlocks(g, i)
<1>1. g \in FsInts /\ Counted(g) /\ Shape(g, i)
  BY DEF Placed
<1>2. h.inode[i] = g.inode[i] /\ h.ptr = g.ptr /\ h.dir = g.dir /\ h.data = g.data
  BY DEF SameContents
<1>3. OwnedBlocks(h, i) = B /\ Shape(h, i)
  BY <1>1, <1>2, OwnedFrame
<1>4. Counted(h)
  BY <1>1, CountedSame
<1>5. Clear(h) = Clear(g)
  BY DEF Clear
<1>6. \A j \in Inodes \ {d, i} : h.inode[j] = f.inode[j]
  <2>1. e.inode \in [Inodes -> InodeType]
    BY DEF FsInts
  <2>2. \A j \in Inodes \ {i} : g.inode[j] = e.inode[j]
    BY <2>1 DEF Placed
  <2> QED BY <2>2
<1>7. B \subseteq Clear(e) /\ Clear(g) = Clear(e) \ B /\ g.imap = [e.imap EXCEPT ![i] = TRUE]
      /\ g.inode[i].mode = req.type /\ g.dir[c] = es
      /\ \A b \in Blocks \ (B \cup {c}) :
           g.dir[b] = e.dir[b] /\ g.ptr[b] = e.ptr[b] /\ g.data[b] = e.data[b]
  BY DEF Placed
<1>8. IsDir(h, i) => /\ DirShape(h, i) /\ h.inode[i].blocks = 1
                     /\ h.dir[h.inode[i].block[0]] = DirTable(i, d)
  BY <1>2, DirKept DEF Placed, IsDir
<1>11. FileStored(h, i, req, HasSpace(f, i, req))
  <2>1. FileData(h, i) = FileData(g, i)
    BY <1>1, <1>2, DataFrame
  <2>2. FileStored(g, i, req, DataFits(e, i, req))
    BY DEF Placed
  <2> QED BY <1>2, <2>1, <2>2 DEF FileStored, HoldsData
<1> HIDE DEF B
<1>9. A \cup B \subseteq Clear(f) /\ A \cap B = {} /\ Clear(h) = Clear(f) \ (A \cup B) /\ c \in Blocks \ B
  BY <1>5, <1>7
<1>10. \A b \in Blocks \ (B \cup {c}) :
         h.dir[b] = f.dir[b] /\ h.ptr[b] = f.ptr[b] /\ h.data[b] = f.data[b]
  BY <1>2, <1>7 DEF SameContents
<1> QED BY <1>2, <1>3, <1>4, <1>6, <1>7, <1>8, <1>9, <1>10, <1>11 DEF Created

LEMMA DirUntouched ==
  ASSUME NEW f \in FsInts, NEW h \in FsInts, NEW d \in Inodes, h.inode[d] = f.inode[d],
         Shape(f, d), DirShape(f, d)
  PROVE  Shape(h, d) /\ OwnedBlocks(h, d) = OwnedBlocks(f, d)
<1>1. f.inode[d].blocks \in 1 .. Direct /\ Direct \in Nat
  BY Positive DEF DirShape
<1>2. f.inode[d].block[Direct] = Null /\ f.inode[d].block[Direct + 1] = Null
  BY <1>1, TurnNumbers DEF Shape
<1>3. Shape(h, d)
  BY <1>2 DEF Shape
<1>4. DirShape(h, d)
  BY DirKept
<1>5. OwnedBlocks(h, d) = {h.inode[d].block[s] : s \in DirSlots(h, d)}
  BY <1>3, <1>4, DirOwns
<1>6. OwnedBlocks(f, d) = {f.inode[d].block[s] : s \in DirSlots(f, d)}
  BY DirOwns
<1> QED BY <1>3, <1>5, <1>6 DEF DirSlots

(* What Sound says of a directory.                                         *)
LEMMA SoundDir ==
  ASSUME NEW f, Sound(f), NEW d \in UsedDirs(f)
  PROVE  /\ f \in FsInts /\ d \in Inodes /\ d \in Used(f) /\ Shape(f, d) /\ DirSound(f, d) /\ DirShape(f, d)
         /\ OwnedBlocks(f, d) \subseteq Blocks \ Clear(f)
         /\ \A s \in DirSlots(f, d) : f.inode[d].block[s] \in OwnedBlocks(f, d)
<1>1. f \in FsInts /\ d \in Inodes /\ d \in Used(f) /\ DirSound(f, d)
  BY DEF Sound, UsedDirs, Used
<1>2. Shape(f, d) /\ OwnedBlocks(f, d) \cap Clear(f) = {}
  BY <1>1 DEF Sound, Owned
<1>3. DirShape(f, d)
  BY <1>1 DEF DirSound
<1>4. OwnedBlocks(f, d) \subseteq Blocks
  BY <1>1, OwnedInBlocks
<1>5. \A s \in DirSlots(f, d) : f.inode[d].block[s] \in OwnedBlocks(f, d)
  BY <1>1, <1>2, <1>3, DirOwns
<1> QED BY <1>1, <1>2, <1>3, <1>4, <1>5

LEMMA SpaceFits ==
  ASSUME NEW f, NEW i, NEW req \in WriteRequests, HasSpace(f, i, req)
  PROVE  DataFits(f, i, req)
<1> DEFINE F == FreeFrom(f, inode_to_bgd(i))
           n == TurnsFor(req.size)
<1>1. Cardinality(F) \in Nat
  <2>1. F \in SUBSET Blocks
    BY FreeIsClear
  <2> QED BY <2>1, GroupFinite
<1>2. n \in Nat
  <2>1. req.size \in Nat
    BY RequestFields
  <2> QED BY <2>1, TurnsNeeded
<1>3. n < Cardinality(F)
  BY DEF HasSpace
<1> HIDE DEF n, F
<1>4. n <= Cardinality(F)
  BY <1>1, <1>2, <1>3
<1> QED BY <1>4 DEF DataFits, n, F

(* The new entry new has gone behind the k-th of block s0.                 *)
EntryInserted(f, h, req, s0, k, new) ==
  LET d   == req.parent
      old == Entries(f, d, s0)
      es  == Inserted(old, k, new)
      c   == f.inode[d].block[s0]
  IN  /\ s0 \in DirSlots(f, d) /\ s0 \in Nat /\ k \in 1 .. Len(old)
      /\ old \in Seq(EntryType) /\ Fit(old)
      /\ new \in EntryType /\ new.ino = NewInode(f) /\ new.name = req.name /\ new.type = req.type
      /\ new.len = Hole(old[k]) /\ RecLen[new.name] <= new.len
      /\ NewInode(f) \in Inodes \ Used(f) /\ NewInode(f) # 0 /\ c \in OwnedBlocks(f, d)
      /\ Created(f, h, NewInode(f), d, req, {}, c, es) /\ DirRewritten(f, h, d, s0, es)
      /\ h.inode[d] = f.inode[d] /\ DirSound(h, d) /\ Up(h, d) = Up(f, d)

LEMMA InsertMade ==
  ASSUME NEW f, Sound(f), NEW req \in WriteRequests, req.parent \in UsedDirs(f),
         NEW p \in Roomy(f, req.parent, req.name), NewInode(f) # 0, RoomFor(f, req, NewInode(f))
  PROVE  LET r == InsertEntry(f, req, p)
         IN  r.code = 0 /\ \E new : EntryInserted(f, r.fs, req, p[1], p[2], new)
<1> DEFINE d   == req.parent
           i   == NewInode(f)
           s0  == p[1]
           k   == p[2]
           c   == f.inode[d].block[s0]
           old == Entries(f, d, s0)
           new == [ino |-> i, name |-> req.name, type |-> req.type, len |-> Hole(old[k])]
           es  == Inserted(old, k, new)
           g   == PutDir(FillInode(TakeInode(f, i), i, req), c, es)
           h   == SyncMetadata(g)
<1>1. InsertEntry(f, req, p).fs = h /\ InsertEntry(f, req, p).code = 0
  BY DEF InsertEntry, Inserted, Entries
<1>2. /\ f \in FsInts /\ d \in Inodes /\ d \in Used(f) /\ Shape(f, d) /\ DirSound(f, d) /\ DirShape(f, d)
      /\ OwnedBlocks(f, d) \subseteq Blocks \ Clear(f)
      /\ \A s \in DirSlots(f, d) : f.inode[d].block[s] \in OwnedBlocks(f, d)
  BY SoundDir
<1>3. i \in Inodes /\ i \notin Used(f) /\ i # 0 /\ i # d
  BY <1>2, NewInodeIs
<1>4. Meta \cap Clear(f) = {} /\ Counted(f)
  BY DEF Sound
<1>5. req.parent \in Inodes /\ req.name \in Names /\ req.type \in {"reg", "dir"}
  BY RequestFields
<1>6. RoomFor(f, req, i)
  OBVIOUS
<1> HIDE DEF i
<1>7. /\ s0 \in DirSlots(f, d) /\ s0 \in Nat /\ k \in 1 .. Len(old) /\ old \in Seq(EntryType)
      /\ Hole(old[k]) >= RecLen[req.name]
  <2>1. p \in Places(f, d) /\ Hole(EntryAt(f, d, p)) >= RecLen[req.name]
    BY DEF Roomy
  <2>2. /\ p[1] \in DirSlots(f, d) /\ p[2] \in 1 .. Len(Entries(f, d, p[1]))
        /\ EntryAt(f, d, p) = Entries(f, d, p[1])[p[2]]
        /\ Entries(f, d, p[1]) \in Seq(EntryType)
    BY <1>2, <2>1, PlacesIs
  <2>3. p[1] \in Nat
    BY <1>2, <2>1, PlacesIs
  <2> QED BY <2>1, <2>2, <2>3
<1> HIDE DEF s0, k
<1>8. Fit(old)
  BY <1>2, <1>7 DEF DirSound
<1> DEFINE room == Hole(old[k])
<1>9. room \in 1 .. BlockLen /\ RecLen[req.name] <= room
  <2>1. old[k] \in EntryType
    BY <1>7
  <2>2. old[k].len \in 1 .. BlockLen /\ RecLen[old[k].name] \in 1 .. BlockLen
        /\ Hole(old[k]) = old[k].len - RecLen[old[k].name]
    BY <2>1, EntryFields
  <2>3. RecLen[req.name] \in 1 .. BlockLen /\ BlockLen \in Nat
    BY <1>5, Lengths
  <2> QED BY <1>7, <2>2, <2>3
<1>10. /\ new \in EntryType /\ new.ino = i /\ new.name = req.name /\ new.type = req.type
       /\ new.len = room /\ room = Hole(old[k])
  <2> HIDE DEF room
  <2>1. [ino |-> i, name |-> req.name, type |-> req.type, len |-> room] \in EntryType
    BY <1>3, <1>5, <1>9 DEF EntryType
  <2> QED BY <2>1 DEF room
<1> HIDE DEF room, new
<1>11. c \in OwnedBlocks(f, d) /\ c \in Blocks \ Clear(f) /\ f.dir[c] = old
  BY <1>2, <1>7 DEF Entries
<1>12. es \in Seq(EntryType) /\ Fit(es)
  <2>1. HasInserted(es, old, k, new)
    BY <1>7, <1>8, <1>9, <1>10, InsertedIs
  <2> HIDE DEF es
  <2> QED BY <2>1 DEF HasInserted
<1>13. s0 = 0 => Begins(es, d) /\ es[2].ino = Up(f, d)
  <2> SUFFICES ASSUME s0 = 0 PROVE Begins(es, d) /\ es[2].ino = Up(f, d)
    OBVIOUS
  <2>1. Begins(old, d) /\ Up(f, d) = old[2].ino
    BY <1>2 DEF DirSound, Up
  <2>2. new.ino # 0
    BY <1>3, <1>10
  <2> QED BY <1>7, <1>8, <1>9, <1>10, <2>1, <2>2, BeginsInserted
<1>15. Placed(f, g, i, d, req, c, es)
  BY <1>2, <1>3, <1>4, <1>6, <1>11, <1>12, PlacedIs
<1>16. \A x \in FsInts : LET y == SyncMetadata(x)
                         IN  y \in FsInts /\ y.bmap = x.bmap /\ SameTables(x, y) /\ SameContents(x, y)
                             /\ y.count = x.count /\ y.saved = x.count
  BY SyncMetadataIs
<1> HIDE DEF g, es, c, old, d
<1>17. /\ g \in FsInts /\ h \in FsInts /\ h.bmap = g.bmap /\ SameTables(g, h) /\ SameContents(g, h)
       /\ h.count = g.count /\ h.saved = g.count
  <2>1. g \in FsInts
    BY <1>15 DEF Placed
  <2> QED BY <1>16, <2>1
<1> HIDE DEF h
<1>18. Created(f, h, i, d, req, {}, c, es)
  <2>1. h.imap = g.imap /\ h.inode = g.inode /\ SameContents(f, f) /\ Clear(f) = Clear(f) \ {}
        /\ h.saved = h.count /\ {} \in SUBSET Clear(f)
    BY <1>17 DEF SameTables, SameContents
  <2>2. HasSpace(f, i, req) => DataFits(f, i, req)
    BY SpaceFits
  <2> QED BY <1>2, <1>3, <1>11, <1>15, <1>17, <2>1, <2>2, CreatedFrom
<1>19. h.inode[d] = f.inode[d]
  <2>1. f.inode \in [Inodes -> InodeType]
    BY <1>2 DEF FsInts
  <2> QED BY <1>2, <1>3, <1>15, <1>17, <2>1 DEF Placed, SameTables
<1>21. h.dir[c] = es /\ \A b \in OwnedBlocks(f, d) \ {c} : h.dir[b] = f.dir[b]
  BY <1>2, <1>18 DEF Created
<1>22. DirRewritten(f, h, d, s0, es) /\ DirSound(h, d) /\ Up(h, d) = Up(f, d)
  <2>1. c = f.inode[d].block[s0]
    BY DEF c
  <2> QED BY <1>2, <1>7, <1>12, <1>13, <1>19, <1>21, <2>1, RewrittenDir
<1>23. EntryInserted(f, h, req, s0, k, new)
  <2>1. /\ i = NewInode(f) /\ d = req.parent /\ old = Entries(f, d, s0) /\ es = Inserted(old, k, new)
        /\ c = f.inode[d].block[s0]
    BY DEF i, d, old, es, c
  <2>2. new.len = Hole(old[k]) /\ RecLen[new.name] <= new.len /\ i \in Inodes \ Used(f)
    BY <1>3, <1>9, <1>10
  <2> QED BY <1>3, <1>7, <1>8, <1>10, <1>11, <1>18, <1>19, <1>22, <2>1, <2>2 DEF EntryInserted
<1>24. \E n : EntryInserted(f, h, req, s0, k, n)
  BY <1>23
<1> QED BY <1>1, <1>24 DEF s0, k

LEMMA InsertSound ==
  ASSUME NEW f, Sound(f), NEW req \in WriteRequests, req.parent \in UsedDirs(f),
         NEW p \in Roomy(f, req.parent, req.name), NewInode(f) # 0, RoomFor(f, req, NewInode(f))
  PROVE  LET h == InsertEntry(f, req, p).fs
         IN  Sound(h) /\ (LinksAll(f) => LinksAll(h))
<1> DEFINE d   == req.parent
           i   == NewInode(f)
           h   == InsertEntry(f, req, p).fs
           s0  == p[1]
           k   == p[2]
           c   == f.inode[d].block[s0]
           old == Entries(f, d, s0)
<1>1. PICK new : EntryInserted(f, h, req, s0, k, new)
  BY InsertMade
<1> HIDE DEF h, s0, k
<1>2. /\ s0 \in DirSlots(f, d) /\ s0 \in Nat /\ k \in 1 .. Len(old)
      /\ old \in Seq(EntryType) /\ Fit(old)
      /\ new \in EntryType /\ new.ino = i /\ new.name = req.name /\ new.type = req.type
      /\ new.len = Hole(old[k]) /\ RecLen[new.name] <= new.len
      /\ i \in Inodes \ Used(f) /\ i # 0 /\ c \in OwnedBlocks(f, d)
      /\ Created(f, h, i, d, req, {}, c, Inserted(old, k, new))
      /\ DirRewritten(f, h, d, s0, Inserted(old, k, new))
      /\ h.inode[d] = f.inode[d] /\ DirSound(h, d) /\ Up(h, d) = Up(f, d)
  BY <1>1 DEF EntryInserted
<1>3. f \in FsInts /\ d \in Inodes /\ Shape(f, d) /\ DirShape(f, d) /\ d \in UsedDirs(f)
  BY SoundDir
<1> HIDE DEF i, old, c, d
<1>4. Shape(h, d) /\ OwnedBlocks(h, d) = OwnedBlocks(f, d) \cup {}
  <2>1. h \in FsInts
    BY <1>2 DEF Created
  <2> QED BY <1>2, <1>3, <2>1, DirUntouched
<1>5. LinkAdded(f, h, d, s0, k + 1, i, req.type)
  <2>1. old = Entries(f, d, s0)
    BY DEF old
  <2>2. new.name \in Names
    BY <1>2, RequestFields
  <2>3. LinkAdded(f, h, d, s0, k + 1, new.ino, new.type)
    BY <1>2, <2>1, <2>2, LinksInserted
  <2> QED BY <1>2, <2>3
<1>6. k + 1 \in Nat /\ {} \cap Meta = {} /\ c \in OwnedBlocks(f, d) \cup {}
      /\ h.inode[d].mode = f.inode[d].mode
  <2>1. Len(old) \in Nat
    BY <1>2
  <2> QED BY <1>2, <2>1
<1>7. Sound(h) /\ (LinksAll(f) => LinksAll(h))
  BY <1>2, <1>3, <1>4, <1>5, <1>6, CreatedSound
<1> QED BY <1>7 DEF h

LEMMA GrownParentType ==
  ASSUME NEW f \in FsInts, NEW d \in Inodes, NEW b \in Blocks
  PROVE  GrownParent(f, d, b) \in InodeType /\ GrownParent(f, d, b).mode = f.inode[d].mode
<1>1. f.inode[d] \in InodeType
  BY DEF FsInts
<1>2. /\ f.inode[d].mode \in Modes /\ f.inode[d].blocks \in Nat
      /\ f.inode[d].block \in [Slots -> Blocks]
  BY <1>1 DEF InodeType
<1> DEFINE n  == f.inode[d].blocks + 1
           at == [f.inode[d].block EXCEPT ![f.inode[d].blocks] = b]
<1>3. at \in [Slots -> Blocks] /\ n \in Nat
  <2>1. \A F \in [Slots -> Blocks] : \A s : [F EXCEPT ![s] = b] \in [Slots -> Blocks]
    OBVIOUS
  <2> QED BY <1>2, <2>1
<1>4. GrownParent(f, d, b) = [f.inode[d] EXCEPT !.blocks = n, !.block = at]
  BY DEF GrownParent
<1> HIDE DEF n, at
<1> QED BY <1>1, <1>2, <1>3, <1>4 DEF InodeType

(* Taking one clear block leaves the counts exact.                         *)
LEMMA OneTaken ==
  ASSUME NEW f \in FsInts, NEW b \in Clear(f), Counted(f)
  PROVE  LET e == TakeBlocks(f, {b})
         IN  /\ e \in FsInts /\ e.imap = f.imap /\ e.inode = f.inode /\ SameContents(f, e)
             /\ Clear(e) = Clear(f) \ {b} /\ Counted(e) /\ NewInode(e) = NewInode(f)
             /\ \A g : FreeFrom(e, g) = FreeFrom(f, g) \ {b}
<1> DEFINE e == TakeBlocks(f, {b})
<1>1. {b} \in SUBSET Blocks /\ {b} \in SUBSET Clear(f)
  BY DEF Clear
<1>2. /\ e \in FsInts /\ SameTables(f, e) /\ SameContents(f, e)
      /\ e.count.blocks = [g \in Groups |-> f.count.blocks[g] - Cardinality(InGroup({b}, g))]
      /\ e.count.sblocks = f.count.sblocks - Cardinality({b})
      /\ e.count.inodes = f.count.inodes /\ e.count.sinodes = f.count.sinodes
      /\ e.count.dirs = f.count.dirs
  BY <1>1, TakeBlocksIs
<1>3. Clear(e) = Clear(f) \ {b}
  BY <1>1, TakeClear
<1> HIDE DEF e
<1>4. BlocksCounted(e)
  BY <1>1, <1>2, <1>3, BlocksTaken DEF Counted
<1>5. Used(e) = Used(f) /\ \A g : DirsIn(e, g) = DirsIn(f, g)
  BY <1>2 DEF Used, DirsIn, IsDir, SameTables
<1>6. InodesCounted(e) /\ DirsCounted(e)
  BY <1>2, <1>5 DEF Counted, InodesCounted, DirsCounted
<1>7. NewInode(e) = NewInode(f)
  <2>1. FreeInodes(e) = FreeInodes(f)
    BY <1>2 DEF FreeInodes, SameTables
  <2> QED BY <2>1 DEF NewInode
<1>8. Counted(e)
  BY <1>4, <1>6 DEF Counted
<1>9. ASSUME NEW g PROVE FreeFrom(e, g) = FreeFrom(f, g) \ {b}
  BY <1>3, <1>8, FreeCounted
<1> QED BY <1>2, <1>3, <1>7, <1>8, <1>9 DEF SameTables, e

(* Then there are blocks for the data if there was one more before.        *)
LEMMA StillFits ==
  ASSUME NEW f, NEW e, NEW b, NEW i, NEW req \in WriteRequests,
         \A g : FreeFrom(e, g) = FreeFrom(f, g) \ {b}, HasSpace(f, i, req)
  PROVE  DataFits(e, i, req)
<1> DEFINE F == FreeFrom(f, inode_to_bgd(i))
           n == TurnsFor(req.size)
<1>1. IsFiniteSet(F) /\ Cardinality(F) \in Nat
  <2>1. F \in SUBSET Blocks
    BY FreeIsClear
  <2> QED BY <2>1, GroupFinite
<1>2. n \in Nat
  <2>1. req.size \in Nat
    BY RequestFields
  <2> QED BY <2>1, TurnsNeeded
<1>3. n < Cardinality(F)
  BY DEF HasSpace
<1> HIDE DEF n, F
<1>4. Cardinality(F \ {b}) >= Cardinality(F) - 1
  <2>1. CASE b \in F
    <3>1. {b} \in SUBSET F
      BY <2>1
    <3>2. Cardinality(F \ {b}) = Cardinality(F) - Cardinality({b})
      BY <1>1, <3>1, CardMinus
    <3>3. Cardinality({b}) = 1
      BY FS_Singleton
    <3> QED BY <1>1, <3>2, <3>3
  <2>2. CASE b \notin F
    <3>1. F \ {b} = F
      BY <2>2
    <3> QED BY <1>1, <3>1
  <2> QED BY <2>1, <2>2
<1>5. Cardinality(F \ {b}) \in Nat
  BY <1>1, FS_CardinalityType, FS_Subset
<1>6. n <= Cardinality(F \ {b})
  BY <1>1, <1>2, <1>3, <1>4, <1>5
<1> QED BY <1>6 DEF DataFits, n, F

(* The directory has grown by b, which holds the new entry new.            *)
EntryGrown(f, h, req, b, new) ==
  LET d == req.parent
  IN  /\ b \in Clear(f) /\ b \in Blocks /\ b \notin Meta /\ b # Null /\ b \notin OwnedBlocks(f, d)
      /\ new \in EntryType /\ new.ino = NewInode(f) /\ new.name = req.name /\ new.type = req.type
      /\ new.len = BlockLen
      /\ NewInode(f) \in Inodes \ Used(f) /\ NewInode(f) # 0
      /\ Created(f, h, NewInode(f), d, req, {b}, b, <<new>>)
      /\ h.inode[d] = GrownParent(f, d, b) /\ f.inode[d].blocks < Direct

LEMMA GrowMade ==
  ASSUME NEW f, Sound(f), NEW req \in WriteRequests, req.parent \in UsedDirs(f),
         FreeFrom(f, inode_to_bgd(req.parent)) # {}, NewInode(f) # 0,
         TableBlock(NewInode(f)) # TableBlock(req.parent), f.inode[req.parent].blocks < Direct,
         RoomFor(TakeBlocks(f, {LeastOf(FreeFrom(f, inode_to_bgd(req.parent)))}), req, NewInode(f))
  PROVE  LET r == GrowDirectory(f, req)
         IN  r.code = 0 /\ \E b, new : EntryGrown(f, r.fs, req, b, new)
<1> DEFINE d    == req.parent
           i    == NewInode(f)
           free == FreeFrom(f, inode_to_bgd(d))
           b    == LeastOf(free)
           e    == TakeBlocks(f, {b})
           new  == [ino |-> i, name |-> req.name, type |-> req.type, len |-> BlockLen]
           es   == <<new>>
           g    == PutDir(FillInode(TakeInode(e, i), i, req), b, es)
           no   == TableWrittenBack(f.inode, g.inode, d, GrownParent(f, d, b))
           k    == [g EXCEPT !.inode = no]
           h    == SyncMetadata(k)
<1>1. /\ f \in FsInts /\ d \in Inodes /\ d \in Used(f) /\ Shape(f, d) /\ DirSound(f, d) /\ DirShape(f, d)
      /\ OwnedBlocks(f, d) \subseteq Blocks \ Clear(f)
  BY SoundDir
<1>2. i \in Inodes /\ i \notin Used(f) /\ i # 0 /\ i # d
  BY <1>1, NewInodeIs
<1>3. Meta \cap Clear(f) = {} /\ Counted(f)
  BY DEF Sound
<1>4. req.parent \in Inodes /\ req.name \in Names /\ req.type \in {"reg", "dir"}
  BY RequestFields
<1>5. b \in Clear(f) /\ b \in Blocks /\ b \notin Meta /\ b # Null /\ b \notin OwnedBlocks(f, d)
  <2>1. free \in SUBSET Nat /\ free # {} /\ free \subseteq Clear(f) /\ free \subseteq Blocks
    BY FreeIsClear, FiniteSets
  <2> HIDE DEF free
  <2>2. b \in free
    BY <2>1, LeastOfIs
  <2> HIDE DEF b
  <2> QED BY <1>1, <1>3, <2>1, <2>2, BootAndRoot
<1>6. RoomFor(e, req, i)
  OBVIOUS
<1>7. TableBlock(i) # TableBlock(d) /\ f.inode[d].blocks < Direct /\ free # {} /\ d \in UsedDirs(f)
  OBVIOUS
<1> DEFINE res == GrowDirectory(f, req)
<1>8. res.fs = h /\ res.code = 0
  <2>1. NewInode(e) = i
    <3> HIDE DEF b, i
    <3>1. NewInode(TakeBlocks(f, {b})) = NewInode(f)
      BY <1>1, <1>3, <1>5, OneTaken
    <3> QED BY <3>1 DEF i
  <2> QED BY <1>2, <1>7, <2>1 DEF GrowDirectory
<1> HIDE DEF i, free, b, res
<1>9. /\ e \in FsInts /\ e.imap = f.imap /\ e.inode = f.inode /\ SameContents(f, e)
      /\ Clear(e) = Clear(f) \ {b} /\ Counted(e)
      /\ (HasSpace(f, i, req) => DataFits(e, i, req))
  <2>1. \A x : FreeFrom(TakeBlocks(f, {b}), x) = FreeFrom(f, x) \ {b}
    BY <1>1, <1>3, <1>5, OneTaken
  <2> QED BY <1>1, <1>3, <1>5, <2>1, OneTaken, StillFits
<1> HIDE DEF e
<1>10. new \in EntryType /\ new.ino = i /\ new.name = req.name /\ new.type = req.type /\ new.len = BlockLen
  <2>1. BlockLen \in 1 .. BlockLen
    BY Lengths
  <2> QED BY <1>2, <1>4, <2>1 DEF EntryType
<1> HIDE DEF new
<1>11. es \in Seq(EntryType)
  BY <1>10
<1>12. Placed(e, g, i, d, req, b, es)
  <2>1. i \in Inodes \ Used(e) /\ Meta \cap Clear(e) = {} /\ b \in Blocks \ Clear(e)
    BY <1>2, <1>3, <1>5, <1>9 DEF Used
  <2> QED BY <1>6, <1>9, <1>11, <2>1, PlacedIs
<1> HIDE DEF g
<1>13. g \in FsInts /\ \A j \in Inodes \ {i} : g.inode[j] = f.inode[j]
  <2>1. f.inode \in [Inodes -> InodeType]
    BY <1>1 DEF FsInts
  <2> QED BY <1>9, <1>12, <2>1 DEF Placed
<1>14. no \in [Inodes -> InodeType] /\ no[d] = GrownParent(f, d, b)
       /\ \A j \in Inodes \ {d} : no[j] = g.inode[j]
  <2>1. no = [j \in Inodes |-> IF j = d THEN GrownParent(f, d, b)
                               ELSE IF TableBlock(j) = TableBlock(d) THEN f.inode[j] ELSE g.inode[j]]
    BY DEF TableWrittenBack
  <2> HIDE DEF no
  <2>2. no[d] = GrownParent(f, d, b)
    BY <1>1, <2>1
  <2>3. ASSUME NEW j \in Inodes \ {d} PROVE no[j] = g.inode[j]
    <3>1. no[j] = IF TableBlock(j) = TableBlock(d) THEN f.inode[j] ELSE g.inode[j]
      BY <2>1
    <3>2. CASE j = i
      BY <1>7, <3>1, <3>2
    <3>3. CASE j # i
      BY <1>13, <3>1, <3>3
    <3> QED BY <3>2, <3>3
  <2>4. \A j \in Inodes : no[j] \in InodeType
    <3>1. GrownParent(f, d, b) \in InodeType
      BY <1>1, <1>5, GrownParentType
    <3>2. \A j \in Inodes : g.inode[j] \in InodeType
      BY <1>13 DEF FsInts
    <3> QED BY <2>2, <2>3, <3>1, <3>2
  <2>5. \E F : no = [j \in Inodes |-> F[j]]
    <3>1. no = [j \in Inodes |-> no[j]]
      BY <2>1
    <3> QED BY <3>1
  <2>6. no \in [Inodes -> InodeType]
    BY <2>4, <2>5
  <2> QED BY <2>2, <2>3, <2>6
<1> HIDE DEF no
<1>15. /\ k \in FsInts /\ k.bmap = g.bmap /\ k.imap = g.imap /\ SameContents(g, k) /\ k.count = g.count
       /\ k.inode = no
  BY <1>13, <1>14 DEF FsInts, SameContents
<1> HIDE DEF k
<1>16. /\ h \in FsInts /\ h.bmap = k.bmap /\ SameTables(k, h) /\ SameContents(k, h)
       /\ h.count = k.count /\ h.saved = k.count
  BY <1>15, SyncMetadataIs
<1> HIDE DEF h, es, d
<1>17. /\ h.bmap = g.bmap /\ h.imap = g.imap /\ SameContents(g, h) /\ h.count = g.count
       /\ h.saved = h.count /\ h.inode = no
  BY <1>15, <1>16 DEF SameTables, SameContents
<1>18. h.inode[d].mode = f.inode[d].mode
  BY <1>1, <1>5, <1>14, <1>17, GrownParentType
<1>19. Created(f, h, i, d, req, {b}, b, es)
  <2>1. h.inode[d].mode = g.inode[d].mode /\ \A j \in Inodes \ {d} : h.inode[j] = g.inode[j]
    BY <1>1, <1>2, <1>13, <1>14, <1>17, <1>18
  <2>2. {b} \in SUBSET Clear(f) /\ b \in Blocks \ Clear(e) /\ Clear(e) = Clear(f) \ {b} /\ h \in FsInts
    BY <1>5, <1>9, <1>16
  <2> QED BY <1>1, <1>2, <1>9, <1>12, <1>17, <2>1, <2>2, CreatedFrom
<1>20. h.inode[d] = GrownParent(f, d, b)
  BY <1>14, <1>17
<1>21. EntryGrown(f, h, req, b, new)
  <2>1. i = NewInode(f) /\ d = req.parent /\ es = <<new>>
    BY DEF i, d, es
  <2> QED BY <1>2, <1>5, <1>7, <1>10, <1>19, <1>20, <2>1 DEF EntryGrown
<1>22. \E x, y : EntryGrown(f, h, req, x, y)
  BY <1>21
<1> QED BY <1>8, <1>22 DEF res

LEMMA GrowSound ==
  ASSUME NEW f, Sound(f), NEW req \in WriteRequests, req.parent \in UsedDirs(f),
         FreeFrom(f, inode_to_bgd(req.parent)) # {}, NewInode(f) # 0,
         TableBlock(NewInode(f)) # TableBlock(req.parent), f.inode[req.parent].blocks < Direct,
         RoomFor(TakeBlocks(f, {LeastOf(FreeFrom(f, inode_to_bgd(req.parent)))}), req, NewInode(f))
  PROVE  LET h == GrowDirectory(f, req).fs
         IN  Sound(h) /\ (LinksAll(f) => LinksAll(h))
<1> DEFINE d  == req.parent
           i  == NewInode(f)
           h  == GrowDirectory(f, req).fs
           s0 == f.inode[d].blocks
<1>1. PICK b, new : EntryGrown(f, h, req, b, new)
  BY GrowMade
<1> HIDE DEF h
<1>2. /\ b \in Clear(f) /\ b \in Blocks /\ b \notin Meta /\ b # Null /\ b \notin OwnedBlocks(f, d)
      /\ new \in EntryType /\ new.ino = i /\ new.name = req.name /\ new.type = req.type
      /\ new.len = BlockLen /\ i \in Inodes \ Used(f) /\ i # 0
      /\ Created(f, h, i, d, req, {b}, b, <<new>>)
      /\ h.inode[d] = GrownParent(f, d, b) /\ s0 < Direct
  BY <1>1 DEF EntryGrown
<1>3. /\ f \in FsInts /\ d \in Inodes /\ Shape(f, d) /\ DirSound(f, d) /\ DirShape(f, d) /\ d \in UsedDirs(f)
      /\ OwnedBlocks(f, d) \subseteq Blocks \ Clear(f)
  BY SoundDir
<1> HIDE DEF i, d
<1>4. h \in FsInts
  BY <1>2 DEF Created
<1>5. Shape(h, d) /\ OwnedBlocks(h, d) = OwnedBlocks(f, d) \cup {b} /\ h.inode[d].mode = f.inode[d].mode
  BY <1>2, <1>3, <1>4, DirGrown
<1>6. DirSound(h, d) /\ Up(h, d) = Up(f, d) /\ s0 \in Nat
      /\ LinkAdded(f, h, d, s0, 1, new.ino, new.type)
  <2>1. new.ino # 0 /\ new.name \in Names /\ new.len = BlockLen
    BY <1>2, RequestFields
  <2>2. h.dir[b] = <<new>> /\ \A x \in OwnedBlocks(f, d) : h.dir[x] = f.dir[x]
    BY <1>2, <1>3 DEF Created
  <2> QED BY <1>2, <1>3, <1>4, <2>1, <2>2, GrownDir
<1> HIDE DEF s0
<1>7. {b} \cap Meta = {} /\ b \in OwnedBlocks(f, d) \cup {b} /\ 1 \in Nat
      /\ LinkAdded(f, h, d, s0, 1, i, req.type)
  BY <1>2, <1>6
<1>8. Sound(h) /\ (LinksAll(f) => LinksAll(h))
  BY <1>2, <1>3, <1>5, <1>6, <1>7, CreatedSound
<1> QED BY <1>8 DEF h

LEMMA WriteSound ==
  ASSUME NEW f, Sound(f), NEW req \in WriteRequests, Handled(f, req)
  PROVE  LET h == WriteResult(f, req).fs
         IN  Sound(h) /\ (LinksAll(f) => LinksAll(h))
<1> DEFINE d    == req.parent
           i    == NewInode(f)
           free == FreeFrom(f, inode_to_bgd(d))
           h    == WriteResult(f, req).fs
<1>1. d \in Inodes
  BY RequestFields
<1>2. CASE ~IsDir(f, d)
  BY <1>2 DEF WriteResult
<1>3. CASE IsDir(f, d) /\ Stops(f, req) = {}
  <2>1. d \in UsedDirs(f)
    BY <1>1, <1>3, DirUsed
  <2>2. h = GrowDirectory(f, req).fs
    BY <1>3 DEF WriteResult, Stops
  <2>3. CASE free = {}
    <3>1. GrowDirectory(f, req).fs = f
      BY <2>3 DEF GrowDirectory
    <3> QED BY <2>2, <3>1
  <2>4. CASE free # {}
    <3>1. Grows(f, req)
      BY <1>3, <2>4 DEF Grows
    <3>2. /\ i # 0 /\ TableBlock(i) # TableBlock(d) /\ f.inode[d].blocks < Direct
          /\ RoomFor(TakeBlocks(f, {LeastOf(free)}), req, i)
      BY <3>1 DEF Handled
    <3> QED BY <2>1, <2>2, <2>4, <3>2, GrowSound
  <2> QED BY <2>3, <2>4
<1>4. CASE IsDir(f, d) /\ Stops(f, req) # {}
  <2> DEFINE p == FirstOf(Stops(f, req))
  <2>1. d \in UsedDirs(f)
    BY <1>1, <1>4, DirUsed
  <2>2. p \in Named(f, d, req.name) \cup Roomy(f, d, req.name)
    <3>1. Places(f, d) \subseteq Nat \X Nat
      BY <2>1, SoundDir, PlacesIs
    <3>2. Stops(f, req) \in SUBSET (Nat \X Nat)
      BY <3>1 DEF Stops, Named, Roomy
    <3>3. p \in Stops(f, req)
      BY <1>4, <3>2, FirstIs
    <3> QED BY <3>3 DEF Stops
  <2>3. CASE p \in Named(f, d, req.name)
    BY <1>4, <2>3 DEF WriteResult, Stops
  <2>4. CASE p \notin Named(f, d, req.name)
    <3>1. h = InsertEntry(f, req, p).fs
      BY <1>4, <2>4 DEF WriteResult, Stops
    <3>2. CASE i = 0
      <4>1. InsertEntry(f, req, p).fs = f
        BY <3>2 DEF InsertEntry
      <4> QED BY <3>1, <4>1
    <3>3. CASE i # 0
      <4>1. Inserts(f, req)
        BY <1>4, <2>4 DEF Inserts
      <4>2. RoomFor(f, req, i)
        BY <3>3, <4>1 DEF Handled
      <4>3. p \in Roomy(f, d, req.name)
        BY <2>2, <2>4
      <4> HIDE DEF p
      <4> QED BY <2>1, <3>1, <3>3, <4>2, <4>3, InsertSound
    <3> QED BY <3>2, <3>3
  <2> QED BY <2>3, <2>4
<1> QED BY <1>2, <1>3, <1>4

-----------------------------------------------------------------------------
(* What a deletion does.                                                   *)

LEMMA RemovedFits ==
  ASSUME NEW old \in Seq(EntryType), NEW k \in 1 .. Len(old), Fit(old)
  PROVE  Removed(old, k) \in Seq(EntryType) /\ Fit(Removed(old, k))
<1>1. Len(old) \in Nat
  OBVIOUS
<1>2. CASE k = 1
  <2>1. 1 \in 1 .. Len(old)
    BY <1>2
  <2>2. Removed(old, 1) \in Seq(EntryType) /\ Fit(Removed(old, 1))
    BY <2>1, FirstCleared
  <2> QED BY <1>2, <2>2
<1>3. CASE k # 1
  <2>1. k \in 2 .. Len(old)
    BY <1>1, <1>3
  <2> QED BY <2>1, RemovedIs
<1> QED BY <1>2, <1>3

LEMMA DeleteRequestFields ==
  ASSUME NEW req \in DeleteRequests
  PROVE  req.parent \in Inodes /\ req.name \in Names /\ req.type \in {"reg", "dir"}
BY Ext2Assumption DEF DeleteRequests

(* Inode i goes, and block c gets the records es.                          *)
Unlinked(f, h, i, c, es) ==
  LET B == OwnedBlocks(f, i)
  IN  /\ h \in FsInts /\ h.saved = h.count /\ Counted(h)
      /\ h.imap = [f.imap EXCEPT ![i] = FALSE] /\ h.inode = [f.inode EXCEPT ![i] = Zeroed]
      /\ Clear(h) = Clear(f) \cup B
      /\ h.dir[c] = es
      /\ \A b \in Blocks \ (B \cup {c}) :
           h.dir[b] = f.dir[b] /\ h.ptr[b] = f.ptr[b] /\ h.data[b] = f.data[b]

LEMMA DeallocateCounts ==
  ASSUME NEW f \in FsInts, NEW i \in Used(f), Shape(f, i), Counted(f),
         OwnedBlocks(f, i) \cap Clear(f) = {}
  PROVE  Counted(DeallocateNode(f, i))
<1> DEFINE h == DeallocateNode(f, i)
           B == OwnedBlocks(f, i)
           g == inode_to_bgd(i)
<1>1. i \in Inodes /\ g \in Groups
  BY InodeGroupIn DEF Used
<1>2. /\ h \in FsInts /\ Clear(h) = Clear(f) \cup B
      /\ h.imap = [f.imap EXCEPT ![i] = FALSE]
      /\ h.inode = [f.inode EXCEPT ![i] = Zeroed]
      /\ \A x \in Groups : h.count.blocks[x] = f.count.blocks[x] + Cardinality(InGroup(B, x))
      /\ h.count.sblocks = f.count.sblocks + Cardinality(B)
      /\ h.count.inodes = [f.count.inodes EXCEPT ![g] = f.count.inodes[g] + 1]
      /\ h.count.sinodes = f.count.sinodes + 1
      /\ h.count.dirs = [f.count.dirs EXCEPT ![g] = DirsLeft(f, i)]
  BY <1>1, DeallocateNodeIs
<1> HIDE DEF h
<1>3. B \in SUBSET Blocks
  BY <1>1, OwnedInBlocks
<1>4. /\ f.count.inodes \in [Groups -> Int] /\ f.count.dirs \in [Groups -> Int]
      /\ f.imap \in [Inodes -> BOOLEAN] /\ f.inode \in [Inodes -> InodeType]
  BY DEF FsInts, CountInts
<1>5. Used(h) = Used(f) \ {i}
  BY <1>1, <1>2, <1>4 DEF Used
<1>6. \A j \in Used(h) : IsDir(h, j) = IsDir(f, j)
  <2>1. \A j \in Used(h) : h.inode[j] = f.inode[j]
    BY <1>2, <1>4, <1>5 DEF Used
  <2> QED BY <2>1 DEF IsDir
<1> HIDE DEF B
<1>7. BlocksCounted(h)
  <2>1. B \cap Clear(f) = {}
    BY DEF B
  <2> QED BY <1>2, <1>3, <2>1, BlocksReleased DEF Counted
<1> HIDE DEF g
<1>8. \A x \in Groups :
        /\ h.count.inodes[x] = IF x = g THEN f.count.inodes[x] + 1 ELSE f.count.inodes[x]
        /\ h.count.dirs[x] = IF x = g THEN DirsLeft(f, i) ELSE f.count.dirs[x]
  BY <1>1, <1>2, <1>4
<1>9. InodesCounted(h)
  <2>1. \A x \in Groups : h.count.inodes[x]
          = IF x = inode_to_bgd(i) THEN f.count.inodes[x] + 1 ELSE f.count.inodes[x]
    BY <1>8 DEF g
  <2>2. InodesCounted(f)
    BY DEF Counted
  <2>3. h.count.sinodes = f.count.sinodes + 1
    BY <1>2
  <2> QED BY <1>5, <2>1, <2>2, <2>3, InodeReleased
<1>10. DirsCounted(h)
  BY <1>5, <1>6, <1>8, DirReleased DEF Counted, g
<1>11. Counted(h)
  BY <1>7, <1>9, <1>10 DEF Counted
<1> QED BY <1>11 DEF h

LEMMA UnlinkedIs ==
  ASSUME NEW f \in FsInts, NEW i \in Used(f), Shape(f, i), Counted(f),
         OwnedBlocks(f, i) \cap Clear(f) = {},
         NEW c \in Blocks \ OwnedBlocks(f, i), NEW es \in Seq(EntryType)
  PROVE  Unlinked(f, SyncMetadata(PutDir(DeallocateNode(f, i), c, es)), i, c, es)
<1> DEFINE B == OwnedBlocks(f, i)
           g == DeallocateNode(f, i)
           k == PutDir(g, c, es)
           h == SyncMetadata(k)
<1>1. i \in Inodes
  BY DEF Used
<1>2. /\ g \in FsInts /\ Clear(g) = Clear(f) \cup B
      /\ g.imap = [f.imap EXCEPT ![i] = FALSE]
      /\ g.inode = [f.inode EXCEPT ![i] = Zeroed]
      /\ \A b \in Blocks \ B :
           g.dir[b] = f.dir[b] /\ g.data[b] = f.data[b] /\ g.ptr[b] = f.ptr[b]
  BY <1>1, DeallocateNodeIs
<1>3. Counted(g)
  BY DeallocateCounts
<1> HIDE DEF g
<1>4. /\ k \in FsInts /\ k.bmap = g.bmap /\ SameTables(g, k)
      /\ k.dir = [g.dir EXCEPT ![c] = es]
      /\ k.data = [g.data EXCEPT ![c] = NoData]
      /\ k.ptr = [g.ptr EXCEPT ![c] = <<>>]
      /\ k.count = g.count /\ k.saved = g.saved
  <2>1. g \in FsInts /\ c \in Blocks /\ es \in Seq(EntryType) /\ k = PutDir(g, c, es)
    BY <1>2
  <2> HIDE DEF B, k
  <2> QED BY <2>1, DirPut
<1> HIDE DEF k
<1>5. /\ h \in FsInts /\ h.bmap = k.bmap /\ SameTables(k, h) /\ SameContents(k, h)
      /\ h.count = k.count /\ h.saved = k.count
  BY <1>4, SyncMetadataIs
<1> HIDE DEF h
<1>6. /\ h.bmap = g.bmap /\ h.imap = g.imap /\ h.inode = g.inode /\ h.count = g.count
      /\ h.saved = h.count /\ h.dir = [g.dir EXCEPT ![c] = es] /\ h.ptr = [g.ptr EXCEPT ![c] = <<>>]
      /\ h.data = [g.data EXCEPT ![c] = NoData]
  BY <1>4, <1>5 DEF SameTables, SameContents
<1>7. /\ g.dir \in [Blocks -> Seq(EntryType)] /\ g.ptr \in [Blocks -> Seq(Blocks)]
      /\ g.data \in [Blocks -> {NoData} \cup (Datas \X Nat)]
  BY <1>2 DEF FsInts
<1>8. h.dir[c] = es /\ \A b \in Blocks \ (B \cup {c}) :
                          h.dir[b] = f.dir[b] /\ h.ptr[b] = f.ptr[b] /\ h.data[b] = f.data[b]
  BY <1>2, <1>6, <1>7
<1>9. Counted(h)
  BY <1>3, <1>6, CountedSame
<1>10. Clear(h) = Clear(f) \cup B
  BY <1>2, <1>6 DEF Clear
<1>11. Unlinked(f, h, i, c, es)
  BY <1>2, <1>5, <1>6, <1>8, <1>9, <1>10 DEF Unlinked
<1> QED BY <1>11 DEF h, k, g

LEMMA UnlinkedOthers ==
  ASSUME NEW f, NEW h, Sound(f), NEW i \in Used(f), NEW d \in UsedDirs(f),
         NEW c \in OwnedBlocks(f, d), NEW es, Unlinked(f, h, i, c, es),
         NEW j \in Used(f), j # d, j # i
  PROVE  OtherKept(f, h, j)
<1>1. j \in Inodes /\ d \in Used(f) /\ f \in FsInts
  BY DEF Sound, Used, UsedDirs
<1>2. h.inode[j] = f.inode[j]
  <2>1. f.inode \in [Inodes -> InodeType]
    BY <1>1 DEF FsInts
  <2> QED BY <1>1, <2>1 DEF Unlinked
<1>3. /\ OwnedBlocks(f, j) \cap OwnedBlocks(f, i) = {}
      /\ OwnedBlocks(f, j) \cap OwnedBlocks(f, d) = {} /\ Shape(f, j)
  BY <1>1 DEF Sound, Owned
<1>4. OwnedBlocks(f, j) \subseteq Blocks
  BY <1>1, OwnedInBlocks
<1>5. \A b \in OwnedBlocks(f, j) :
        h.dir[b] = f.dir[b] /\ h.ptr[b] = f.ptr[b] /\ h.data[b] = f.data[b]
  BY <1>3, <1>4 DEF Unlinked
<1>6. OwnedBlocks(h, j) = OwnedBlocks(f, j) /\ Shape(h, j)
  BY <1>1, <1>2, <1>3, <1>5, OwnedFrame
<1>7. ASSUME j \in UsedDirs(f) PROVE SameDir(f, h, j) /\ Up(h, j) = Up(f, j) /\ DirSound(h, j)
  <2>1. DirSound(f, j)
    BY <1>7 DEF Sound
  <2> QED BY <1>1, <1>2, <1>3, <1>5, <2>1, OtherDir
<1>8. FileData(h, j) = FileData(f, j)
  BY <1>1, <1>2, <1>5, DataFrame
<1> QED BY <1>2, <1>5, <1>6, <1>7, <1>8 DEF OtherKept

LEMMA UnlinkedSound ==
  ASSUME NEW f, NEW h, Sound(f), NEW d \in UsedDirs(f), NEW s0 \in DirSlots(f, d),
         NEW k \in 1 .. Len(Entries(f, d, s0)), LinkAt(f, d, s0, k),
         NEW i, i = Child(f, d, s0, k),
         Unlinked(f, h, i, f.inode[d].block[s0], Removed(Entries(f, d, s0), k))
  PROVE  /\ Sound(h) /\ DirRewritten(f, h, d, s0, Removed(Entries(f, d, s0), k))
         /\ LinksAll(f) /\ (IsDir(f, i) => \A s, m \in Nat : ~LinkAt(f, i, s, m)) => LinksAll(h)
<1> DEFINE B   == OwnedBlocks(f, i)
           c   == f.inode[d].block[s0]
           old == Entries(f, d, s0)
           es  == Removed(old, k)
<1>1. /\ f \in FsInts /\ d \in Inodes /\ d \in Used(f) /\ Shape(f, d) /\ DirSound(f, d) /\ DirShape(f, d)
      /\ OwnedBlocks(f, d) \subseteq Blocks \ Clear(f)
      /\ \A s \in DirSlots(f, d) : f.inode[d].block[s] \in OwnedBlocks(f, d)
  BY SoundDir
<1>2. s0 \in Nat /\ k \in Nat
  <2>1. f.inode[d].blocks \in Nat
    BY <1>1 DEF DirShape
  <2> QED BY <2>1 DEF DirSlots
<1>3. i \in Used(f) /\ i # Root /\ i # d /\ i \in Inodes
  <2>1. LinksTrue(f)
    BY DEF Sound
  <2> QED BY <1>2, <2>1 DEF LinksTrue, Used
<1>4. c \in OwnedBlocks(f, d)
  BY <1>1
<1>5. old \in Seq(EntryType) /\ Fit(old) /\ k \in 1 .. Len(old) /\ old[k].name \in Names
  <2>1. c \in Blocks
    BY <1>1, <1>4
  <2>2. old \in Seq(EntryType)
    BY <1>1, <2>1 DEF FsInts, Entries
  <2> QED BY <1>1, <2>2 DEF DirSound, LinkAt
<1>6. Unlinked(f, h, i, c, es)
  OBVIOUS
<1>7. Fit(es)
  BY <1>5, RemovedFits
<1>8. s0 = 0 => Begins(es, d) /\ es[2].ino = Up(f, d)
  <2> SUFFICES ASSUME s0 = 0 PROVE Begins(es, d) /\ es[2].ino = Up(f, d)
    OBVIOUS
  <2>1. Begins(old, d) /\ Up(f, d) = old[2].ino
    BY <1>1 DEF DirSound, Up
  <2>2. k # 1 /\ k # 2
    <3>1. old[1].name = Dot /\ old[2].name = DotDot /\ Dot \notin Names /\ DotDot \notin Names
      BY <2>1, Ext2Assumption DEF Begins
    <3> QED BY <1>5, <3>1
  <2>3. k \in 3 .. Len(old)
    BY <1>2, <1>5, <2>2
  <2> HIDE DEF old
  <2> QED BY <1>5, <2>1, <2>3, BeginsRemoved
<1> HIDE DEF B, c, es
<1>9. /\ h \in FsInts /\ h.saved = h.count /\ Counted(h)
      /\ h.imap = [f.imap EXCEPT ![i] = FALSE] /\ h.inode = [f.inode EXCEPT ![i] = Zeroed]
      /\ Clear(h) = Clear(f) \cup B /\ h.dir[c] = es
      /\ \A b \in Blocks \ (B \cup {c}) : h.dir[b] = f.dir[b] /\ h.ptr[b] = f.ptr[b]
  BY <1>6 DEF Unlinked, B
<1>10. Used(h) = Used(f) \ {i}
  BY <1>1, <1>3, <1>9 DEF Used, FsInts
<1>11. (\A j \in Inodes \ {i} : h.inode[j] = f.inode[j]) /\ h.inode[i] = Zeroed
  <2>1. f.inode \in [Inodes -> InodeType]
    BY <1>1 DEF FsInts
  <2> QED BY <1>3, <1>9, <2>1
<1>12. \A j \in Used(h) \ {d} :
         /\ OwnedBlocks(h, j) = OwnedBlocks(f, j) /\ Shape(h, j)
         /\ j \in UsedDirs(f) => SameDir(f, h, j) /\ Up(h, j) = Up(f, j) /\ DirSound(h, j)
  <2>1. \A j \in Used(h) \ {d} : OtherKept(f, h, j)
    BY <1>3, <1>4, <1>6, <1>10, UnlinkedOthers
  <2> QED BY <2>1 DEF OtherKept
<1>13. h.inode[d] = f.inode[d]
  BY <1>1, <1>3, <1>11
<1>14. Shape(h, d) /\ OwnedBlocks(h, d) = OwnedBlocks(f, d)
  BY <1>1, <1>9, <1>13, DirUntouched
<1>15. OwnedBlocks(f, d) \cap B = {}
  BY <1>1, <1>3 DEF Sound, Owned, B
<1>16. DirRewritten(f, h, d, s0, es) /\ DirSound(h, d) /\ Up(h, d) = Up(f, d)
  <2>1. \A b \in OwnedBlocks(f, d) \ {c} : h.dir[b] = f.dir[b]
    BY <1>1, <1>9, <1>15
  <2>2. c = f.inode[d].block[s0] /\ h.dir[c] = es
    BY <1>9 DEF c
  <2> QED BY <1>1, <1>7, <1>8, <1>13, <2>1, <2>2, RewrittenDir
<1>17. LinkGone(f, h, d, s0, k)
  <2>1. DirRewritten(f, h, d, s0, Removed(old, k)) /\ old = Entries(f, d, s0)
    BY <1>16 DEF es
  <2> HIDE DEF old
  <2> QED BY <1>2, <1>5, <2>1, LinksRemoved
<1> HIDE DEF old
<1>18. Owned(h)
  <2>1. B \subseteq Blocks /\ B = OwnedBlocks(f, i)
    BY <1>1, <1>3, OwnedInBlocks DEF B
  <2>2. \A j \in Used(h) : OwnedBlocks(h, j) = OwnedBlocks(f, j) /\ Shape(h, j)
    BY <1>12, <1>14
  <2>3. Owned(f)
    BY DEF Sound
  <2> QED BY <1>3, <1>9, <1>10, <2>1, <2>2, <2>3, OwnedDeleted
<1>19. \A j \in Used(h) : h.inode[j].mode = f.inode[j].mode
  BY <1>10, <1>11 DEF Used
<1>20. UsedDirs(h) \subseteq UsedDirs(f) /\ UsedDirs(h) \subseteq Used(h) /\ d \in UsedDirs(h)
       /\ Root \in UsedDirs(h)
  <2>1. Root \in UsedDirs(f)
    BY DEF Sound
  <2> QED BY <1>3, <1>10, <1>19, <2>1 DEF UsedDirs, IsDir
<1>21. /\ LinksTrue(h) /\ LinksOnce(h)
       /\ LinksAll(f) /\ (IsDir(f, i) => \A s, m \in Nat : ~LinkAt(f, i, s, m)) => LinksAll(h)
  <2>1. \A j \in UsedDirs(h) : Up(h, j) = Up(f, j)
    BY <1>12, <1>16, <1>20
  <2>2. \A e \in UsedDirs(h) \ {d} : SameDir(f, h, e)
    BY <1>12, <1>20
  <2>3. LinksTrue(f) /\ LinksOnce(f)
    BY DEF Sound
  <2>4. Child(f, d, s0, k) = i /\ LinkAt(f, d, s0, k) /\ d # i
    BY <1>3
  <2> QED BY <1>2, <1>3, <1>10, <1>17, <1>19, <2>1, <2>2, <2>3, <2>4, LinksDeleted
<1>22. \A j \in UsedDirs(h) : DirSound(h, j)
  BY <1>12, <1>16, <1>20
<1>23. \A j \in Inodes : h.inode[j].mode # "none" <=> j \in Used(h)
  <2> TAKE j \in Inodes
  <2>1. CASE j = i
    BY <1>10, <1>11, <2>1 DEF Zeroed
  <2>2. CASE j # i
    BY <1>10, <1>11, <2>2 DEF Sound
  <2> QED BY <2>1, <2>2
<1>24. Meta \cap Clear(h) = {}
  <2>1. B \cap Meta = {} /\ Meta \cap Clear(f) = {}
    BY <1>3 DEF Sound, Owned, B
  <2> QED BY <1>9, <2>1
<1>25. Sound(h)
  BY <1>9, <1>18, <1>20, <1>21, <1>22, <1>23, <1>24 DEF Sound
<1>26. DirRewritten(f, h, d, s0, Removed(Entries(f, d, s0), k))
  BY <1>16 DEF es, old
<1> QED BY <1>21, <1>25, <1>26

(* The k-th entry of block s0, the first with its name, has gone, and its  *)
(* inode i.                                                                *)
EntryRemoved(f, h, req, s0, k, i) ==
  LET d   == req.parent
      old == Entries(f, d, s0)
  IN  /\ d \in UsedDirs(f) /\ s0 \in DirSlots(f, d) /\ s0 \in Nat /\ k \in Nat
      /\ k \in 1 .. Len(old) /\ LinkAt(f, d, s0, k) /\ i = Child(f, d, s0, k)
      /\ i \in Used(f) /\ i # d /\ i \in Inodes
      /\ Unlinked(f, h, i, f.inode[d].block[s0], Removed(old, k))
      /\ Named(f, d, req.name) # {} /\ <<s0, k>> = FirstOf(Named(f, d, req.name))

LEMMA DeleteMade ==
  ASSUME NEW f, Sound(f), NEW req \in DeleteRequests, NEW empty
  PROVE  LET r == DeleteResult(f, req, empty)
         IN  \/ r.fs = f /\ r.code # 0
             \/ r.code = 0 /\ \E s0, k, i : EntryRemoved(f, r.fs, req, s0, k, i)
<1> DEFINE d     == req.parent
           found == Named(f, d, req.name)
           p     == FirstOf(found)
           e     == EntryAt(f, d, p)
           s0    == p[1]
           k     == p[2]
           old   == Entries(f, d, s0)
           c     == f.inode[d].block[s0]
           done  == SyncMetadata(RemoveEntry(DeallocateNode(f, e.ino), d, p))
           h     == DeleteResult(f, req, empty).fs
           code  == DeleteResult(f, req, empty).code
<1>1. (h = f /\ code # 0) \/ (code = 0 /\ IsDir(f, d) /\ found # {} /\ h = done)
  BY DEF DeleteResult
<1>2. CASE h = f /\ code # 0
  BY <1>2
<1>3. CASE code = 0 /\ IsDir(f, d) /\ found # {} /\ h = done
  <2>1. d \in UsedDirs(f)
    BY <1>3, DeleteRequestFields, DirUsed
  <2>2. /\ f \in FsInts /\ d \in Inodes /\ d \in Used(f) /\ Shape(f, d) /\ DirSound(f, d)
        /\ OwnedBlocks(f, d) \subseteq Blocks \ Clear(f)
        /\ \A s \in DirSlots(f, d) : f.inode[d].block[s] \in OwnedBlocks(f, d)
    BY <2>1, SoundDir
  <2>3. p \in Places(f, d) /\ e.ino # 0 /\ e.name = req.name
    <3>1. found \in SUBSET (Nat \X Nat)
      BY <2>2, PlacesIs DEF Named
    <3>2. p \in found
      BY <1>3, <3>1, FirstIs
    <3> QED BY <3>2 DEF Named
  <2>4. /\ s0 \in DirSlots(f, d) /\ k \in 1 .. Len(old) /\ e = old[k] /\ old \in Seq(EntryType)
        /\ s0 \in Nat /\ k \in Nat
    <3>1. /\ p[1] \in DirSlots(f, d) /\ p[2] \in 1 .. Len(Entries(f, d, p[1]))
          /\ EntryAt(f, d, p) = Entries(f, d, p[1])[p[2]]
          /\ Entries(f, d, p[1]) \in Seq(EntryType)
      BY <2>2, <2>3, PlacesIs
    <3>2. p \in Nat \X Nat
      BY <2>2, <2>3, PlacesIs
    <3> QED BY <3>1, <3>2
  <2>5. LinkAt(f, d, s0, k) /\ e.ino = Child(f, d, s0, k)
    BY <2>3, <2>4, DeleteRequestFields DEF LinkAt, Child
  <2> DEFINE i == e.ino
  <2> HIDE DEF e
  <2>6. i \in Used(f) /\ i # d /\ i \in Inodes
    <3>1. LinksTrue(f)
      BY DEF Sound
    <3> QED BY <2>1, <2>4, <2>5, <3>1 DEF LinksTrue, Used
  <2>7. /\ Shape(f, i) /\ Counted(f) /\ OwnedBlocks(f, i) \cap Clear(f) = {}
        /\ OwnedBlocks(f, i) \cap OwnedBlocks(f, d) = {}
    BY <2>2, <2>6 DEF Sound, Owned
  <2>8. c \in Blocks \ OwnedBlocks(f, i)
    BY <2>2, <2>4, <2>7
  <2>9. Removed(old, k) \in Seq(EntryType)
    <3>1. Fit(old)
      BY <2>2, <2>4 DEF DirSound
    <3> HIDE DEF old, k
    <3> QED BY <2>4, <3>1, RemovedFits
  <2> DEFINE g == DeallocateNode(f, i)
  <2>10. g.inode[d] = f.inode[d] /\ g.dir[c] = old
    <3>1. /\ g.inode = [f.inode EXCEPT ![i] = Zeroed]
          /\ \A b \in Blocks \ OwnedBlocks(f, i) :
               g.dir[b] = f.dir[b] /\ g.data[b] = f.data[b] /\ g.ptr[b] = f.ptr[b]
      BY <2>2, <2>6, <2>7, DeallocateNodeIs
    <3> HIDE DEF g
    <3>2. f.inode \in [Inodes -> InodeType]
      BY <2>2 DEF FsInts
    <3>3. f.dir[c] = old
      BY DEF Entries
    <3> QED BY <2>2, <2>6, <2>8, <3>1, <3>2, <3>3
  <2>11. RemoveEntry(g, d, p) = PutDir(g, c, Removed(old, k))
    <3> HIDE DEF g
    <3> QED BY <2>10 DEF RemoveEntry, Removed
  <2>12. Unlinked(f, h, i, c, Removed(old, k))
    <3>1. h = SyncMetadata(PutDir(g, c, Removed(old, k)))
      BY <1>3, <2>11
    <3> HIDE DEF h, i, c, old, k
    <3> QED BY <2>2, <2>6, <2>7, <2>8, <2>9, <3>1, UnlinkedIs
  <2>13. <<s0, k>> = p
    <3>1. p \in Nat \X Nat
      BY <2>2, <2>3, PlacesIs
    <3> QED BY <3>1
  <2> HIDE DEF h, i, s0, k, g, code
  <2>14. EntryRemoved(f, h, req, s0, k, i)
    <3>1. i = Child(f, d, s0, k) /\ k \in 1 .. Len(Entries(f, d, s0))
      BY <2>4, <2>5 DEF i
    <3> QED BY <1>3, <2>1, <2>4, <2>5, <2>6, <2>12, <2>13, <3>1 DEF EntryRemoved
  <2>15. \E x, y, z : EntryRemoved(f, h, req, x, y, z)
    BY <2>14
  <2> QED BY <1>3, <2>15 DEF h, code
<1> QED BY <1>1, <1>2, <1>3

LEMMA DeleteSound ==
  ASSUME NEW f, Sound(f), NEW req \in DeleteRequests, NEW empty
  PROVE  LET h == DeleteResult(f, req, empty).fs
         IN  /\ Sound(h)
             /\ /\ LinksAll(f)
                /\ \A x \in UsedDirs(f) : (\E s, m \in Nat : LinkAt(f, x, s, m)) => h.imap[x]
                => LinksAll(h)
<1> DEFINE d == req.parent
           h == DeleteResult(f, req, empty).fs
<1>1. h = f \/ \E s0, k, i : EntryRemoved(f, h, req, s0, k, i)
  BY DeleteMade
<1> HIDE DEF h
<1>2. CASE h = f
  BY <1>2 DEF h
<1>3. CASE \E s0, k, i : EntryRemoved(f, h, req, s0, k, i)
  <2>1. PICK s0, k, i : EntryRemoved(f, h, req, s0, k, i)
    BY <1>3
  <2>2. /\ d \in UsedDirs(f) /\ s0 \in DirSlots(f, d) /\ k \in 1 .. Len(Entries(f, d, s0))
        /\ LinkAt(f, d, s0, k) /\ i = Child(f, d, s0, k) /\ i \in Used(f) /\ i \in Inodes
        /\ Unlinked(f, h, i, f.inode[d].block[s0], Removed(Entries(f, d, s0), k))
    BY <2>1 DEF EntryRemoved
  <2> HIDE DEF d
  <2>3. /\ Sound(h)
        /\ LinksAll(f) /\ (IsDir(f, i) => \A s, m \in Nat : ~LinkAt(f, i, s, m)) => LinksAll(h)
    BY <2>2, UnlinkedSound
  <2>4. ~h.imap[i]
    <3>1. f.imap \in [Inodes -> BOOLEAN]
      BY DEF Sound, FsInts
    <3> QED BY <2>2, <3>1 DEF Unlinked
  <2>5. ASSUME \A x \in UsedDirs(f) : (\E s, m \in Nat : LinkAt(f, x, s, m)) => h.imap[x], IsDir(f, i)
        PROVE  \A s, m \in Nat : ~LinkAt(f, i, s, m)
    BY <2>2, <2>4, <2>5 DEF UsedDirs
  <2> QED BY <2>3, <2>5 DEF h
<1> QED BY <1>1, <1>2, <1>3

-----------------------------------------------------------------------------
(* The disk as create_ext2 leaves it.                                      *)

LEMMA GroupSizes ==
  /\ \A g \in Groups : Cardinality(InGroup(Blocks, g)) = BlocksPerGroup
  /\ \A g \in Groups : Cardinality({i \in Inodes : inode_to_bgd(i) = g}) = InodesPerGroup
  /\ Cardinality(Inodes) = GroupCount * InodesPerGroup
<1> DEFINE n == BlocksPerGroup
           m == InodesPerGroup
<1>1. n \in Nat \ {0} /\ m \in Nat \ {0} /\ GroupCount \in Nat \ {0}
  BY Positive DEF InodesPerGroup
<1>2. Inodes = 1 .. GroupCount * m /\ Blocks = 0 .. GroupCount * n - 1
  BY DEF Inodes, Blocks
<1>3. \A b : Group(b) = b \div n
  BY DEF Group
<1>4. \A i : inode_to_bgd(i) = (i - 1) \div m
  BY DEF inode_to_bgd
<1> HIDE DEF n, m
<1>5. ASSUME NEW g \in Groups PROVE Cardinality(InGroup(Blocks, g)) = n
  <2>1. g \in Nat /\ g + 1 <= GroupCount
    BY <1>1, <1>5 DEF Groups
  <2>2. (g + 1) * n <= GroupCount * n /\ (g + 1) * n = g * n + n /\ g * n \in Nat
    BY <1>1, <2>1
  <2> DEFINE x == g * n
             y == GroupCount * n
  <2>7. x \in Nat
    BY <2>2
  <2>3. \A b \in Nat : Group(b) = g <=> b \in x .. x + n - 1
    <3> TAKE b \in Nat
    <3>1. b \div n \in Nat /\ b % n \in 0 .. n - 1 /\ b = (b \div n) * n + (b % n)
      BY <1>1, DivMod
    <3>2. ASSUME Group(b) = g PROVE b \in x .. x + n - 1
      <4>1. b = x + (b % n)
        BY <1>3, <3>1, <3>2
      <4> HIDE DEF x
      <4> QED BY <1>1, <2>7, <3>1, <4>1
    <3>3. ASSUME b \in x .. x + n - 1 PROVE Group(b) = g
      <4> DEFINE r == b - x
      <4>1. r \in 0 .. n - 1 /\ b = x + r
        <5> HIDE DEF x
        <5> QED BY <1>1, <2>7, <3>3
      <4> HIDE DEF r
      <4>2. (g * n + r) \div n = g
        BY <1>1, <2>1, <4>1, DivIs
      <4> QED BY <1>3, <4>1, <4>2
    <3> QED BY <3>2, <3>3
  <2>4. x \in Nat /\ y \in Nat /\ x + n <= y
    BY <1>1, <2>2, TimesNat
  <2> HIDE DEF x
  <2>5. InGroup(Blocks, g) = x .. x + n - 1
    <3>1. Blocks = 0 .. y - 1
      BY <1>2
    <3> HIDE DEF y
    <3> QED BY <1>1, <2>3, <2>4, <3>1 DEF InGroup
  <2>6. Cardinality(x .. x + n - 1) = IF x > x + n - 1 THEN 0 ELSE (x + n - 1) - x + 1
    BY <1>1, <2>4, FS_Interval
  <2> QED BY <1>1, <2>4, <2>5, <2>6
<1>6. ASSUME NEW g \in Groups PROVE Cardinality({i \in Inodes : inode_to_bgd(i) = g}) = m
  <2>1. g \in Nat /\ g + 1 <= GroupCount
    BY <1>1, <1>6 DEF Groups
  <2>2. (g + 1) * m <= GroupCount * m /\ (g + 1) * m = g * m + m /\ g * m \in Nat
    BY <1>1, <2>1
  <2> DEFINE x == g * m
             y == GroupCount * m
  <2>7. x \in Nat
    BY <2>2
  <2>3. \A i \in Nat \ {0} : inode_to_bgd(i) = g <=> i \in x + 1 .. x + m
    <3> TAKE i \in Nat \ {0}
    <3> DEFINE b == i - 1
    <3>0. b \in Nat /\ i = b + 1
      OBVIOUS
    <3> HIDE DEF b
    <3>1. b \div m \in Nat /\ b % m \in 0 .. m - 1 /\ b = (b \div m) * m + (b % m)
      BY <1>1, <3>0, DivMod
    <3>4. inode_to_bgd(i) = b \div m
      BY <1>4, <3>0 DEF b
    <3>2. ASSUME inode_to_bgd(i) = g PROVE i \in x + 1 .. x + m
      <4>1. b = x + (b % m)
        BY <3>1, <3>2, <3>4
      <4> HIDE DEF x
      <4> QED BY <1>1, <2>7, <3>0, <3>1, <4>1
    <3>3. ASSUME i \in x + 1 .. x + m PROVE inode_to_bgd(i) = g
      <4> DEFINE r == b - x
      <4>1. r \in 0 .. m - 1 /\ b = x + r
        <5> HIDE DEF x
        <5> QED BY <1>1, <2>7, <3>0, <3>3
      <4> HIDE DEF r
      <4>2. (g * m + r) \div m = g
        BY <1>1, <2>1, <4>1, DivIs
      <4> QED BY <3>4, <4>1, <4>2
    <3> QED BY <3>2, <3>3
  <2>4. x \in Nat /\ y \in Nat /\ x + m <= y
    BY <1>1, <2>2, TimesNat
  <2> HIDE DEF x
  <2>5. {i \in Inodes : inode_to_bgd(i) = g} = x + 1 .. x + m
    <3>1. Inodes = 1 .. y
      BY <1>2
    <3> HIDE DEF y
    <3> QED BY <1>1, <2>3, <2>4, <3>1
  <2>6. Cardinality(x + 1 .. x + m) = IF x + 1 > x + m THEN 0 ELSE (x + m) - (x + 1) + 1
    BY <1>1, <2>4, FS_Interval
  <2>8. Cardinality(x + 1 .. x + m) = m
    BY <1>1, <2>4, <2>6
  <2> QED BY <2>5, <2>8
<1>7. Cardinality(Inodes) = GroupCount * m
  <2> DEFINE y == GroupCount * m
  <2>1. y \in Nat
    BY <1>1, TimesNat
  <2> HIDE DEF y
  <2>2. Cardinality(1 .. y) = IF 1 > y THEN 0 ELSE y - 1 + 1
    BY <2>1, FS_Interval
  <2>3. Inodes = 1 .. y
    BY <1>2 DEF y
  <2>4. Cardinality(Inodes) = y
    BY <2>1, <2>2, <2>3
  <2> QED BY <2>4 DEF y
<1> QED BY <1>5, <1>6, <1>7 DEF n, m

(* What is marked and what is not.                                         *)
Reserved == Meta \cup {RootBlock}

LEMMA FormattedCounts ==
  /\ \A g \in Groups :
       /\ BlocksPerGroup - Cardinality(InGroup(Reserved, g)) \in Int
       /\ BlocksPerGroup - Cardinality(InGroup(Reserved, g)) = Cardinality(InGroup(Blocks \ Reserved, g))
       /\ (IF g = 0 THEN InodesPerGroup - 1 ELSE InodesPerGroup)
            = Cardinality({i \in Inodes \ {Root} : inode_to_bgd(i) = g})
  /\ GroupCount * InodesPerGroup - 1 = Cardinality(Inodes \ {Root})
  /\ GroupCount * InodesPerGroup \in Nat /\ InodesPerGroup \in Nat
  /\ Reserved = Blocks \ (Blocks \ Reserved) /\ Cardinality(Reserved) \in Nat
  /\ inode_to_bgd(Root) = 0 /\ 0 \in Groups
<1> DEFINE M    == Reserved
           Clr  == Blocks \ M
           Idle == Inodes \ {Root}
<1>1. M \in SUBSET Blocks /\ Root \in Inodes
  BY BootAndRoot DEF Reserved
<1>2. inode_to_bgd(Root) = 0 /\ 0 \in Groups
  <2>1. InodesPerGroup \in Nat \ {0} /\ GroupCount \in Nat \ {0}
    BY Positive DEF InodesPerGroup
  <2>2. 0 \div InodesPerGroup = 0
    BY <2>1
  <2> QED BY <2>1, <2>2 DEF inode_to_bgd, Root, Groups
<1> HIDE DEF M
<1>3. ASSUME NEW g \in Groups
      PROVE  /\ BlocksPerGroup - Cardinality(InGroup(M, g)) \in Int
             /\ BlocksPerGroup - Cardinality(InGroup(M, g)) = Cardinality(InGroup(Clr, g))
  <2>1. IsFiniteSet(InGroup(Blocks, g)) /\ Cardinality(InGroup(M, g)) \in Nat
    BY <1>1, GroupFinite
  <2>2. InGroup(Clr, g) = InGroup(Blocks, g) \ InGroup(M, g) /\ InGroup(M, g) \in SUBSET InGroup(Blocks, g)
    BY <1>1 DEF InGroup
  <2>3. Cardinality(InGroup(Clr, g)) = BlocksPerGroup - Cardinality(InGroup(M, g))
    BY <2>1, <2>2, CardMinus, GroupSizes
  <2> QED BY <2>1, <2>3, Positive
<1>4. ASSUME NEW g \in Groups
      PROVE  (IF g = 0 THEN InodesPerGroup - 1 ELSE InodesPerGroup)
               = Cardinality({i \in Idle : inode_to_bgd(i) = g})
  <2> DEFINE All == {i \in Inodes : inode_to_bgd(i) = g}
  <2>1. Inodes \in SUBSET Inodes
    OBVIOUS
  <2>2. IsFiniteSet(All)
    BY <2>1, InodeFinite
  <2>3. Cardinality(All) = InodesPerGroup
    BY GroupSizes
  <2>4. CASE g = 0
    <3>1. {i \in Idle : inode_to_bgd(i) = g} = All \ {Root} /\ {Root} \in SUBSET All
      BY <1>1, <1>2, <2>4
    <3> HIDE DEF All
    <3>2. Cardinality(All \ {Root}) = Cardinality(All) - Cardinality({Root})
      BY <2>2, <3>1, CardMinus
    <3>3. Cardinality({Root}) = 1
      BY FS_Singleton
    <3> QED BY <2>3, <2>4, <3>1, <3>2, <3>3
  <2>5. CASE g # 0
    <3>1. {i \in Idle : inode_to_bgd(i) = g} = All
      BY <1>2, <2>5
    <3> QED BY <2>3, <2>5, <3>1
  <2> QED BY <2>4, <2>5
<1>5. InodesPerGroup \in Nat /\ GroupCount * InodesPerGroup \in Nat
  <2>1. InodesPerGroup \in Nat
    BY Positive DEF InodesPerGroup
  <2> QED BY <2>1, Positive, TimesNat
<1>6. GroupCount * InodesPerGroup - 1 = Cardinality(Idle)
  <2>1. Cardinality(Inodes) = GroupCount * InodesPerGroup /\ IsFiniteSet(Inodes)
    BY GroupSizes, FiniteSets
  <2>2. {Root} \in SUBSET Inodes
    BY <1>1
  <2>3. Cardinality(Idle) = Cardinality(Inodes) - Cardinality({Root})
    BY <2>1, <2>2, CardMinus
  <2> QED BY <2>1, <2>3, FS_Singleton
<1>7. Cardinality(M) \in Nat
  BY <1>1, GroupFinite
<1>8. M = Blocks \ Clr
  BY <1>1
<1> HIDE DEF Clr, Idle
<1> QED BY <1>2, <1>3, <1>4, <1>5, <1>6, <1>7, <1>8 DEF M, Clr, Idle

LEMMA FormattedIs ==
  LET f    == Formatted
      node == [mode |-> "dir", blocks |-> 1, block |-> [Zeroed.block EXCEPT ![0] = RootBlock]]
  IN  /\ f \in FsInts /\ f.saved = f.count
      /\ f.bmap = [b \in Blocks |-> b \in Reserved] /\ f.imap = [i \in Inodes |-> i = Root]
      /\ f.inode = [i \in Inodes |-> IF i = Root THEN node ELSE Zeroed]
      /\ f.dir = [b \in Blocks |-> IF b = RootBlock THEN DirTable(Root, Root) ELSE <<>>]
      /\ f.count.blocks = [g \in Groups |-> BlocksPerGroup - Cardinality(InGroup(Reserved, g))]
      /\ f.count.inodes = [g \in Groups |-> IF g = 0 THEN InodesPerGroup - 1 ELSE InodesPerGroup]
      /\ f.count.dirs = [g \in Groups |-> IF g = 0 THEN 1 ELSE 0]
      /\ f.count.sblocks = DiskBlocks - Cardinality(Reserved)
      /\ f.count.sinodes = GroupCount * InodesPerGroup - 1
<1> DEFINE cb == [g \in Groups |-> BlocksPerGroup - Cardinality(InGroup(Reserved, g))]
           ci == [g \in Groups |-> IF g = 0 THEN InodesPerGroup - 1 ELSE InodesPerGroup]
           cd == [g \in Groups |-> IF g = 0 THEN 1 ELSE 0]
           sb == DiskBlocks - Cardinality(Reserved)
           si == GroupCount * InodesPerGroup - 1
           c  == [blocks |-> cb, inodes |-> ci, dirs |-> cd, sblocks |-> sb, sinodes |-> si]
           at == [Zeroed.block EXCEPT ![0] = RootBlock]
           no == [mode |-> "dir", blocks |-> 1, block |-> at]
           bm == [b \in Blocks |-> b \in Reserved]
           im == [i \in Inodes |-> i = Root]
           nd == [i \in Inodes |-> IF i = Root THEN no ELSE Zeroed]
           di == [b \in Blocks |-> IF b = RootBlock THEN DirTable(Root, Root) ELSE <<>>]
           da == [b \in Blocks |-> NoData]
           pt == [b \in Blocks |-> <<>>]
<1>1. Formatted = [bmap |-> bm, imap |-> im, inode |-> nd, dir |-> di, data |-> da, ptr |-> pt,
                   count |-> c, saved |-> c]
  BY DEF Formatted, Reserved
<1>2. cb \in [Groups -> Int] /\ ci \in [Groups -> Int] /\ cd \in [Groups -> Int]
  <2>1. InodesPerGroup \in Nat
    BY FormattedCounts
  <2>2. \A g \in Groups : BlocksPerGroup - Cardinality(InGroup(Reserved, g)) \in Int
    BY FormattedCounts
  <2>3. cb \in [Groups -> Int]
    BY <2>2
  <2> QED BY <2>1, <2>3
<1>3. sb \in Int /\ si \in Int
  BY FormattedCounts, Positive
<1> HIDE DEF cb, ci, cd, sb, si
<1>4. c \in CountInts /\ c.blocks = cb /\ c.inodes = ci /\ c.dirs = cd /\ c.sblocks = sb /\ c.sinodes = si
  BY <1>2, <1>3 DEF CountInts
<1> HIDE DEF c
<1>5. Zeroed \in InodeType /\ no \in InodeType
  <2>1. Null \in Blocks /\ RootBlock \in Blocks
    BY BootAndRoot
  <2>2. Zeroed.block \in [Slots -> Blocks] /\ Zeroed.mode = "none" /\ Zeroed.blocks = 0
    BY <2>1 DEF Zeroed
  <2>3. Zeroed \in InodeType
    BY <2>1 DEF Zeroed, InodeType, Modes
  <2>4. at \in [Slots -> Blocks]
    BY <2>1, <2>2
  <2> HIDE DEF at
  <2> QED BY <2>3, <2>4 DEF InodeType, Modes
<1> HIDE DEF no
<1>6. bm \in [Blocks -> BOOLEAN] /\ im \in [Inodes -> BOOLEAN] /\ nd \in [Inodes -> InodeType]
  BY <1>5
<1>7. /\ di \in [Blocks -> Seq(EntryType)] /\ pt \in [Blocks -> Seq(Blocks)]
      /\ da \in [Blocks -> {NoData} \cup (Datas \X Nat)]
  <2>1. <<>> \in Seq(EntryType) /\ <<>> \in Seq(Blocks)
    OBVIOUS
  <2>2. DirTable(Root, Root) \in Seq(EntryType)
    BY BootAndRoot, DirTableType
  <2> QED BY <2>1, <2>2
<1> HIDE DEF bm, im, nd, di, da, pt
<1>8. Formatted \in FsInts
  BY <1>1, <1>4, <1>6, <1>7 DEF FsInts
<1>9. /\ Formatted.saved = c /\ Formatted.count = c /\ Formatted.bmap = bm /\ Formatted.imap = im
      /\ Formatted.inode = nd /\ Formatted.dir = di
  BY <1>1
<1> QED BY <1>4, <1>8, <1>9 DEF bm, im, nd, no, at, di, cb, ci, cd, sb, si

LEMMA InitSound ==
  Sound(Formatted) /\ LinksAll(Formatted)
<1> DEFINE f    == Formatted
           at   == [Zeroed.block EXCEPT ![0] = RootBlock]
           node == [mode |-> "dir", blocks |-> 1, block |-> at]
<1>1. /\ f \in FsInts /\ f.saved = f.count
      /\ f.bmap = [b \in Blocks |-> b \in Reserved] /\ f.imap = [i \in Inodes |-> i = Root]
      /\ f.inode = [i \in Inodes |-> IF i = Root THEN node ELSE Zeroed]
      /\ f.dir = [b \in Blocks |-> IF b = RootBlock THEN DirTable(Root, Root) ELSE <<>>]
      /\ f.count.blocks = [g \in Groups |-> BlocksPerGroup - Cardinality(InGroup(Reserved, g))]
      /\ f.count.inodes = [g \in Groups |-> IF g = 0 THEN InodesPerGroup - 1 ELSE InodesPerGroup]
      /\ f.count.dirs = [g \in Groups |-> IF g = 0 THEN 1 ELSE 0]
      /\ f.count.sblocks = DiskBlocks - Cardinality(Reserved)
      /\ f.count.sinodes = GroupCount * InodesPerGroup - 1
  BY FormattedIs
<1> HIDE DEF f
<1>2. Root \in Inodes /\ RootBlock \in Blocks /\ RootBlock # Null /\ RootBlock \notin Meta /\ Null \in Meta
      /\ Meta \subseteq Blocks
  BY BootAndRoot
<1>3. /\ node.mode = "dir" /\ node.blocks = 1 /\ node.block = at /\ at[0] = RootBlock
      /\ \A s \in Slots \ {0} : at[s] = Null
  BY Positive DEF Zeroed, Slots
<1> HIDE DEF node, at
<1>4. Used(f) = {Root} /\ f.inode[Root] = node /\ \A i \in Inodes \ {Root} : f.inode[i] = Zeroed
  <2>1. \A i \in Inodes : f.imap[i] <=> i = Root
    BY <1>1
  <2>2. Used(f) = {Root}
    BY <1>2, <2>1 DEF Used
  <2>3. f.inode[Root] = node /\ \A i \in Inodes \ {Root} : f.inode[i] = Zeroed
    BY <1>1, <1>2
  <2> QED BY <2>2, <2>3
<1>5. Clear(f) = Blocks \ Reserved
  <2>0. f.bmap = [b \in Blocks |-> b \in Reserved]
    BY <1>1
  <2>1. \A b \in Blocks : f.bmap[b] <=> b \in Reserved
    BY <2>0, Zenon
  <2> QED BY <2>1 DEF Clear
<1>6. /\ UsedDirs(f) = {Root} /\ IsDir(f, Root)
      /\ \A i \in Inodes \ {Root} : ~IsDir(f, i) /\ f.inode[i].mode = "none"
  <2>1. Zeroed.mode = "none"
    BY DEF Zeroed
  <2> QED BY <1>3, <1>4, <2>1 DEF UsedDirs, IsDir
<1>7. Shape(f, Root) /\ DirShape(f, Root)
  <2>1. at[Direct] = Null /\ at[Direct + 1] = Null /\ at[Direct + 2] = Null
        /\ \A s \in 0 .. Direct - 1 : at[s] # Null => s < 1
    BY <1>2, <1>3, SlotKinds, Positive
  <2>2. Shape(f, Root)
    BY <1>3, <1>4, <2>1 DEF Shape
  <2>3. 1 \in 1 .. Direct /\ 0 .. 1 - 1 = {0}
    BY Positive
  <2>4. DirShape(f, Root)
    BY <1>2, <1>3, <1>4, <2>3 DEF DirShape
  <2> QED BY <2>2, <2>4
<1>8. OwnedBlocks(f, Root) = {RootBlock}
  <2>1. OwnedBlocks(f, Root) = {f.inode[Root].block[s] : s \in DirSlots(f, Root)}
    BY <1>1, <1>2, <1>7, DirOwns
  <2>2. DirSlots(f, Root) = {0}
    BY <1>3, <1>4 DEF DirSlots
  <2> QED BY <1>3, <1>4, <2>1, <2>2
<1>9. Owned(f)
  <2>1. RootBlock \notin Clear(f) /\ Blocks \ (Meta \cup Clear(f)) = {RootBlock}
    BY <1>2, <1>5 DEF Reserved
  <2> QED BY <1>2, <1>4, <1>7, <1>8, <2>1 DEF Owned
<1>10. DirSound(f, Root) /\ \A s, m : ~LinkAt(f, Root, s, m)
  <2>1. f.dir[f.inode[Root].block[0]] = DirTable(Root, Root)
    BY <1>1, <1>2, <1>3, <1>4
  <2> QED BY <1>2, <1>3, <1>4, <1>7, <2>1, TableSound
<1>11. LinksTrue(f) /\ LinksOnce(f) /\ LinksAll(f)
  BY <1>4, <1>6, <1>10 DEF LinksTrue, LinksOnce, LinksAll
<1>12. BlocksCounted(f)
  BY <1>1, <1>5, FormattedCounts DEF BlocksCounted
<1>13. InodesCounted(f)
  BY <1>1, <1>4, FormattedCounts DEF InodesCounted
<1>14. DirsCounted(f)
  <2>1. ASSUME NEW g \in Groups PROVE f.count.dirs[g] = Cardinality(DirsIn(f, g))
    <3>1. f.count.dirs[g] = IF g = 0 THEN 1 ELSE 0
      BY <1>1
    <3>2. DirsIn(f, g) = IF g = 0 THEN {Root} ELSE {}
      BY <1>4, <1>6, FormattedCounts DEF DirsIn
    <3>3. Cardinality({Root}) = 1 /\ Cardinality({}) = 0
      BY FS_Singleton, FS_EmptySet
    <3> QED BY <3>1, <3>2, <3>3
  <2> QED BY <2>1 DEF DirsCounted
<1>15. Meta \cap Clear(f) = {}
  BY <1>5 DEF Reserved
<1>17. \A i \in Inodes : f.inode[i].mode # "none" <=> i \in Used(f)
  BY <1>3, <1>4, <1>6
<1>16. Sound(f)
  BY <1>17, <1>1, <1>4, <1>6, <1>9, <1>10, <1>11, <1>12, <1>13, <1>14, <1>15 DEF Sound, Counted
<1> QED BY <1>11, <1>16 DEF f

-----------------------------------------------------------------------------
(* The invariant, in every state.                                          *)

Invariant == Sound(fs)

(* A link in the words of the specification.                               *)
LEMMA LinksAre ==
  ASSUME Invariant, NEW d \in Dirs
  PROVE  /\ d \in UsedDirs(fs)
         /\ \A p \in Links(fs, d) :
              /\ p = <<p[1], p[2]>> /\ p[1] \in Nat /\ p[2] \in Nat /\ LinkAt(fs, d, p[1], p[2])
              /\ EntryAt(fs, d, p).ino = Child(fs, d, p[1], p[2])
              /\ EntryAt(fs, d, p).type = Kind(fs, d, p[1], p[2])
         /\ \A s, m \in Nat : LinkAt(fs, d, s, m) =>
              <<s, m>> \in Links(fs, d) /\ EntryAt(fs, d, <<s, m>>).ino = Child(fs, d, s, m)
<1>1. d \in UsedDirs(fs) /\ Sound(fs)
  BY DEF Invariant, Dirs, InUse, UsedDirs, Used
<1>2. fs \in FsInts /\ d \in Inodes /\ Shape(fs, d) /\ DirSound(fs, d)
  BY <1>1, SoundDir
<1>3. /\ Places(fs, d) \subseteq Nat \X Nat
      /\ \A p \in Places(fs, d) :
           /\ p[1] \in DirSlots(fs, d) /\ p[2] \in 1 .. Len(Entries(fs, d, p[1]))
           /\ EntryAt(fs, d, p) = Entries(fs, d, p[1])[p[2]]
           /\ Entries(fs, d, p[1]) \in Seq(EntryType)
      /\ \A s \in DirSlots(fs, d) : \A m \in 1 .. Len(Entries(fs, d, s)) :
           <<s, m>> \in Places(fs, d) /\ EntryAt(fs, d, <<s, m>>) = Entries(fs, d, s)[m]
  BY <1>2, PlacesIs
<1>4. ASSUME NEW p \in Links(fs, d)
      PROVE  /\ p = <<p[1], p[2]>> /\ p[1] \in Nat /\ p[2] \in Nat /\ LinkAt(fs, d, p[1], p[2])
             /\ EntryAt(fs, d, p).ino = Child(fs, d, p[1], p[2])
             /\ EntryAt(fs, d, p).type = Kind(fs, d, p[1], p[2])
  <2>1. p \in Places(fs, d) /\ EntryAt(fs, d, p).ino # 0 /\ EntryAt(fs, d, p).name \in Names
    BY DEF Links
  <2>2. p \in Nat \X Nat
    BY <1>3, <2>1
  <2>3. /\ p[1] \in DirSlots(fs, d) /\ p[2] \in 1 .. Len(Entries(fs, d, p[1]))
        /\ EntryAt(fs, d, p) = Entries(fs, d, p[1])[p[2]]
    BY <1>3, <2>1
  <2> QED BY <2>1, <2>2, <2>3 DEF LinkAt, Child, Kind
<1>5. ASSUME NEW s \in Nat, NEW m \in Nat, LinkAt(fs, d, s, m)
      PROVE  <<s, m>> \in Links(fs, d) /\ EntryAt(fs, d, <<s, m>>).ino = Child(fs, d, s, m)
  <2>1. <<s, m>> \in Places(fs, d) /\ EntryAt(fs, d, <<s, m>>) = Entries(fs, d, s)[m]
    BY <1>3, <1>5 DEF LinkAt
  <2> QED BY <1>5, <2>1 DEF Links, LinkAt, Child
<1> QED BY <1>1, <1>4, <1>5

LEMMA InvariantKept ==
  ASSUME Invariant, [HandledNext]_fs
  PROVE  Invariant'
<1>1. Sound(fs)
  BY DEF Invariant
<1>2. CASE UNCHANGED fs
  BY <1>1, <1>2 DEF Invariant
<1>3. ASSUME NEW req \in WriteRequests, Handled(fs, req), Write(req) PROVE Sound(fs')
  BY <1>1, <1>3, WriteSound DEF Write
<1>4. ASSUME NEW req \in DeleteRequests, Delete(req) PROVE Sound(fs')
  <2>1. PICK empty : fs' = DeleteResult(fs, req, empty).fs
    BY <1>4 DEF Delete
  <2> QED BY <1>1, <2>1, DeleteSound
<1>5. CASE Reboot
  <2>1. fs \in FsInts /\ fs.saved = fs.count
    BY <1>1 DEF Sound
  <2>2. fs' = fs
    BY <1>5, <2>1 DEF Reboot, FsInts
  <2> QED BY <1>1, <2>2 DEF Invariant
<1> QED BY <1>2, <1>3, <1>4, <1>5 DEF HandledNext, Invariant

LEMMA TreeKept ==
  ASSUME Invariant, LinksAll(fs), [HandledNext]_fs,
         [\A d \in Dirs : Links(fs, d) # {} => fs'.imap[d]]_fs
  PROVE  LinksAll(fs')
<1>1. Sound(fs)
  BY DEF Invariant
<1>2. CASE UNCHANGED fs
  BY <1>2
<1>3. ASSUME NEW req \in WriteRequests, Handled(fs, req), Write(req) PROVE LinksAll(fs')
  BY <1>1, <1>3, WriteSound DEF Write
<1>4. ASSUME fs' # fs, NEW req \in DeleteRequests, Delete(req) PROVE LinksAll(fs')
  <2>1. PICK empty : fs' = DeleteResult(fs, req, empty).fs
    BY <1>4 DEF Delete
  <2>2. \A x \in UsedDirs(fs) : (\E s, m \in Nat : LinkAt(fs, x, s, m)) => fs'.imap[x]
    <3> SUFFICES ASSUME NEW x \in UsedDirs(fs), NEW s \in Nat, NEW m \in Nat, LinkAt(fs, x, s, m)
                 PROVE  fs'.imap[x]
      OBVIOUS
    <3>1. x \in Dirs
      BY DEF Dirs, InUse, UsedDirs, Used
    <3>2. <<s, m>> \in Links(fs, x)
      BY <3>1, LinksAre
    <3> QED BY <1>4, <3>1, <3>2
  <2> QED BY <1>1, <2>1, <2>2, DeleteSound
<1>5. CASE Reboot
  <2>1. fs \in FsInts /\ fs.saved = fs.count
    BY <1>1 DEF Sound
  <2>2. fs' = fs
    BY <1>5, <2>1 DEF Reboot, FsInts
  <2> QED BY <2>2
<1> QED BY <1>2, <1>3, <1>4, <1>5 DEF HandledNext

-----------------------------------------------------------------------------
(* What the invariant says, in the words of the specification.             *)

LEMMA SameSets ==
  /\ InUse = Used(fs) /\ Dirs = UsedDirs(fs) /\ \A g : ClearIn(g) = InGroup(Clear(fs), g)
BY DEF InUse, Used, Dirs, UsedDirs, ClearIn, InGroup, Clear

LEMMA CountsAreExact ==
  ASSUME Invariant PROVE CountsExact
<1>1. Counted(fs)
  BY DEF Invariant, Sound
<1>2. ASSUME NEW g \in Groups
      PROVE  /\ fs.count.blocks[g] = Cardinality(ClearIn(g))
             /\ fs.count.inodes[g] = Cardinality({i \in Inodes \ InUse : inode_to_bgd(i) = g})
             /\ fs.count.dirs[g] = Cardinality({d \in Dirs : inode_to_bgd(d) = g})
  <2>1. {d \in Dirs : inode_to_bgd(d) = g} = DirsIn(fs, g)
    BY SameSets DEF DirsIn, UsedDirs
  <2> QED BY <1>1, <2>1, SameSets DEF Counted, BlocksCounted, InodesCounted, DirsCounted
<1>3. fs.count.sinodes = Cardinality(Inodes \ InUse)
  BY <1>1, SameSets DEF Counted, InodesCounted
<1>4. fs.count.sblocks = DiskBlocks - Cardinality({b \in Blocks : fs.bmap[b]})
  <2>1. Blocks \ Clear(fs) = {b \in Blocks : fs.bmap[b]}
    BY DEF Clear
  <2> QED BY <1>1, <2>1 DEF Counted, BlocksCounted
<1> QED BY <1>2, <1>3, <1>4 DEF CountsExact

LEMMA BlocksAreOwned ==
  ASSUME Invariant PROVE BlocksOwned /\ NoBlockLost
<1>1. Owned(fs) /\ fs \in FsInts
  BY DEF Invariant, Sound
<1>2. \A i \in InUse : OwnedBlocks(fs, i) \subseteq Blocks
  BY <1>1, OwnedInBlocks DEF InUse
<1>3. \A i \in InUse : \A b \in OwnedBlocks(fs, i) : fs.bmap[b] /\ b \notin Meta
  <2> TAKE i \in InUse
  <2> TAKE b \in OwnedBlocks(fs, i)
  <2>1. b \notin Clear(fs) /\ b \notin Meta /\ b \in Blocks
    BY <1>1, <1>2, SameSets DEF Owned
  <2> QED BY <2>1 DEF Clear
<1>4. \A i, j \in InUse : i # j => OwnedBlocks(fs, i) \cap OwnedBlocks(fs, j) = {}
  BY <1>1, SameSets DEF Owned
<1>5. NoBlockLost
  <2> SUFFICES ASSUME NEW b \in Blocks \ Meta, fs.bmap[b]
               PROVE  \E i \in InUse : b \in OwnedBlocks(fs, i)
    BY DEF NoBlockLost
  <2>1. b \notin Clear(fs)
    BY DEF Clear
  <2> QED BY <1>1, <2>1, SameSets DEF Owned
<1> QED BY <1>3, <1>4, <1>5 DEF BlocksOwned

LEMMA TypesHold ==
  ASSUME Invariant PROVE TypeOK
<1>1. fs \in FsInts /\ fs.saved = fs.count /\ fs.count \in CountInts
  BY DEF Invariant, Sound, FsInts
<1>2. CountsExact
  BY CountsAreExact
<1>3. ASSUME NEW g \in Groups
      PROVE  fs.count.blocks[g] \in Nat /\ fs.count.inodes[g] \in Nat /\ fs.count.dirs[g] \in Nat
  <2>1. Cardinality(ClearIn(g)) \in Nat
    <3>1. Clear(fs) \in SUBSET Blocks
      BY DEF Clear
    <3> QED BY <3>1, SameSets, GroupFinite
  <2>2. Cardinality({i \in Inodes \ InUse : inode_to_bgd(i) = g}) \in Nat
    <3>1. Inodes \ InUse \in SUBSET Inodes
      OBVIOUS
    <3> QED BY <3>1, InodeFinite
  <2>3. Cardinality({d \in Dirs : inode_to_bgd(d) = g}) \in Nat
    <3>1. Dirs \in SUBSET Inodes
      BY DEF Dirs, InUse
    <3> QED BY <3>1, InodeFinite
  <2> QED BY <1>2, <2>1, <2>2, <2>3 DEF CountsExact
<1>4. fs.count \in CountType
  <2>1. /\ fs.count.blocks \in [Groups -> Nat] /\ fs.count.inodes \in [Groups -> Nat]
        /\ fs.count.dirs \in [Groups -> Nat]
    BY <1>1, <1>3 DEF CountInts
  <2> QED BY <1>1, <2>1 DEF CountInts, CountType
<1>5. fs \in FsType
  BY <1>1, <1>4 DEF FsInts, FsType
<1> QED BY <1>5 DEF TypeOK

LEMMA AllRecordsFit ==
  ASSUME Invariant PROVE RecordsFit
<1> SUFFICES ASSUME NEW d \in Dirs, NEW s \in DirBlocks(fs, d)
             PROVE  LET es == Entries(fs, d, s)
                    IN  /\ LenUpTo(es) = BlockLen
                        /\ \A k \in 1 .. Len(es) : Hole(es[k]) >= 0
                        /\ s = 0 => es[1].name = Dot /\ es[1].ino = d
  BY DEF RecordsFit, Entries
<1> DEFINE es == Entries(fs, d, s)
<1>1. /\ fs \in FsInts /\ d \in Inodes /\ Shape(fs, d) /\ DirSound(fs, d)
      /\ OwnedBlocks(fs, d) \subseteq Blocks
      /\ \A t \in DirSlots(fs, d) : fs.inode[d].block[t] \in OwnedBlocks(fs, d)
  BY SameSets, SoundDir DEF Invariant
<1>2. s \in DirSlots(fs, d)
  <2>1. fs.inode[d].blocks \in 1 .. Direct /\ Direct \in Nat
    BY <1>1, Positive DEF DirSound, DirShape
  <2>2. Smaller(fs.inode[d].blocks, Cardinality(Slots)) = fs.inode[d].blocks
    BY <2>1, SlotCount DEF Smaller
  <2> QED BY <2>2 DEF DirBlocks, DirSlots
<1>3. es \in Seq(EntryType) /\ Fit(es)
  <2>1. fs.inode[d].block[s] \in Blocks
    BY <1>1, <1>2
  <2> QED BY <1>1, <1>2, <2>1 DEF FsInts, Entries, DirSound
<1>4. s = 0 => Begins(es, d)
  BY <1>1 DEF DirSound
<1> HIDE DEF es
<1>5. LenUpTo(es) = BlockLen
  <2>1. PICK off : Fits(es, off)
    BY <1>3 DEF Fit
  <2> QED BY <1>3, <2>1, FitLen
<1> QED BY <1>3, <1>4, <1>5 DEF Fit, Begins, es

LEMMA AllEntriesTrue ==
  ASSUME Invariant PROVE EntriesTrue
<1>1. LinksTrue(fs) /\ LinksOnce(fs) /\ Sound(fs)
  BY DEF Invariant, Sound
<1>2. ASSUME NEW l \in AllLinks
      PROVE  /\ l = <<l[1], <<l[2][1], l[2][2]>>>> /\ l[1] \in Dirs /\ l[1] \in UsedDirs(fs)
             /\ l[2][1] \in Nat /\ l[2][2] \in Nat
             /\ LinkAt(fs, l[1], l[2][1], l[2][2])
             /\ EntryOn(l).ino = Child(fs, l[1], l[2][1], l[2][2])
             /\ EntryOn(l).type = Kind(fs, l[1], l[2][1], l[2][2])
  <2>0. PICK d \in Dirs : l \in {<<d, p>> : p \in Links(fs, d)}
    BY DEF AllLinks
  <2>1. PICK p \in Links(fs, d) : l = <<d, p>>
    BY <2>0
  <2>2. /\ p = <<p[1], p[2]>> /\ p[1] \in Nat /\ p[2] \in Nat /\ LinkAt(fs, d, p[1], p[2])
        /\ EntryAt(fs, d, p).ino = Child(fs, d, p[1], p[2])
        /\ EntryAt(fs, d, p).type = Kind(fs, d, p[1], p[2])
        /\ d \in UsedDirs(fs)
    BY LinksAre
  <2>3. l[1] = d /\ l[2] = p
    BY <2>1
  <2> QED BY <2>1, <2>2, <2>3 DEF EntryOn
<1>3. ASSUME NEW l \in AllLinks
      PROVE  /\ EntryOn(l).ino \in InUse /\ fs.inode[EntryOn(l).ino].mode = EntryOn(l).type
             /\ IsDir(fs, EntryOn(l).ino) => Up(fs, EntryOn(l).ino) = l[1]
  BY <1>1, <1>2, SameSets DEF LinksTrue
<1>4. ASSUME NEW l \in AllLinks, NEW k \in AllLinks, EntryOn(l).ino = EntryOn(k).ino
      PROVE  l = k
  <2>1. l[1] = k[1] /\ l[2][1] = k[2][1] /\ l[2][2] = k[2][2]
    BY <1>1, <1>2, <1>4 DEF LinksOnce
  <2>2. l = <<l[1], <<l[2][1], l[2][2]>>>> /\ k = <<k[1], <<k[2][1], k[2][2]>>>>
    BY <1>2
  <2> QED BY <2>1, <2>2
<1>5. ASSUME NEW l \in AllLinks, EntryOn(l).type = "dir"
      PROVE  \E p \in Places(fs, EntryOn(l).ino) :
               /\ EntryAt(fs, EntryOn(l).ino, p).name = DotDot
               /\ EntryAt(fs, EntryOn(l).ino, p).ino = l[1]
  <2> DEFINE i == EntryOn(l).ino
  <2>1. i \in Dirs /\ Up(fs, i) = l[1]
    BY <1>3, <1>5 DEF Dirs, IsDir
  <2> HIDE DEF i
  <2>2. fs \in FsInts /\ i \in Inodes /\ Shape(fs, i) /\ DirSound(fs, i) /\ DirShape(fs, i)
    BY <1>1, <2>1, SameSets, SoundDir
  <2>3. 0 \in DirSlots(fs, i)
    BY <2>2, DirOwns
  <2>4. Begins(Entries(fs, i, 0), i)
    BY <2>2 DEF DirSound
  <2>5. Entries(fs, i, 0) \in Seq(EntryType)
    <3>1. fs.inode[i].block[0] \in Blocks
      BY <1>1, <2>1, <2>3, SameSets, SoundDir
    <3> QED BY <2>2, <3>1 DEF FsInts, Entries
  <2>6. 2 \in 1 .. Len(Entries(fs, i, 0))
    BY <2>4, <2>5 DEF Begins
  <2>7. <<0, 2>> \in Places(fs, i) /\ EntryAt(fs, i, <<0, 2>>) = Entries(fs, i, 0)[2]
    BY <2>2, <2>3, <2>6, PlacesIs
  <2>8. EntryAt(fs, i, <<0, 2>>).name = DotDot /\ EntryAt(fs, i, <<0, 2>>).ino = l[1]
    BY <2>1, <2>4, <2>7 DEF Begins, Up
  <2> QED BY <2>7, <2>8 DEF i
<1> QED BY <1>3, <1>4, <1>5 DEF EntriesTrue

LEMMA NoneOrphaned ==
  ASSUME Invariant, LinksAll(fs) PROVE NoOrphan
<1> SUFFICES ASSUME NEW i \in InUse \ {Root} PROVE \E l \in AllLinks : EntryOn(l).ino = i
  BY DEF NoOrphan
<1>1. PICK d \in UsedDirs(fs) : \E s, m \in Nat : LinkAt(fs, d, s, m) /\ Child(fs, d, s, m) = i
  BY SameSets DEF LinksAll
<1>2. PICK s \in Nat, m \in Nat : LinkAt(fs, d, s, m) /\ Child(fs, d, s, m) = i
  BY <1>1
<1>3. d \in Dirs
  BY SameSets
<1>4. <<s, m>> \in Links(fs, d) /\ EntryAt(fs, d, <<s, m>>).ino = i
  BY <1>2, <1>3, LinksAre
<1>5. <<d, <<s, m>>>> \in AllLinks
  BY <1>3, <1>4 DEF AllLinks
<1>6. EntryOn(<<d, <<s, m>>>>).ino = i
  BY <1>4 DEF EntryOn
<1> QED BY <1>5, <1>6

-----------------------------------------------------------------------------
(* The theorems.                                                           *)

LEMMA InvariantHolds ==
  HandledSpec => []Invariant
<1>1. Init => Invariant
  BY InitSound DEF Init, Invariant
<1>2. Invariant /\ [HandledNext]_fs => Invariant'
  BY InvariantKept
<1> QED BY <1>1, <1>2, PTL DEF HandledSpec

(* No block belongs to two inodes, and none that an inode points to is     *)
(* free or the file system's own: whatever files and directories were      *)
(* written and deleted, an allocation gives away nothing that is in use    *)
(* (ext2.c:81-118, 836-975, 1106-1379).                                    *)
THEOREM BlocksStayOwned == HandledSpec => []BlocksOwned
<1>1. Invariant => BlocksOwned
  BY BlocksAreOwned
<1> QED BY <1>1, InvariantHolds, PTL

(* A marked block is always reached from an inode in use: deallocate_node  *)
(* finds every block that allocate_node_blocks took, pointer blocks and    *)
(* those of a write that ran out of space included (ext2.c:836-975,        *)
(* 1106-1379).                                                             *)
THEOREM BlocksComeBack == HandledSpec => []NoBlockLost
<1>1. Invariant => NoBlockLost
  BY BlocksAreOwned
<1> QED BY <1>1, InvariantHolds, PTL

(* The counts of free blocks, free inodes and directories, of every group  *)
(* and of the superblock, agree with the bitmaps and the inodes            *)
(* (ext2.c:93-97, 808-834, 836-975).                                       *)
THEOREM CountsStayExact == HandledSpec => []CountsExact
<1>1. Invariant => CountsExact
  BY CountsAreExact
<1> QED BY <1>1, InvariantHolds, PTL

(* What is on the disk between two calls are the counts in memory, so that *)
(* a restart loses none of them (ext2.c:71-79 and its callers).            *)
THEOREM CountsStaySaved == HandledSpec => []CountsSaved
<1>1. Invariant => CountsSaved
  BY DEF Invariant, Sound, CountsSaved
<1> QED BY <1>1, InvariantHolds, PTL

(* Bitmaps, inodes, directory blocks and counts keep their types: no count *)
(* drops below zero, and no record is shorter than one unit or longer than *)
(* its block (ext2.h, ext2.c:515-806).                                     *)
THEOREM Ext2TypesHold == HandledSpec => []TypeOK
<1>1. Invariant => TypeOK
  BY TypesHold
<1> QED BY <1>1, InvariantHolds, PTL

(* The records of a directory block fill it exactly, each has room for its *)
(* name, and the first block begins with ".", after any insertions,        *)
(* removals and merges (ext2.c:559-600, 778-798).                          *)
THEOREM RecordsStayFit == HandledSpec => []RecordsFit
<1>1. Invariant => RecordsFit
  BY AllRecordsFit
<1> QED BY <1>1, InvariantHolds, PTL

(* Every entry names an inode in use, of its type, that no other entry     *)
(* names, and ".." of a directory is the directory its entry is in         *)
(* (ext2.c:129-149, 515-806).                                              *)
THEOREM EntriesStayTrue == HandledSpec => []EntriesTrue
<1>1. Invariant => EntriesTrue
  BY AllEntriesTrue
<1> QED BY <1>1, InvariantHolds, PTL

(* Where no directory with children is deleted, every inode in use but the *)
(* root's has exactly one entry (ext2.c:515-806); is_directory_empty alone *)
(* does not promise the premise (ext2.c:265-288).                          *)
THEOREM TreeStaysExact == HandledSpec /\ NotEmptyKept => []TreeExact
<1> DEFINE Whole == Invariant /\ LinksAll(fs)
           Kept  == \A d \in Dirs : Links(fs, d) # {} => fs'.imap[d]
<1>1. Init => Whole
  BY InitSound DEF Init, Invariant
<1>2. Whole /\ [HandledNext]_fs /\ [Kept]_fs => Whole'
  BY InvariantKept, TreeKept
<1>3. Whole => TreeExact
  BY AllEntriesTrue, NoneOrphaned DEF TreeExact
<1>4. NotEmptyKept <=> [][Kept]_fs
  BY DEF NotEmptyKept
<1> HIDE DEF Whole, Kept
<1> QED BY <1>1, <1>2, <1>3, <1>4, PTL DEF HandledSpec

=============================================================================
