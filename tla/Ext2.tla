-------------------------------- MODULE Ext2 --------------------------------
(***************************************************************************)
(* The file system driver (filesystem/ext2.c).  fs is the disk together    *)
(* with the cached superblock and group descriptors.  Every function is an *)
(* operator from one fs to the next; a system call is one step, because    *)
(* the driver runs with interrupts off.  Sizes are counted in blocks and   *)
(* record lengths in any unit in which BlockLen is a block.                *)
(***************************************************************************)
EXTENDS Integers, Sequences, FiniteSets

CONSTANTS
  GroupCount,      \* GROUPS_COUNT
  BlocksPerGroup,  \* BLOCKS_PER_GROUP
  TableBlocks,     \* INODES_TABLE_BLOCK_COUNT
  InodesPerTable,  \* INODES_PER_TABLE: inodes in a block of the inode table
  Direct,          \* 12: the direct pointers of an inode
  PtrsPerBlock,    \* BLOCK_SIZE / 4
  DiskBlocks,      \* DISK_SPACE / BLOCK_SIZE
  BlockLen,        \* BLOCK_SIZE, in the unit of RecLen
  Names,           \* the names programs use
  RecLen,          \* get_entry_record_len, of every name
  Datas,           \* what a program may write: the value fills every block
  Sizes,           \* the sizes of files, in blocks
  DirMax,          \* bound: the blocks a directory may grow to
  Kinds            \* what programs create and delete: "reg", "dir"

Dot    == "."
DotDot == ".."

ASSUME Ext2Assumption ==
  /\ {GroupCount, TableBlocks, InodesPerTable, Direct, PtrsPerBlock} \subseteq Nat \ {0}
  /\ BlocksPerGroup \in Nat /\ BlocksPerGroup > 5 + TableBlocks
  /\ DiskBlocks \in Nat /\ DiskBlocks >= GroupCount * BlocksPerGroup
  /\ BlockLen \in Nat /\ DirMax \in Nat
  /\ {Dot, DotDot} \cap Names = {}
  /\ RecLen \in [Names \cup {Dot, DotDot} -> 1 .. BlockLen]
  /\ RecLen[Dot] + RecLen[DotDot] <= BlockLen
  /\ Kinds \subseteq {"reg", "dir"}
  /\ Sizes \subseteq 0 .. Direct + PtrsPerBlock + PtrsPerBlock * PtrsPerBlock

Groups         == 0 .. GroupCount - 1
Blocks         == 0 .. GroupCount * BlocksPerGroup - 1
InodesPerGroup == InodesPerTable * TableBlocks
Inodes         == 1 .. GroupCount * InodesPerGroup
Root           == 1
Null           == 0      \* block 0 is the boot sector: a pointer to it is none

Group(b)        == b \div BlocksPerGroup
inode_to_bgd(i) == (i - 1) \div InodesPerGroup
TableBlock(i)   == (i - 1) \div InodesPerTable

(* Boot sector, superblock and descriptors (group 0), the two bitmaps and  *)
(* the inode table; then the first block for data.                         *)
FirstData(g) == g * BlocksPerGroup + TableBlocks + (IF g = 0 THEN 5 ELSE 2)
Meta         == {b \in Blocks : b < FirstData(Group(b))}

Modes     == {"none", "reg", "dir"}
Slots     == 0 .. Direct + 2        \* i_block[15]: 12 direct, three indirect ones
InodeType == [mode : Modes, blocks : Nat, block : [Slots -> Blocks]]
Zeroed    == [mode |-> "none", blocks |-> 0, block |-> [s \in Slots |-> Null]]

(* A used entry of a directory block, or the first one with inode 0.       *)
EntryType == [ino : Inodes \cup {0}, name : Names \cup {Dot, DotDot},
              type : {"reg", "dir"}, len : 1 .. BlockLen]

VARIABLE fs

(* The counts of the superblock and of the groups.                         *)
CountType == [blocks : [Groups -> Nat], inodes : [Groups -> Nat], dirs : [Groups -> Nat],
              sblocks : Int, sinodes : Int]

(* A block holds directory entries, or file data (a value and the number   *)
(* of the block in its file), or pointers; scanned as a directory, data    *)
(* and pointers show no entry, because they begin with a zero record.      *)
NoData == <<>>
FsType ==
  [bmap  : [Blocks -> BOOLEAN], imap : [Inodes -> BOOLEAN],
   inode : [Inodes -> InodeType],
   dir   : [Blocks -> Seq(EntryType)],
   data  : [Blocks -> {NoData} \cup (Datas \X Nat)],
   ptr   : [Blocks -> Seq(Blocks)],
   count : CountType,     \* superBlock and bgdtCache
   saved : CountType]     \* blocks 1 and 2 of the disk

-----------------------------------------------------------------------------
LeastOf(S) == CHOOSE x \in S : \A y \in S : x <= y

(* The k-th smallest element of S.                                         *)
Nth(S, k) == CHOOSE x \in S : Cardinality({y \in S : y < x}) = k - 1

Smaller(a, b) == IF a <= b THEN a ELSE b

(* Mutant of SyncMetadata: nothing is written.                             *)
SyncNothing(f) == f

SyncMetadata(f) == [f EXCEPT !.saved = f.count]

(* Mutant of FreeFrom: the bitmap is not consulted.                        *)
FreeFromAny(f, g) ==
  {b \in Blocks \ Meta : Group(b) >= g /\ f.count.blocks[Group(b)] > 0}

(* What the searches for a clear bit see: groups from g on whose count is  *)
(* not zero.                                                               *)
FreeFrom(f, g) ==
  {b \in Blocks : Group(b) >= g /\ f.count.blocks[Group(b)] > 0 /\ ~f.bmap[b]}

InGroup(B, g) == {b \in B : Group(b) = g}

TakeBlocks(f, B) ==
  [f EXCEPT !.bmap  = [b \in Blocks |-> f.bmap[b] \/ b \in B],
            !.count = [f.count EXCEPT
              !.blocks  = [g \in Groups |-> f.count.blocks[g] - Cardinality(InGroup(B, g))],
              !.sblocks = f.count.sblocks - Cardinality(B)]]

(* Mutant of ReleaseBlocks: the superblock's count is forgotten.           *)
ReleaseUncounted(f, B) ==
  [f EXCEPT !.bmap  = [b \in Blocks |-> f.bmap[b] /\ b \notin B],
            !.count = [f.count EXCEPT
              !.blocks  = [g \in Groups |-> f.count.blocks[g] + Cardinality(InGroup(B, g))]]]

(* What a free block holds is forgotten: whoever takes it writes all of it *)
(* before anything reads it.                                               *)
ReleaseBlocks(f, B) ==
  [f EXCEPT !.bmap  = [b \in Blocks |-> f.bmap[b] /\ b \notin B],
            !.dir   = [b \in Blocks |-> IF b \in B THEN <<>> ELSE f.dir[b]],
            !.data  = [b \in Blocks |-> IF b \in B THEN NoData ELSE f.data[b]],
            !.ptr   = [b \in Blocks |-> IF b \in B THEN <<>> ELSE f.ptr[b]],
            !.count = [f.count EXCEPT
              !.blocks  = [g \in Groups |-> f.count.blocks[g] + Cardinality(InGroup(B, g))],
              !.sblocks = f.count.sblocks + Cardinality(B)]]

PutDir(f, b, entries) ==
  [f EXCEPT !.dir  = [f.dir EXCEPT ![b] = entries],
            !.data = [f.data EXCEPT ![b] = NoData],
            !.ptr  = [f.ptr EXCEPT ![b] = <<>>]]

SyncNode(f, i, node) == [f EXCEPT !.inode = [f.inode EXCEPT ![i] = node]]

-----------------------------------------------------------------------------
(* Mutant of FreeInodes: only the count is consulted.                      *)
FreeInodesAny(f) == {i \in Inodes : i # Root /\ f.count.inodes[inode_to_bgd(i)] > 0}

(* allocate_node: the lowest clear bit, or 0.                              *)
FreeInodes(f) == {i \in Inodes : f.count.inodes[inode_to_bgd(i)] > 0 /\ ~f.imap[i]}
NewInode(f)   == IF FreeInodes(f) = {} THEN 0 ELSE LeastOf(FreeInodes(f))

TakeInode(f, i) ==
  LET g == inode_to_bgd(i)
  IN  SyncMetadata(
        [f EXCEPT !.imap  = [f.imap EXCEPT ![i] = TRUE],
                  !.count = [f.count EXCEPT
                    !.inodes  = [f.count.inodes EXCEPT ![g] = f.count.inodes[g] - 1],
                    !.sinodes = f.count.sinodes - 1]])

(* Mutant of DirTable: ".." is the directory itself.                       *)
DirTableSelf(i, parent) ==
  << [ino |-> i, name |-> Dot, type |-> "dir", len |-> RecLen[Dot]],
     [ino |-> i, name |-> DotDot, type |-> "dir", len |-> BlockLen - RecLen[Dot]] >>

DirTable(i, parent) ==
  << [ino |-> i, name |-> Dot, type |-> "dir", len |-> RecLen[Dot]],
     [ino |-> parent, name |-> DotDot, type |-> "dir", len |-> BlockLen - RecLen[Dot]] >>

(* init_directory_table, with the sync_node and the count of its caller.   *)
(* Without a free block the table goes over the group's first data block,  *)
(* whoever owns it: in group 0 that is the root directory's.               *)
InitDirectory(f, i, parent) ==
  LET g     == inode_to_bgd(i)
      free  == FreeFrom(f, g)
      b     == IF free = {} THEN FirstData(g) ELSE LeastOf(free)
      taken == IF free = {} THEN f ELSE TakeBlocks(f, {b})
      node  == [mode |-> "dir", blocks |-> 1, block |-> [Zeroed.block EXCEPT ![0] = b]]
      made  == SyncMetadata(PutDir(taken, b, DirTable(i, parent)))
  IN  SyncNode([made EXCEPT !.count = [made.count EXCEPT
                  !.dirs = [made.count.dirs EXCEPT ![g] = made.count.dirs[g] + 1]]],
               i, node)

-----------------------------------------------------------------------------
(***************************************************************************)
(* The blocks of a file.  allocate_node_blocks takes them one by one, each *)
(* in its turn: the direct blocks, the indirect block and what it points   *)
(* to, the doubly indirect block and, for each of its pointer blocks, that *)
(* block and what it points to.                                            *)
(***************************************************************************)
IndAt  == Direct + 1                        \* the turn of i_block[12]
Single == Direct + PtrsPerBlock             \* data blocks without i_block[13]
DblAt  == Single + 2                        \* the turn of i_block[13]

Chunks(n)   == (n - Single + PtrsPerBlock - 1) \div PtrsPerBlock
TurnsFor(n) == IF n <= Direct THEN n ELSE IF n <= Single THEN n + 1 ELSE n + 2 + Chunks(n)

(* A turn after DblAt: the chunk it belongs to and the place in the chunk, *)
(* 0 for the pointer block itself.                                         *)
ChunkOf(k) == (k - DblAt - 1) \div (PtrsPerBlock + 1)
PlaceIn(k) == (k - DblAt - 1) % (PtrsPerBlock + 1)

PointerTurn(k) == k \in {IndAt, DblAt} \/ (k > DblAt /\ PlaceIn(k) = 0)

(* Mutant of DataNo: the blocks behind i_block[12] are one too far.        *)
DataNoLate(k) == IF k < IndAt THEN k
                 ELSE IF k < DblAt THEN k
                 ELSE Single + ChunkOf(k) * PtrsPerBlock + PlaceIn(k)

(* The data block that is taken at turn k.                                 *)
DataNo(k) == IF k < IndAt THEN k
             ELSE IF k < DblAt THEN k - 1
             ELSE Single + ChunkOf(k) * PtrsPerBlock + PlaceIn(k)

(* The turns of the blocks that the pointer block of turn k points to.     *)
PointedTurns(k, n) ==
  IF k = IndAt THEN [m \in 1 .. Smaller(n, Single) - Direct |-> IndAt + m]
  ELSE IF k = DblAt THEN [c \in 1 .. Chunks(n) |-> DblAt + 1 + (c - 1) * (PtrsPerBlock + 1)]
  ELSE [m \in 1 .. Smaller(PtrsPerBlock, n - Single - ChunkOf(k) * PtrsPerBlock) |-> k + m]

(* The turn of i_block[s]; the last one is never used for a file.          *)
SlotTurn(s) == IF s < Direct THEN s + 1 ELSE IF s = Direct THEN IndAt ELSE DblAt

(* The allocation stops quietly when the groups from g on are full: the    *)
(* turns that are left get no block.                                       *)
AllocateNodeBlocks(f, v, n, g) ==
  LET free    == FreeFrom(f, g)
      turns   == Smaller(TurnsFor(n), Cardinality(free))
      at      == [k \in 1 .. turns |-> Nth(free, k)]
      taken   == {at[k] : k \in 1 .. turns}
      turn(b)     == Cardinality({y \in free : y <= b})
      got(K)      == Cardinality({m \in DOMAIN K : K[m] <= turns})
      pointers(k) == LET K == PointedTurns(k, n) IN [m \in 1 .. got(K) |-> at[K[m]]]
      t == TakeBlocks(f, taken)
  IN  [fs |-> SyncMetadata(
         [t EXCEPT
            !.dir  = [b \in Blocks |-> IF b \in taken THEN <<>> ELSE f.dir[b]],
            !.data = [b \in Blocks |-> IF b \notin taken THEN f.data[b]
                                       ELSE IF PointerTurn(turn(b)) THEN NoData
                                       ELSE <<v, DataNo(turn(b))>>],
            !.ptr  = [b \in Blocks |-> IF b \notin taken THEN f.ptr[b]
                                       ELSE IF PointerTurn(turn(b)) THEN pointers(turn(b))
                                       ELSE <<>>]]),
       block |-> [s \in Slots |->
                    IF s < Direct + 2 /\ SlotTurn(s) <= turns THEN at[SlotTurn(s)] ELSE Null]]

PtrIn(f, b, k) == IF b # Null /\ k \in 1 .. Len(f.ptr[b]) THEN f.ptr[b][k] ELSE Null

(* The block that holds data block j of inode i, as read finds it.         *)
BlockOf(f, i, j) ==
  LET node == f.inode[i]
      q    == j - Single - 1
  IN  IF j <= Direct THEN node.block[j - 1]
      ELSE IF j <= Single THEN PtrIn(f, node.block[Direct], j - Direct)
      ELSE PtrIn(f, PtrIn(f, node.block[Direct + 1], (q \div PtrsPerBlock) + 1),
                 (q % PtrsPerBlock) + 1)

(* Mutant of Freed: the pointer blocks behind i_block[13] stay marked.     *)
FreedShort(f, i) ==
  LET node == f.inode[i]
      n    == node.blocks
  IN  ({BlockOf(f, i, j) : j \in 1 .. n}
        \cup (IF n > Direct THEN {node.block[Direct]} ELSE {})
        \cup (IF n > Single THEN {node.block[Direct + 1]} ELSE {}))
      \ {Null}

(* The blocks deallocate_node clears: data blocks and, where i_blocks      *)
(* calls for them, pointer blocks.                                         *)
Freed(f, i) ==
  LET node == f.inode[i]
      n    == node.blocks
      dbl  == node.block[Direct + 1]
  IN  ({BlockOf(f, i, j) : j \in 1 .. n}
        \cup (IF n > Direct THEN {node.block[Direct]} ELSE {})
        \cup (IF n > Single THEN {dbl} \cup {PtrIn(f, dbl, c) : c \in 1 .. Chunks(n)} ELSE {}))
      \ {Null}

(* Mutant of DirsLeft: bg_used_dirs_count only grows.                      *)
DirsUncounted(f, i) == f.count.dirs[inode_to_bgd(i)]

DirsLeft(f, i) ==
  LET dirs == f.count.dirs[inode_to_bgd(i)]
  IN  IF f.inode[i].mode = "dir" /\ dirs > 0 THEN dirs - 1 ELSE dirs

(* deallocate_node: the blocks, the inode, its bit.                        *)
DeallocateNode(f, i) ==
  LET g    == inode_to_bgd(i)
      r    == ReleaseBlocks(f, Freed(f, i))
  IN  SyncMetadata(
        [r EXCEPT !.inode = [f.inode EXCEPT ![i] = Zeroed],
                  !.imap  = [f.imap EXCEPT ![i] = FALSE],
                  !.count = [r.count EXCEPT
                    !.dirs    = [f.count.dirs EXCEPT ![g] = DirsLeft(f, i)],
                    !.inodes  = [f.count.inodes EXCEPT ![g] = f.count.inodes[g] + 1],
                    !.sinodes = f.count.sinodes + 1]])

-----------------------------------------------------------------------------
(***************************************************************************)
(* Directories: entries are numbered by the block of the directory and the *)
(* place in the block.                                                     *)
(***************************************************************************)
IsDir(f, d) == f.inode[d].mode = "dir"

DirBlocks(f, d) == 0 .. Smaller(f.inode[d].blocks, Cardinality(Slots)) - 1
Places(f, d) ==
  UNION {{s} \X DOMAIN f.dir[f.inode[d].block[s]] : s \in DirBlocks(f, d)}
EntryAt(f, d, p) == f.dir[f.inode[d].block[p[1]]][p[2]]
FirstOf(P) ==
  CHOOSE p \in P : \A q \in P : p[1] < q[1] \/ (p[1] = q[1] /\ p[2] <= q[2])

Named(f, d, name) ==
  {p \in Places(f, d) : EntryAt(f, d, p).ino # 0 /\ EntryAt(f, d, p).name = name}

Hole(e) == e.len - RecLen[e.name]

(* Mutant of Roomy: the length of the new record is one short.             *)
RoomyShort(f, d, name) ==
  {p \in Places(f, d) : EntryAt(f, d, p).ino # 0 /\ Hole(EntryAt(f, d, p)) >= RecLen[name] - 1}

(* Where the scan of write stops: at an entry with the name, or with room  *)
(* after it.                                                               *)
Roomy(f, d, name) ==
  {p \in Places(f, d) : EntryAt(f, d, p).ino # 0 /\ Hole(EntryAt(f, d, p)) >= RecLen[name]}

(* A request: the directory, the name, a new directory or a file of size   *)
(* blocks full of data.                                                    *)
WriteRequests ==
  {r \in [parent : Inodes, name : Names, type : Kinds, size : Sizes \cup {0}, data : Datas] :
     IF r.type = "dir" THEN r.size = 0 ELSE r.size \in Sizes}

(* The new inode and what it holds, in the inode that was just allocated.  *)
FillInode(f, i, req) ==
  IF req.type = "dir"
  THEN InitDirectory(f, i, req.parent)
  ELSE LET a == AllocateNodeBlocks(f, req.data, req.size, inode_to_bgd(i))
       IN  SyncNode(a.fs, i, [mode |-> "reg", blocks |-> req.size, block |-> a.block])

(* The name fits behind the entry at p.  The directory block is written    *)
(* from the copy made before anything was allocated.                       *)
InsertEntry(f, req, p) ==
  LET i    == NewInode(f)
      b    == f.inode[req.parent].block[p[1]]
      old  == f.dir[b]
      e    == old[p[2]]
      new  == [ino |-> i, name |-> req.name, type |-> req.type, len |-> Hole(e)]
      full == SubSeq(old, 1, p[2] - 1)
                \o <<[e EXCEPT !.len = RecLen[e.name]], new>>
                \o SubSeq(old, p[2] + 1, Len(old))
  IN  IF i = 0
      THEN [fs |-> f, code |-> -1]
      ELSE [fs |-> SyncMetadata(PutDir(FillInode(TakeInode(f, i), i, req), b, full)), code |-> 0]

(* Past the last slot of i_block[] the code would write into the next      *)
(* inode of the table.                                                     *)
GrownParent(f, d, b) ==
  [f.inode[d] EXCEPT !.blocks = f.inode[d].blocks + 1,
                     !.block  = [f.inode[d].block EXCEPT ![f.inode[d].blocks] = b]]

(* Mutant of TableWrittenBack: the blocks after the parent's, too.         *)
TableTailWrittenBack(old, new, d, parent) ==
  [j \in Inodes |-> IF j = d THEN parent
                    ELSE IF TableBlock(j) >= TableBlock(d) THEN old[j]
                    ELSE new[j]]

(* The block of the inode table that holds the parent was read at the      *)
(* start and is written back at the end, over the new inode when that is   *)
(* in the same block of the table.                                         *)
TableWrittenBack(old, new, d, parent) ==
  [j \in Inodes |-> IF j = d THEN parent
                    ELSE IF TableBlock(j) = TableBlock(d) THEN old[j]
                    ELSE new[j]]

(* The directory grows by a block that holds only the new entry.           *)
GrowDirectory(f, req) ==
  LET d      == req.parent
      free   == FreeFrom(f, inode_to_bgd(d))
      b      == LeastOf(free)
      t      == TakeBlocks(f, {b})
      i      == NewInode(t)
      filled == FillInode(TakeInode(t, i), i, req)
      put    == PutDir(filled, b, <<[ino |-> i, name |-> req.name, type |-> req.type,
                                     len |-> BlockLen]>>)
      back   == [put EXCEPT !.inode =
                   TableWrittenBack(f.inode, put.inode, d, GrownParent(f, d, b))]
  IN  IF free = {} THEN [fs |-> f, code |-> -1]
      ELSE IF i = 0 THEN [fs |-> t, code |-> -1]
      ELSE [fs |-> SyncMetadata(back), code |-> 0]

WriteResult(f, req) ==
  LET stops == Named(f, req.parent, req.name) \cup Roomy(f, req.parent, req.name)
  IN  IF ~IsDir(f, req.parent) THEN [fs |-> f, code |-> 2]
      ELSE IF stops = {} THEN GrowDirectory(f, req)
      ELSE IF FirstOf(stops) \in Named(f, req.parent, req.name) THEN [fs |-> f, code |-> 1]
      ELSE InsertEntry(f, req, FirstOf(stops))

-----------------------------------------------------------------------------
(* Mutant of EmptyAnswers: two entries too far.                            *)
EmptyAnswersLate(f, i) ==
  LET entries == f.dir[f.inode[i].block[0]]
  IN  IF ~IsDir(f, i) THEN {FALSE}
      ELSE IF Len(entries) >= 5 THEN {entries[5].ino = 0}
      ELSE BOOLEAN

(* is_directory_empty looks at the third entry of the first block.  When   *)
(* the entries before it fill the block, it reads the part of its buffer   *)
(* behind the block, which nobody wrote, and the answer is either one.     *)
EmptyAnswers(f, i) ==
  LET entries == f.dir[f.inode[i].block[0]]
  IN  IF ~IsDir(f, i) THEN {FALSE}
      ELSE IF Len(entries) >= 3 THEN {entries[3].ino = 0}
      ELSE BOOLEAN

DeleteRequests == [parent : Inodes, name : Names, type : Kinds]

(* Mutant of RemoveEntry: the entry after it goes, too.                    *)
RemoveEntryGreedy(f, d, p) ==
  LET b   == f.inode[d].block[p[1]]
      old == f.dir[b]
  IN  PutDir(f, b, SubSeq(old, 1, p[2] - 1))

(* Mutant of RemoveEntry: the length of the entry is lost.                 *)
RemoveEntryNoMerge(f, d, p) ==
  LET b   == f.inode[d].block[p[1]]
      old == f.dir[b]
  IN  PutDir(f, b, SubSeq(old, 1, p[2] - 1) \o SubSeq(old, p[2] + 1, Len(old)))

(* The entry at p goes: its length to the one before it, or, when it is    *)
(* the first of its block, only its inode number.                          *)
RemoveEntry(f, d, p) ==
  LET b   == f.inode[d].block[p[1]]
      old == f.dir[b]
      k   == p[2]
  IN  PutDir(f, b,
        IF k = 1
        THEN [old EXCEPT ![1] = [old[1] EXCEPT !.ino = 0]]
        ELSE SubSeq(old, 1, k - 2)
               \o <<[old[k - 1] EXCEPT !.len = old[k - 1].len + old[k].len]>>
               \o SubSeq(old, k + 1, Len(old)))

(* The possible outcomes of delete: empty is the answer it gets.           *)
DeleteResult(f, req, empty) ==
  LET found == Named(f, req.parent, req.name)
      p     == FirstOf(found)
      e     == EntryAt(f, req.parent, p)
      done  == RemoveEntry(DeallocateNode(f, e.ino), req.parent, p)
  IN  IF ~IsDir(f, req.parent) THEN [fs |-> f, code |-> -1]
      ELSE IF found = {} \/ e.type # req.type THEN [fs |-> f, code |-> 1]
      ELSE IF req.type = "dir" /\ ~empty THEN [fs |-> f, code |-> 2]
      ELSE [fs |-> SyncMetadata(done), code |-> 0]

(* read: the code, and the data as far as the pointers go.                 *)
FileData(f, i) ==
  LET there == {j \in 1 .. f.inode[i].blocks : \A k \in 1 .. j : BlockOf(f, i, k) # Null}
  IN  [j \in 1 .. Cardinality(there) |-> f.data[BlockOf(f, i, j)]]

ReadResult(f, d, name, room) ==
  LET found == Named(f, d, name)
      e     == EntryAt(f, d, FirstOf(found))
      failed(code) == [code |-> code, data |-> <<>>]
  IN  IF ~IsDir(f, d) THEN failed(-1)
      ELSE IF found = {} THEN failed(2)
      ELSE IF e.type # "reg" THEN failed(1)
      ELSE IF f.inode[e.ino].blocks > room THEN failed(-1)
      ELSE [code |-> 0, data |-> FileData(f, e.ino)]

(* read_directory: the code, and the first block of the directory.         *)
DirectoryResult(f, d, name) ==
  LET found == Named(f, d, name)
      e     == EntryAt(f, d, FirstOf(found))
      failed(code) == [code |-> code, entries |-> <<>>]
  IN  IF ~IsDir(f, d) THEN failed(-1)
      ELSE IF found = {} THEN failed(2)
      ELSE IF e.type # "dir" THEN failed(1)
      ELSE IF f.inode[e.ino].blocks = 0 THEN failed(-1)
      ELSE [code |-> 0, entries |-> f.dir[f.inode[e.ino].block[0]]]

-----------------------------------------------------------------------------
Target(f, req) == EntryAt(f, req.parent, FirstOf(Named(f, req.parent, req.name))).ino

Answers(f, req) ==
  IF req.type = "dir" /\ IsDir(f, req.parent) /\ Named(f, req.parent, req.name) # {}
  THEN EmptyAnswers(f, Target(f, req))
  ELSE {TRUE}

-----------------------------------------------------------------------------
(* create_ext2 and the caching of what it wrote.  It counts every block of *)
(* the disk that it does not use as free.                                  *)
RootBlock == FirstData(0)
Formatted ==
  LET free(g) == BlocksPerGroup - Cardinality(InGroup(Meta \cup {RootBlock}, g))
      count   == [blocks  |-> [g \in Groups |-> free(g)],
                  inodes  |-> [g \in Groups |-> IF g = 0 THEN InodesPerGroup - 1 ELSE InodesPerGroup],
                  dirs    |-> [g \in Groups |-> IF g = 0 THEN 1 ELSE 0],
                  sblocks |-> DiskBlocks - Cardinality(Meta \cup {RootBlock}),
                  sinodes |-> GroupCount * InodesPerGroup - 1]
  IN  [bmap  |-> [b \in Blocks |-> b \in Meta \cup {RootBlock}],
       imap  |-> [i \in Inodes |-> i = Root],
       inode |-> [i \in Inodes |->
                    IF i = Root
                    THEN [mode |-> "dir", blocks |-> 1, block |-> [Zeroed.block EXCEPT ![0] = RootBlock]]
                    ELSE Zeroed],
       dir   |-> [b \in Blocks |-> IF b = RootBlock THEN DirTable(Root, Root) ELSE <<>>],
       data  |-> [b \in Blocks |-> NoData],
       ptr   |-> [b \in Blocks |-> <<>>],
       count |-> count,
       saved |-> count]

Init == fs = Formatted

(* System calls 2 and 3.                                                   *)
Write(req) ==
  LET f == WriteResult(fs, req).fs
  IN  f.inode[req.parent].blocks <= DirMax /\ fs' = f
Delete(req) == \E empty \in Answers(fs, req) : fs' = DeleteResult(fs, req, empty).fs

(* The machine is switched off between two calls and on again: the storage *)
(* is not empty, so the counts are read back from it.                      *)
Reboot == fs' = [fs EXCEPT !.count = fs.saved]

Next ==
  \/ \E req \in WriteRequests : Write(req)
  \/ \E req \in DeleteRequests : Delete(req)
  \/ Reboot

Spec == Init /\ [][Next]_fs

-----------------------------------------------------------------------------
(* The blocks that an inode points to, directly or through pointer blocks. *)
OwnedBlocks(f, i) ==
  LET at == f.inode[i].block
      pointers(b) == IF b = Null THEN {} ELSE {f.ptr[b][k] : k \in DOMAIN f.ptr[b]}
  IN  ({at[s] : s \in Slots} \cup pointers(at[Direct]) \cup pointers(at[Direct + 1])
        \cup UNION {pointers(b) : b \in pointers(at[Direct + 1])})
      \ {Null}

InUse == {i \in Inodes : fs.imap[i]}
Dirs  == {d \in InUse : IsDir(fs, d)}

(* The entries that name children.                                         *)
Links(f, d) ==
  {p \in Places(f, d) : EntryAt(f, d, p).ino # 0 /\ EntryAt(f, d, p).name \in Names}

(* What a name in a directory stands for: what read and read_directory     *)
(* make of the first entry with the name.                                  *)
Absent == [type |-> "none", ino |-> 0, data |-> <<>>]
Lookup(f, d, name) ==
  IF Named(f, d, name) = {} THEN Absent
  ELSE LET e == EntryAt(f, d, FirstOf(Named(f, d, name)))
       IN  [type |-> e.type, ino |-> e.ino,
            data |-> IF e.type = "reg" THEN FileData(f, e.ino) ELSE <<>>]

TypeOK == fs \in FsType

(* The blocks an inode in use points to, through its pointer blocks, too,  *)
(* are marked and are not the file system's own, and no block belongs to   *)
(* two inodes: no allocation gives away what something still uses          *)
(* (ext2.c:81-118, 836-975, 1106-1379).                                    *)
BlocksOwned ==
  /\ \A i \in InUse : \A b \in OwnedBlocks(fs, i) : fs.bmap[b] /\ b \notin Meta
  /\ \A i, j \in InUse : i # j => OwnedBlocks(fs, i) \cap OwnedBlocks(fs, j) = {}

(* A marked block belongs to some inode in use: what a file took, pointer  *)
(* blocks of a write that ran out of space included, deletion gives back   *)
(* (ext2.c:836-975).                                                       *)
NoBlockLost ==
  \A b \in Blocks \ Meta : fs.bmap[b] => \E i \in InUse : b \in OwnedBlocks(fs, i)

ClearIn(g) == {b \in InGroup(Blocks, g) : ~fs.bmap[b]}

(* The cached counts agree with the bitmaps and the inodes, group by group *)
(* and in the superblock, which counts what lies beyond the groups as free *)
(* (ext2.c:93-97, 808-834, 836-975).                                       *)
CountsExact ==
  /\ \A g \in Groups :
       /\ fs.count.blocks[g] = Cardinality(ClearIn(g))
       /\ fs.count.inodes[g] = Cardinality({i \in Inodes \ InUse : inode_to_bgd(i) = g})
       /\ fs.count.dirs[g]   = Cardinality({d \in Dirs : inode_to_bgd(d) = g})
  /\ fs.count.sinodes = Cardinality(Inodes \ InUse)
  /\ fs.count.sblocks = DiskBlocks - Cardinality({b \in Blocks : fs.bmap[b]})

(* Every call leaves the counts on the disk as they are in memory, so that *)
(* switching the machine off between calls loses none of them              *)
(* (ext2.c:71-79 and its callers).                                         *)
CountsSaved == fs.saved = fs.count

AllLinks == UNION {{<<d, p>> : p \in Links(fs, d)} : d \in Dirs}
EntryOn(l) == EntryAt(fs, l[1], l[2])

(* Every entry names an inode in use of its type, no inode is named twice, *)
(* and a directory's ".." is the directory its entry is in (ext2.c:129-149,*)
(* 515-806).                                                               *)
EntriesTrue ==
  /\ \A l \in AllLinks : EntryOn(l).ino \in InUse /\ fs.inode[EntryOn(l).ino].mode = EntryOn(l).type
  /\ \A l, k \in AllLinks : EntryOn(l).ino = EntryOn(k).ino => l = k
  /\ \A l \in AllLinks : EntryOn(l).type = "dir" =>
       \E p \in Places(fs, EntryOn(l).ino) :
         /\ EntryAt(fs, EntryOn(l).ino, p).name = DotDot
         /\ EntryAt(fs, EntryOn(l).ino, p).ino = l[1]

NoOrphan == \A i \in InUse \ {Root} : \E l \in AllLinks : EntryOn(l).ino = i

(* The tree: entries are true, and every inode in use but the root has     *)
(* one (ext2.c:515-806).                                                   *)
TreeExact == EntriesTrue /\ NoOrphan

LenUpTo(entries) ==
  LET sum[k \in 0 .. Len(entries)] == IF k = 0 THEN 0 ELSE sum[k - 1] + entries[k].len
  IN  sum[Len(entries)]

(* The records of a directory block fill it exactly and none overlaps the  *)
(* next, after any insertions, removals and merges, and the first block    *)
(* begins with "." (ext2.c:559-600, 778-798).                              *)
RecordsFit ==
  \A d \in Dirs : \A bi \in DirBlocks(fs, d) :
    LET entries == fs.dir[fs.inode[d].block[bi]]
    IN  /\ LenUpTo(entries) = BlockLen
        /\ \A k \in 1 .. Len(entries) : Hole(entries[k]) >= 0
        /\ bi = 0 => entries[1].name = Dot /\ entries[1].ino = d

(* What a name stands for changes only in a call that names it: no write,  *)
(* deletion or restart touches the inode, the type or the data behind any  *)
(* other name (ext2.c:515-806).                                            *)
OthersKept ==
  [][\A d \in Dirs, n \in Names :
       (fs' # fs /\ IsDir(fs', d) /\ Lookup(fs', d, n) # Lookup(fs, d, n))
         => \E req \in WriteRequests \cup DeleteRequests :
              /\ req.parent = d /\ req.name = n
              /\ req \in WriteRequests => Write(req)
              /\ req \in DeleteRequests => Delete(req)]_fs

Accepted(req) == fs' # fs /\ Write(req) /\ WriteResult(fs, req).code = 0

Stored(req) ==
  LET l == Lookup(fs', req.parent, req.name)
  IN  /\ l.ino # 0 /\ l.type = req.type /\ fs'.inode[l.ino].mode = req.type
      /\ req.type = "reg" => l.data = [j \in 1 .. req.size |-> <<req.data, j>>]

HasRoom(req) ==
  Cardinality(FreeFrom(fs, inode_to_bgd(NewInode(fs)))) > TurnsFor(req.size)

(* A write that returns 0, with room for its blocks in the groups it looks *)
(* in, can be read back: every block of the data, in its order, through    *)
(* direct, indirect and doubly indirect pointers (ext2.c:437-512, 1106-    *)
(* 1379); ext2.h:330 "Error code: 0 success".                              *)
AcceptedIsStored ==
  [][\A req \in WriteRequests : (Accepted(req) /\ HasRoom(req)) => Stored(req)]_fs

(* A directory that has children is not deleted (ext2.c:265-288, 755-765); *)
(* ext2.h:337 "2 folder is not empty".                                     *)
NotEmptyKept ==
  [][\A d \in Dirs : Links(fs, d) # {} => fs'.imap[d]]_fs
=============================================================================
