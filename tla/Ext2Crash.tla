------------------------------ MODULE Ext2Crash ------------------------------
(***************************************************************************)
(* The file system driver on a machine that may be switched off between    *)
(* any two disk writes of a call, and what its calls promise: it           *)
(* implements FileStore.  A cut is the disk as such a moment leaves it.    *)
(***************************************************************************)
EXTENDS Ext2

CONSTANT CrashMax   \* bound: how many writes are cut off

VARIABLE crashed    \* how many have been

vars == <<fs, crashed>>

(* new, with the counts on the disk still those of old.                    *)
Unsaved(new, old) == [new EXCEPT !.saved = old.saved]

(* sync_metadata writes the superblock, then the descriptors.              *)
Saving(f) ==
  {f, [f EXCEPT !.saved = [f.saved EXCEPT !.sblocks = f.count.sblocks,
                                          !.sinodes = f.count.sinodes]],
   SyncMetadata(f)}

(* The k lowest of the blocks B.                                           *)
Lowest(B, k) == {b \in B : Cardinality({y \in B : y <= b}) <= k}

(* An inode is taken and filled in f: its bit, the bits of its blocks one  *)
(* by one, their contents, which nothing points to yet, the inode.         *)
FillCuts(f, i, req) ==
  LET taken == TakeInode(f, i)
      full  == FillInode(taken, i, req)
      B     == {b \in Blocks : full.bmap[b] /\ ~taken.bmap[b]}
  IN  Saving(Unsaved(taken, f))
        \cup {TakeBlocks(taken, Lowest(B, k)) : k \in 0 .. Cardinality(B)}
        \cup Saving(TakeBlocks(taken, B))
        \cup {full}

(* Mutant of WriteCuts: the directory is written before the inode.         *)
WriteCutsEntryFirst(f, req) ==
  LET done  == WriteResult(f, req)
      i     == NewInode(f)
      taken == TakeInode(f, i)
      d     == req.parent
  IN  IF done.code # 0 THEN {done.fs}
      ELSE FillCuts(f, i, req)
             \cup {[taken EXCEPT !.dir = [taken.dir EXCEPT
                      ![f.inode[d].block[0]] = done.fs.dir[f.inode[d].block[0]]]]}

(* A growing directory's new block is marked first; the entry, or the      *)
(* parent that points to the block with the entry, is written when the     *)
(* inode is; last, the counts.                                             *)
WriteCuts(f, req) ==
  LET done   == WriteResult(f, req)
      d      == req.parent
      grows  == done.fs.inode[d].blocks > f.inode[d].blocks
      marked == IF grows THEN TakeBlocks(f, {LeastOf(FreeFrom(f, inode_to_bgd(d)))}) ELSE f
      full   == FillInode(TakeInode(marked, NewInode(marked)), NewInode(marked), req)
  IN  IF done.code # 0 THEN {done.fs}
      ELSE {marked} \cup FillCuts(marked, NewInode(marked), req)
             \cup Saving([Unsaved(done.fs, full) EXCEPT !.count = full.count])
             \cup Saving(Unsaved(done.fs, full))

(* Mutant of DeleteCuts: the whole block of the inode table is cleared.    *)
DeleteCutsWide(f, req) ==
  LET i    == Target(f, req)
      done == DeleteResult(f, req, TRUE)
  IN  IF done.code # 0 \/ TRUE \notin Answers(f, req) THEN {f}
      ELSE {[f EXCEPT !.inode =
               [j \in Inodes |-> IF TableBlock(j) = TableBlock(i) THEN Zeroed ELSE f.inode[j]]],
            done.fs}

(* deallocate_node clears the bits of the blocks one by one, then the      *)
(* inode, then its bit; last the entry is removed.                         *)
DeleteCuts(f, req) ==
  LET i       == Target(f, req)
      unmark(B) == [f EXCEPT !.bmap = [b \in Blocks |-> f.bmap[b] /\ b \notin B]]
      cleared == [ReleaseBlocks(f, Freed(f, i)) EXCEPT !.inode = [f.inode EXCEPT ![i] = Zeroed]]
      freed   == DeallocateNode(f, i)
      done    == DeleteResult(f, req, TRUE)
  IN  IF done.code # 0 \/ TRUE \notin Answers(f, req) THEN {f}
      ELSE {unmark(B) : B \in SUBSET Freed(f, i)}
             \cup {Unsaved(cleared, f)} \cup Saving(Unsaved(freed, f))
             \cup {done.fs}

(* The inodes that an entry names, and those that a cut has left without.  *)
Linked(f)  ==
  {Root} \cup UNION {{EntryAt(f, d, p).ino : p \in Links(f, d)} : d \in {j \in Inodes : f.imap[j]}}
Orphans(f) == {i \in Inodes : f.imap[i]} \ Linked(f)

CrashInit == Init /\ crashed = 0

(* A program knows the numbers of directories from entries.                *)
Asked(req) == req.parent \notin Orphans(fs)

CutOff(req) ==
  /\ crashed < CrashMax
  /\ \E f \in WriteCuts(fs, req) :
       /\ f.inode[req.parent].blocks <= DirMax
       /\ fs' = [f EXCEPT !.count = f.saved]
  /\ crashed' = crashed + 1

CrashNext ==
  \/ \E req \in WriteRequests : Asked(req) /\ Write(req) /\ UNCHANGED crashed
  \/ \E req \in DeleteRequests : Asked(req) /\ Delete(req) /\ UNCHANGED crashed
  \/ \E req \in WriteRequests : Asked(req) /\ CutOff(req)
  \/ Reboot /\ UNCHANGED crashed

CrashSpec == CrashInit /\ [][CrashNext]_vars

-----------------------------------------------------------------------------
(* The tree that the disk stands for.                                      *)

EntrySeen(f, e) ==
  [type |-> e.type, id |-> e.ino,
   size |-> IF e.type = "reg" THEN f.inode[e.ino].blocks ELSE 0,
   data |-> IF e.type = "reg" THEN FileData(f, e.ino) ELSE <<>>]

(* A scan of a directory meets p before q.                                 *)
Before(p, q)  == p[1] < q[1] \/ (p[1] = q[1] /\ p[2] < q[2])
Ranked(P, k)  == {p \in P : Cardinality({q \in P : Before(q, p)}) = k - 1}

TheOne(S) == CHOOSE x \in S : TRUE

(* The entries at the places P, in the order in which a scan meets them.   *)
Stack(f, d, P) ==
  [k \in 1 .. Cardinality(P) |-> TheOne({EntrySeen(f, EntryAt(f, d, p)) : p \in Ranked(P, k)})]

TreeOf(f) ==
  [d \in Inodes |-> [n \in Names |->
     IF f.imap[d] /\ IsDir(f, d) THEN Stack(f, d, Named(f, d, n)) ELSE <<>>]]

DataOf(req) == [j \in 1 .. req.size |-> <<req.data, j>>]

Store == INSTANCE FileStore
  WITH Ids <- Inodes, RootId <- Root, Cells <- Datas \X Nat,
       Contents <- {[j \in 1 .. s |-> <<v, j>>] : s \in Sizes, v \in Datas},
       tree <- TreeOf(fs)

(* The driver, switched off between any two of its writes to the disk, is  *)
(* a file store: a write that is cut off has stored its name and all that  *)
(* is behind it, or nothing, and no other name notices (ext2.c:564-602).   *)
StoreImplemented == Store!StoreSpec

Result(r) == [tree |-> TreeOf(r.fs), code |-> r.code]

WritePromised(t, req) ==
  Result(WriteResult(fs, req))
    \in Store!WriteOutcomes(t, req.parent, req.name, req.type, DataOf(req))

DeletePromised(t, req) ==
  \A empty \in Answers(fs, req) :
    Result(DeleteResult(fs, req, empty))
      \in Store!DeleteOutcomes(t, req.parent, req.name, req.type)

ReadPromised(t, d, n, room) ==
  LET r == ReadResult(fs, d, n, room)
  IN  /\ r.code = Store!ReadCode(t, d, n, room)
      /\ r.code = 0 => r.data = t[d][n][1].data

ListPromised(t, d) == DirectoryResult(fs, d, Dot).code = Store!ListCode(t, d)

(* read and read_directory answer what the tree holds under a name: its    *)
(* data if there is room for them, or the code that says why not           *)
(* (ext2.c:290-512).                                                       *)
ReadsPromised ==
  LET t == TreeOf(fs)
  IN  \A d \in Inodes \ Orphans(fs) :
        ListPromised(t, d) /\ \A n \in Names, room \in Sizes : ReadPromised(t, d, n, room)

(* What a call does and the code it returns belong together as FileStore   *)
(* has them, in every state and for every request: write and delete with   *)
(* their refusals, read and read_directory (ext2.c:290-806).               *)
CallsPromised ==
  LET t == TreeOf(fs)
  IN  /\ \A req \in WriteRequests : Asked(req) => WritePromised(t, req)
      /\ \A req \in DeleteRequests : Asked(req) => DeletePromised(t, req)
      /\ ReadsPromised

(* Whatever a deletion that is cut off does to the name it was to remove,  *)
(* every other name is as it was (ext2.c:784-803, 836-975).                *)
DeleteCutsOthersKept ==
  \A req \in DeleteRequests : \A f \in DeleteCuts(fs, req) :
    \A d \in Dirs, n \in Names :
      (d # req.parent \/ n # req.name) => Lookup(f, d, n) = Lookup(fs, d, n)

(* A write that is cut off may leave marked what nothing uses, but until   *)
(* then nothing is lost and the counts are those of the bitmaps; after it  *)
(* the counts may promise too much and never too little (ext2.c:71-154).   *)
OnlyWriteCutsLose ==
  /\ crashed = 0 => CountsExact /\ NoBlockLost /\ NoOrphan
  /\ \A g \in Groups :
       /\ fs.count.blocks[g] >= Cardinality(ClearIn(g))
       /\ fs.count.inodes[g] >= Cardinality({i \in Inodes \ InUse : inode_to_bgd(i) = g})
=============================================================================
