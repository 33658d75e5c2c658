--------------------------- MODULE ProcessProofs ---------------------------
(***************************************************************************)
(* The safety of processes and their address spaces, for every number of   *)
(* processes, frames and directories and every set of requests.  The page  *)
(* manager comes first; what is said of it rests on the assumptions of     *)
(* Paging alone.                                                           *)
(***************************************************************************)
EXTENDS Process, FiniteSetTheorems, WellFoundedInduction, TLAPS

-----------------------------------------------------------------------------
(* The page manager: what its operators preserve.                          *)

(* Least is a minimum on every nonempty set of naturals: the loops that    *)
(* look for the first free frame or unused directory find one.             *)
LEMMA LeastIsMinimum ==
  ASSUME NEW S \in SUBSET Nat, S # {}
  PROVE  Least(S) \in S /\ \A y \in S : Least(S) <= y
<1> DEFINE R  == StrictSubsetOrdering(Nat)
           F  == FiniteSubsetsOf(Nat)
           Up == {0 .. n : n \in S}
<1>1. IsWellFoundedOn(R, F)
  BY FS_StrictSubsetOrderingWellFounded
<1>2. Up \subseteq F /\ Up # {}
  <2>1. \A n \in Nat : IsFiniteSet(0 .. n) /\ 0 .. n \in SUBSET Nat
    BY FS_Interval
  <2>2. QED BY <2>1 DEF FiniteSubsetsOf
<1>3. PICK x \in Up : \A y \in Up : <<y, x>> \notin R
  <2> HIDE DEF R, F, Up
  <2> QED BY <1>1, <1>2, WFMin, Zenon
<1>4. PICK n \in S : x = 0 .. n
  OBVIOUS
<1>5. \A y \in S : n <= y
  <2> SUFFICES ASSUME NEW y \in S, y < n PROVE FALSE
    OBVIOUS
  <2>1. 0 .. y \subseteq 0 .. n /\ 0 .. y # 0 .. n /\ 0 .. y \in SUBSET Nat /\ 0 .. n \in SUBSET Nat
    OBVIOUS
  <2>2. <<0 .. y, x>> \in R
    BY <2>1, <1>4 DEF StrictSubsetOrdering
  <2> QED BY <1>3, <2>2
<1> QED BY <1>5 DEF Least

(* The shape of a page-manager state, its isolation and its marks; frame 0 *)
(* stays the kernel's.                                                     *)
MemInv(m) ==
  /\ m \in MemType
  /\ Isolated(m)
  /\ Marked(m)
  /\ Counted(m)
  /\ m.map[0]

LEMMA StaticMemInv == MemInv(StaticMem)
<1> DEFINE m == StaticMem
<1> USE PagingAssumption DEF Frames, NoFrame
<1>1. m \in MemType
  BY DEF StaticMem, MemType, Dirs, PoolDirs, KernelDir
<1>2. /\ m.map = [f \in Frames |-> f = 0]
      /\ m.free = FrameCount - 1
      /\ m.used = [d \in PoolDirs |-> FALSE]
      /\ m.page = [d \in Dirs |-> [u \in UserPages |->
                     IF d = KernelDir /\ u = LowPage THEN 0 ELSE NoFrame]]
      /\ m.kernel = [d \in Dirs |-> d = KernelDir]
  BY DEF StaticMem
<1> HIDE DEF m
<1>3. \A f \in Frames : m.map[f] <=> f = 0
  BY <1>2
<1>4. \A d \in Dirs : \A u \in UserPages :
        m.page[d][u] = IF d = KernelDir /\ u = LowPage THEN 0 ELSE NoFrame
  BY <1>2
<1>5. \A d \in PoolDirs : d \in Dirs /\ d # KernelDir
  BY DEF Dirs, PoolDirs, KernelDir
<1>6. Isolated(m)
  BY <1>4 DEF Isolated
<1>7. Marked(m) /\ m.map[0]
  <2>1. \A d \in PoolDirs : ~m.kernel[d] /\ \A u \in UserPages : m.page[d][u] = NoFrame
    BY <1>2, <1>4, <1>5
  <2>2. 0 \in Frames /\ m.map[0]
    BY <1>3
  <2>3. \A d \in Dirs : \A u \in UserPages : m.page[d][u] # NoFrame => m.page[d][u] = 0
    BY <1>4
  <2> QED BY <2>1, <2>2, <2>3 DEF Marked
<1>8. Counted(m)
  <2>1. {f \in Frames : ~m.map[f]} = 1 .. FrameCount - 1
    BY <1>3
  <2>2. Cardinality(1 .. FrameCount - 1) = FrameCount - 1
    BY FS_Interval
  <2> QED BY <1>2, <2>1, <2>2 DEF Counted
<1> QED BY <1>1, <1>6, <1>7, <1>8 DEF MemInv, m

(* paging_allocate_user_page_frame maps a frame nobody maps.               *)
LEMMA AllocateMemInv ==
  ASSUME NEW m, MemInv(m), NEW d \in Dirs, NEW u \in UserPages,
         d = KernelDir \/ m.used[d]
  PROVE  LET n == AllocateUserPageFrame(m, d, u)
         IN  /\ MemInv(n)
             /\ n.used = m.used /\ n.kernel = m.kernel /\ n.cr3 = m.cr3
             /\ \A e \in Dirs : e # d => n.page[e] = m.page[e]
             /\ \A v \in UserPages : v # u => n.page[d][v] = m.page[d][v]
             /\ m.free = 0 => n = m
             /\ m.free > 0 => n.free = m.free - 1 /\ n.page[d][u] # NoFrame
<1> DEFINE n == AllocateUserPageFrame(m, d, u)
           f == Least(FreeFrames(m))
<1> USE PagingAssumption DEF Frames, NoFrame
<1>0. m \in MemType /\ m.free \in Nat /\ m.map \in [Frames -> BOOLEAN]
  BY DEF MemInv, MemType
<1>1. FreeFrames(m) = {g \in Frames : ~m.map[g]} /\ FreeFrames(m) \in SUBSET Nat
  BY DEF MemInv, FreeFrames
<1>2. IsFiniteSet(FreeFrames(m)) /\ Cardinality(FreeFrames(m)) = m.free
  <2>1. IsFiniteSet(Frames)
    BY FS_Interval
  <2> QED BY <1>1, <2>1, FS_Subset DEF MemInv, Counted
<1>3. CASE m.free = 0
  BY <1>3, <1>0 DEF AllocateUserPageFrame
<1>4. CASE m.free > 0
  <2>1. FreeFrames(m) # {}
    BY <1>2, <1>4, FS_EmptySet
  <2>2. f \in Frames /\ f # 0 /\ ~m.map[f]
    <3>1. f \in FreeFrames(m)
      BY <2>1, <1>1, LeastIsMinimum
    <3> QED BY <3>1 DEF FreeFrames
  <2> HIDE DEF f
  <2>3. n = [m EXCEPT !.map = [m.map EXCEPT ![f] = TRUE],
                      !.page = WithEntry(m.page, d, u, f),
                      !.free = m.free - 1]
    BY <1>0, <1>4, <2>1 DEF AllocateUserPageFrame, f
  <2> HIDE DEF n
  <2>4. /\ n.map = [m.map EXCEPT ![f] = TRUE]
        /\ n.free = m.free - 1
        /\ n.page = [m.page EXCEPT ![d] = [m.page[d] EXCEPT ![u] = f]]
        /\ n.used = m.used /\ n.kernel = m.kernel /\ n.cr3 = m.cr3
    BY <1>0, <2>3 DEF MemType, WithEntry
  <2>5. n \in MemType
    <3>1. n.map \in [Frames -> BOOLEAN] /\ n.free \in Nat
      BY <1>0, <1>4, <2>2, <2>4
    <3>2. n.page \in [Dirs -> [UserPages -> Frames \cup {NoFrame}]]
      BY <1>0, <2>2, <2>4 DEF MemType
    <3> QED BY <1>0, <2>3, <2>4, <3>1, <3>2 DEF MemType
  <2>6. \A e \in Dirs : \A v \in UserPages :
          n.page[e][v] = IF e = d /\ v = u THEN f ELSE m.page[e][v]
    BY <1>0, <2>4 DEF MemType
  <2>7. \A e \in Dirs : \A v \in UserPages : m.page[e][v] # f
    BY <2>2 DEF MemInv, Marked
  <2>8. Isolated(n)
    BY <2>6, <2>7 DEF Isolated, MemInv
  <2>9. Marked(n)
    <3>1. \A e \in Dirs : \A v \in UserPages :
            m.page[e][v] # NoFrame => m.page[e][v] \in Frames
      BY <1>0 DEF MemType
    <3>2. \A e \in Dirs : \A v \in UserPages : n.page[e][v] # NoFrame => n.map[n.page[e][v]]
      BY <1>0, <2>2, <2>4, <2>6, <3>1 DEF Marked, MemInv
    <3>3. \A e \in PoolDirs : ~n.used[e] => e # d
      BY <2>4 DEF PoolDirs, KernelDir
    <3> QED BY <2>4, <2>6, <3>2, <3>3 DEF Marked, MemInv, Dirs
  <2>10. Counted(n) /\ n.map[0]
    <3>1. {g \in Frames : ~n.map[g]} = FreeFrames(m) \ {f}
      BY <1>0, <1>1, <2>2, <2>4 DEF MemInv
    <3>2. Cardinality(FreeFrames(m) \ {f}) = m.free - 1
      BY <1>2, <2>2, <1>1, FS_RemoveElement
    <3>3. n.map[0]
      BY <1>0, <2>2, <2>4 DEF MemInv
    <3> QED BY <2>4, <3>1, <3>2, <3>3 DEF Counted
  <2>11. /\ \A e \in Dirs : e # d => n.page[e] = m.page[e]
         /\ \A v \in UserPages : v # u => n.page[d][v] = m.page[d][v]
         /\ n.page[d][u] # NoFrame
    BY <1>0, <2>2, <2>4, <2>6 DEF MemType
  <2> QED BY <1>4, <2>4, <2>5, <2>8, <2>9, <2>10, <2>11 DEF MemInv, n
<1> QED BY <1>0, <1>3, <1>4

(* paging_create_new_page_directory gives out an unused directory, empty   *)
(* but for the kernel.                                                     *)
LEMMA CreateMemInv ==
  ASSUME NEW m, MemInv(m)
  PROVE  LET n == CreateNewPageDirectory(m)
             d == NewDir(m)
         IN  /\ MemInv(n)
             /\ n.map = m.map /\ n.free = m.free /\ n.page = m.page /\ n.cr3 = m.cr3
             /\ d = NullDir => n = m
             /\ d # NullDir =>
                  /\ d \in PoolDirs /\ ~m.used[d] /\ n.used[d] /\ n.kernel[d]
                  /\ \A u \in UserPages : n.page[d][u] = NoFrame
             /\ \A e \in PoolDirs : e # d => n.used[e] = m.used[e]
             /\ \A e \in Dirs : e # d => n.kernel[e] = m.kernel[e]
<1> DEFINE n == CreateNewPageDirectory(m)
           d == NewDir(m)
<1>0. m \in MemType /\ m.used \in [PoolDirs -> BOOLEAN] /\ m.kernel \in [Dirs -> BOOLEAN]
  BY DEF MemInv, MemType
<1>1. CASE UnusedDirs(m) = {}
  BY <1>0, <1>1 DEF CreateNewPageDirectory, NewDir
<1>2. CASE UnusedDirs(m) # {}
  <2>1. d \in PoolDirs /\ ~m.used[d] /\ d # NullDir /\ d \in Dirs
    <3>1. UnusedDirs(m) \in SUBSET Nat
      BY PagingAssumption DEF UnusedDirs, PoolDirs
    <3>2. d \in UnusedDirs(m)
      BY <1>2, <3>1, LeastIsMinimum DEF NewDir
    <3> QED BY <3>2 DEF UnusedDirs, PoolDirs, NullDir, Dirs
  <2>2. n = [m EXCEPT !.used = [m.used EXCEPT ![d] = TRUE],
                      !.kernel = [m.kernel EXCEPT ![d] = TRUE]]
    BY <1>2 DEF CreateNewPageDirectory
  <2> HIDE DEF n, d
  <2>3. /\ n.map = m.map /\ n.free = m.free /\ n.page = m.page /\ n.cr3 = m.cr3
        /\ n.used = [m.used EXCEPT ![d] = TRUE]
        /\ n.kernel = [m.kernel EXCEPT ![d] = TRUE]
    BY <1>0, <2>2 DEF MemType
  <2>4. n.used \in [PoolDirs -> BOOLEAN] /\ n.kernel \in [Dirs -> BOOLEAN]
    BY <1>0, <2>1, <2>3
  <2>5. n \in MemType
    BY <1>0, <2>2, <2>3, <2>4 DEF MemType
  <2>6. Isolated(n) /\ Counted(n) /\ n.map[0]
    BY <2>3 DEF Isolated, Counted, MemInv
  <2>7. Marked(n)
    <3>1. \A e \in PoolDirs : e \in Dirs
      BY DEF Dirs
    <3>2. \A e \in PoolDirs : ~n.used[e] => ~m.used[e] /\ (n.kernel[e] <=> m.kernel[e])
      BY <1>0, <2>1, <2>3, <3>1
    <3>3. \A e \in PoolDirs : ~m.used[e] =>
            ~m.kernel[e] /\ \A u \in UserPages : m.page[e][u] = NoFrame
      BY DEF MemInv, Marked
    <3>4. \A e \in Dirs : \A u \in UserPages :
            m.page[e][u] # NoFrame => m.map[m.page[e][u]]
      BY DEF MemInv, Marked
    <3>5. \A e \in PoolDirs : ~n.used[e] =>
            ~n.kernel[e] /\ \A u \in UserPages : n.page[e][u] = NoFrame
      BY <2>3, <3>2, <3>3
    <3> QED BY <2>3, <3>4, <3>5 DEF Marked
  <2>8. \A u \in UserPages : n.page[d][u] = NoFrame
    BY <2>1, <2>3 DEF MemInv, Marked
  <2> QED
    BY <1>0, <2>1, <2>3, <2>4, <2>5, <2>6, <2>7, <2>8 DEF MemInv, n, d
<1> QED BY <1>1, <1>2

(* paging_free_page_directory empties a directory of the pool.             *)
LEMMA FreeDirMemInv ==
  ASSUME NEW m, MemInv(m), NEW d
  PROVE  LET n == FreePageDirectory(m, d)
         IN  /\ MemInv(n)
             /\ n.map = m.map /\ n.free = m.free /\ n.cr3 = m.cr3
             /\ \A e \in PoolDirs : e # d => n.used[e] = m.used[e]
             /\ \A e \in Dirs : e # d => n.kernel[e] = m.kernel[e] /\ n.page[e] = m.page[e]
<1> DEFINE n == FreePageDirectory(m, d)
<1>0. /\ m \in MemType /\ m.used \in [PoolDirs -> BOOLEAN] /\ m.kernel \in [Dirs -> BOOLEAN]
      /\ m.page \in [Dirs -> [UserPages -> Frames \cup {NoFrame}]]
  BY DEF MemInv, MemType
<1>1. CASE d \notin PoolDirs
  BY <1>1 DEF FreePageDirectory
<1>2. CASE d \in PoolDirs
  <2>1. n = [m EXCEPT !.used   = [m.used EXCEPT ![d] = FALSE],
                      !.page   = [m.page EXCEPT ![d] = [u \in UserPages |-> NoFrame]],
                      !.kernel = [m.kernel EXCEPT ![d] = FALSE]]
    BY <1>2 DEF FreePageDirectory
  <2> HIDE DEF n
  <2>2. /\ n.map = m.map /\ n.free = m.free /\ n.cr3 = m.cr3
        /\ n.used = [m.used EXCEPT ![d] = FALSE]
        /\ n.page = [m.page EXCEPT ![d] = [u \in UserPages |-> NoFrame]]
        /\ n.kernel = [m.kernel EXCEPT ![d] = FALSE]
    BY <1>0, <2>1 DEF MemType
  <2>3. d \in Dirs
    BY <1>2 DEF Dirs
  <2>4. /\ n.used \in [PoolDirs -> BOOLEAN] /\ n.kernel \in [Dirs -> BOOLEAN]
        /\ n.page \in [Dirs -> [UserPages -> Frames \cup {NoFrame}]]
    BY <1>0, <1>2, <2>2, <2>3
  <2>5. n \in MemType
    BY <1>0, <2>1, <2>2, <2>4 DEF MemType
  <2>6. /\ \A e \in PoolDirs : n.used[e] = (e # d /\ m.used[e])
        /\ \A e \in Dirs : n.kernel[e] = (e # d /\ m.kernel[e])
        /\ \A e \in Dirs : \A u \in UserPages :
             n.page[e][u] = IF e = d THEN NoFrame ELSE m.page[e][u]
    <3>1. \A e \in PoolDirs : n.used[e] = (e # d /\ m.used[e])
      BY <1>0, <1>2, <2>2
    <3>2. \A e \in Dirs : n.kernel[e] = (e # d /\ m.kernel[e])
      BY <1>0, <2>2, <2>3
    <3>3. \A e \in Dirs : \A u \in UserPages :
            n.page[e][u] = IF e = d THEN NoFrame ELSE m.page[e][u]
      BY <1>0, <2>2, <2>3
    <3> QED BY <3>1, <3>2, <3>3
  <2>7. Isolated(n)
    BY <2>6 DEF Isolated, MemInv
  <2>8. Marked(n)
    <3>1. \A e \in Dirs : \A u \in UserPages :
            n.page[e][u] # NoFrame => n.page[e][u] = m.page[e][u]
      BY <2>6
    <3>2. \A e \in PoolDirs : ~n.used[e] =>
            ~n.kernel[e] /\ \A u \in UserPages : n.page[e][u] = NoFrame
      <4>1. \A e \in PoolDirs : e \in Dirs
        BY DEF Dirs
      <4>2. \A e \in PoolDirs : ~m.used[e] =>
              ~m.kernel[e] /\ \A u \in UserPages : m.page[e][u] = NoFrame
        BY DEF MemInv, Marked
      <4> QED BY <2>6, <4>1, <4>2
    <3> QED BY <2>2, <3>1, <3>2 DEF Marked, MemInv
  <2>9. Counted(n) /\ n.map[0]
    BY <2>2 DEF Counted, MemInv
  <2>10. \A e \in Dirs : e # d => n.kernel[e] = m.kernel[e] /\ n.page[e] = m.page[e]
    BY <1>0, <2>2
  <2> QED BY <2>2, <2>5, <2>6, <2>7, <2>8, <2>9, <2>10, <1>0 DEF MemInv, n
<1> QED BY <1>1, <1>2

LEMMA UseMemInv ==
  ASSUME NEW m, MemInv(m), NEW d \in Dirs \cup {NullDir}
  PROVE  LET n == UsePageDirectory(m, d)
         IN  /\ MemInv(n)
             /\ n.map = m.map /\ n.free = m.free /\ n.used = m.used
             /\ n.page = m.page /\ n.kernel = m.kernel /\ n.cr3 = d
<1> DEFINE n == UsePageDirectory(m, d)
<1>1. m \in MemType
  BY DEF MemInv
<1>2. /\ n \in MemType
      /\ n.map = m.map /\ n.free = m.free /\ n.used = m.used
      /\ n.page = m.page /\ n.kernel = m.kernel /\ n.cr3 = d
  BY <1>1 DEF UsePageDirectory, MemType
<1> HIDE DEF n
<1>3. Isolated(n) /\ Marked(n) /\ Counted(n) /\ n.map[0]
  BY <1>2 DEF MemInv, Isolated, Marked, Counted
<1> QED BY <1>2, <1>3 DEF MemInv, n

(* Unmapping one page, with the index of the map that the code computes.   *)
LEMMA FreeUserPageMemInv ==
  ASSUME NEW m, MemInv(m), NEW d \in Dirs, NEW u \in UserPages
  PROVE  MemInv(FreeUserPageFrame(m, d, u))
<1> DEFINE n == FreeUserPageFrame(m, d, u)
<1> USE PagingAssumption DEF Frames, NoFrame
<1>0. /\ m \in MemType /\ m.map \in [Frames -> BOOLEAN]
      /\ m.page \in [Dirs -> [UserPages -> Frames \cup {NoFrame}]]
  BY DEF MemInv, MemType
<1>1. CASE m.page[d][u] = NoFrame
  BY <1>1 DEF FreeUserPageFrame
<1>2. CASE m.page[d][u] # NoFrame
  <2> DEFINE i == (m.page[d][u] \div FrameSize) - 1
  <2>1. i \notin Frames
    BY <1>0, <1>2, FrameNumberFits, SMT DEF FrameSize
  <2>2. n = [m EXCEPT !.map  = [f \in Frames |-> f # i /\ m.map[f]],
                      !.page = WithEntry(m.page, d, u, NoFrame)]
    BY <1>2 DEF FreeUserPageFrame
  <2> HIDE DEF n, i
  <2>3. n = [m EXCEPT !.page = WithEntry(m.page, d, u, NoFrame)]
    <3>1. [f \in Frames |-> f # i /\ m.map[f]] = m.map
      BY <1>0, <2>1
    <3> QED BY <1>0, <2>2, <3>1 DEF MemType
  <2>4. /\ n.map = m.map /\ n.free = m.free /\ n.used = m.used /\ n.kernel = m.kernel
        /\ n.page = WithEntry(m.page, d, u, NoFrame)
    BY <1>0, <2>3 DEF MemType
  <2>5. n.page \in [Dirs -> [UserPages -> Frames \cup {NoFrame}]]
    BY <1>0, <2>4 DEF WithEntry
  <2>6. n \in MemType
    BY <1>0, <2>3, <2>4, <2>5 DEF MemType
  <2>7. \A e \in Dirs : \A v \in UserPages :
          n.page[e][v] = IF e = d /\ v = u THEN NoFrame ELSE m.page[e][v]
    BY <1>0, <2>4 DEF WithEntry
  <2>8. Isolated(n)
    BY <2>7 DEF Isolated, MemInv
  <2>9. Marked(n)
    BY <2>4, <2>7 DEF Marked, MemInv, Dirs
  <2>10. Counted(n) /\ n.map[0]
    BY <2>4 DEF Counted, MemInv
  <2> QED BY <2>6, <2>8, <2>9, <2>10 DEF MemInv, n
<1> QED BY <1>1, <1>2

-----------------------------------------------------------------------------
LEMMA PagingInv == PagingSpec => []MemInv(mem)
<1>1. PagingInit => MemInv(mem)
  BY StaticMemInv DEF PagingInit
<1>2. MemInv(mem) /\ [PagingNext]_mem => MemInv(mem)'
  <2> SUFFICES ASSUME MemInv(mem), [PagingNext]_mem
               PROVE  MemInv(mem)'
    OBVIOUS
  <2>0. Held \subseteq Dirs /\ \A d \in Held : d = KernelDir \/ mem.used[d]
    BY DEF Held, Dirs
  <2>1. CASE CallAllocate
    BY <2>0, <2>1, AllocateMemInv DEF CallAllocate
  <2>2. CASE CallFree
    BY <2>0, <2>2, FreeUserPageMemInv DEF CallFree
  <2>3. CASE CallCreate
    BY <2>3, CreateMemInv DEF CallCreate
  <2>4. CASE CallFreeDir
    BY <2>4, FreeDirMemInv DEF CallFreeDir
  <2>5. CASE CallUse
    BY <2>0, <2>5, UseMemInv DEF CallUse
  <2>6. CASE UNCHANGED mem
    BY <2>6
  <2> QED BY <2>1, <2>2, <2>3, <2>4, <2>5, <2>6 DEF PagingNext
<1> QED BY <1>1, <1>2, PTL DEF PagingSpec

(* The page manager by itself, whatever the order of the calls, never      *)
(* maps a frame twice (paging.c:51-192).                                   *)
THEOREM PagingSafe == PagingSpec => []FrameIsolation
<1>1. MemInv(mem) => FrameIsolation
  BY DEF MemInv, FrameIsolation
<1> QED BY <1>1, PagingInv, PTL

(* A mapped frame is marked in page_frame_map, whatever was freed and      *)
(* cleared before, so that no allocation hands it out again                *)
(* (paging.c:83-147).                                                      *)
THEOREM MappedStaysMarked == PagingSpec => []MappedIsMarked
<1>1. MemInv(mem) => MappedIsMarked
  BY DEF MemInv, MappedIsMarked
<1> QED BY <1>1, PagingInv, PTL

(* free_page_frame_count agrees with page_frame_map after allocations that *)
(* fail half-way, too (paging.c:60-104).                                   *)
THEOREM FreeCountIsExact == PagingSpec => []FreeCountExact
<1>1. MemInv(mem) => FreeCountExact
  BY DEF MemInv, FreeCountExact
<1> QED BY <1>1, PagingInv, PTL

-----------------------------------------------------------------------------
(* The list: an inactive slot is READY and names no directory.             *)
PcbsOK(p) ==
  /\ p \in [Pids -> PcbType]
  /\ \A i \in Pids : ~p[i].active => p[i].pd = NullDir /\ p[i].state = "READY"

SpaceInv(m, p) == MemInv(m) /\ PcbsOK(p) /\ Spaces(m, p)

(* Frames are taken in pairs once the kernel has its own.                  *)
Even(m) == m.free % 2 = 0

(* CR3 names a directory in use that no live process but c has.            *)
OwnCr3(m, p, c) ==
  /\ m.cr3 \in PoolDirs /\ m.used[m.cr3] /\ m.kernel[m.cr3]
  /\ \A i \in LiveIn(p) : i # c => p[i].pd # m.cr3

(* The inductive invariant.                                                *)
IInv ==
  /\ TypeOK
  /\ SpaceInv(mem, pcb)
  /\ CountExact
  /\ RunningIsCurrent
  /\ IF mode = "boot"
     THEN mem = StaticMem /\ Active(pcb) = {} /\ cur = NoProcess
     ELSE Even(mem)
  /\ mode \in {"user", "sleep"} =>
       /\ mem.cr3 \in Dirs
       /\ RunningPcbs(pcb) # {} => OwnCr3(mem, pcb, cur)

-----------------------------------------------------------------------------
LEMMA PidsFinite == IsFiniteSet(Pids) /\ Cardinality(Pids) = ProcessMax /\ Pids \in SUBSET Nat
BY FS_Interval, ProcessAssumption DEF Pids

LEMMA ActiveFinite ==
  ASSUME NEW p
  PROVE  IsFiniteSet(Active(p)) /\ Cardinality(Active(p)) \in Nat
         /\ Active(p) \subseteq Pids /\ Cardinality(Active(p)) <= ProcessMax
<1>1. Active(p) \subseteq Pids
  BY DEF Active
<1> QED BY <1>1, PidsFinite, FS_Subset, FS_CardinalityType

(* There is a slot for a new process whenever the count is below the       *)
(* maximum: process_list_get_inactive_index never runs off its list.       *)
LEMMA SlotExists ==
  ASSUME NEW p, Cardinality(Active(p)) < ProcessMax
  PROVE  InactiveSlot(p) \in Pids \ Active(p)
<1>1. Pids \ Active(p) # {}
  <2> SUFFICES ASSUME Pids \ Active(p) = {} PROVE FALSE
    OBVIOUS
  <2>1. Active(p) = Pids
    BY ActiveFinite
  <2> QED BY <2>1, PidsFinite, ProcessAssumption
<1>2. Pids \ Active(p) \in SUBSET Nat
  BY PidsFinite
<1> QED BY <1>1, <1>2, LeastIsMinimum DEF InactiveSlot

(* The new address space: a directory that was unused, with the kernel and *)
(* - unless no frame was left, and then nothing at all - the process's     *)
(* pages.  No other directory changes.                                     *)
LEMMA NewSpaceInv ==
  ASSUME NEW m, MemInv(m), Even(m), NewDir(m) # NullDir,
         NEW req \in RequestType, req.page # "kernel"
  PROVE  LET d == NewDir(m)
             n == NewSpace(m, req)
         IN  /\ MemInv(n) /\ Even(n) /\ n.cr3 = d
             /\ n.free = IF m.free = 0 THEN 0 ELSE m.free - 2
             /\ d \in PoolDirs /\ ~m.used[d] /\ n.used[d] /\ n.kernel[d]
             /\ n.page[d][req.page] # NoFrame => n.page[d][StackPage] # NoFrame
             /\ \A e \in PoolDirs : e # d => n.used[e] = m.used[e]
             /\ \A e \in Dirs : e # d => n.kernel[e] = m.kernel[e] /\ n.page[e] = m.page[e]
<1> DEFINE d  == NewDir(m)
           m1 == CreateNewPageDirectory(m)
           m2 == AllocateUserPageFrame(m1, d, req.page)
           m3 == AllocateUserPageFrame(m2, d, StackPage)
           n  == NewSpace(m, req)
<1>0. req.page \in UserPages /\ StackPage \in UserPages
  BY PagingAssumption DEF RequestType
<1>1. /\ MemInv(m1)
      /\ m1.free = m.free /\ m1.page = m.page /\ d \in PoolDirs /\ ~m.used[d]
      /\ m1.used[d] /\ m1.kernel[d]
      /\ \A u \in UserPages : m1.page[d][u] = NoFrame
      /\ \A e \in PoolDirs : e # d => m1.used[e] = m.used[e]
      /\ \A e \in Dirs : e # d => m1.kernel[e] = m.kernel[e]
  BY CreateMemInv
<1>2. d \in Dirs /\ m.free \in Nat
  BY <1>1 DEF Dirs, MemInv, MemType
<1> HIDE DEF d, m1
<1>3. /\ MemInv(m2)
      /\ m2.used = m1.used /\ m2.kernel = m1.kernel
      /\ \A e \in Dirs : e # d => m2.page[e] = m1.page[e]
      /\ \A v \in UserPages : v # req.page => m2.page[d][v] = m1.page[d][v]
      /\ m1.free = 0 => m2 = m1
      /\ m1.free > 0 => m2.free = m1.free - 1 /\ m2.page[d][req.page] # NoFrame
  BY <1>0, <1>1, <1>2, AllocateMemInv
<1> HIDE DEF m2
<1>4. /\ MemInv(m3)
      /\ m3.used = m2.used /\ m3.kernel = m2.kernel
      /\ \A e \in Dirs : e # d => m3.page[e] = m2.page[e]
      /\ \A v \in UserPages : v # StackPage => m3.page[d][v] = m2.page[d][v]
      /\ m2.free = 0 => m3 = m2
      /\ m2.free > 0 => m3.free = m2.free - 1 /\ m3.page[d][StackPage] # NoFrame
  BY <1>0, <1>1, <1>2, <1>3, AllocateMemInv
<1> HIDE DEF m3
<1>5. /\ MemInv(n) /\ n.cr3 = d
      /\ n.free = m3.free /\ n.used = m3.used /\ n.page = m3.page /\ n.kernel = m3.kernel
  <2>1. n = UsePageDirectory(m3, d)
    BY DEF NewSpace, n, m1, m2, m3, d
  <2> QED BY <1>2, <1>4, <2>1, UseMemInv DEF n
<1> HIDE DEF n
<1>6. CASE m.free = 0
  <2>1. m3 = m1
    BY <1>1, <1>3, <1>4, <1>6
  <2> QED BY <1>0, <1>1, <1>5, <1>6, <2>1 DEF Even, n, d
<1>7. CASE m.free > 0
  <2>1. m.free >= 2
    BY <1>2, <1>7 DEF Even
  <2>2. m3.free = m.free - 2 /\ m3.page[d][StackPage] # NoFrame
    BY <1>1, <1>2, <1>3, <1>4, <2>1
  <2>3. Even(n)
    BY <1>2, <1>5, <2>1, <2>2 DEF Even
  <2> QED BY <1>1, <1>3, <1>4, <1>5, <2>2, <2>3 DEF n, d
<1> QED BY <1>2, <1>6, <1>7

(* The cases of process_create_user_process, as the proofs use them.       *)
LEMMA CreateCases ==
  ASSUME NEW m, NEW p, NEW n, NEW req
  PROVE  LET r     == CreateUserProcess(m, p, n, req)
             code  == CreateCode(m, n, req)
             slot  == InactiveSlot(p)
             taken == TakeSlot(p, slot)
             d     == NewDir(m)
             space == NewSpace(m, req)
         IN  \/ r = [mem |-> m, pcb |-> p, count |-> n, mode |-> "user"]
             \/ /\ code \notin {1, 2, 3}
                /\ \/ /\ d = NullDir
                      /\ r = [mem |-> UsePageDirectory(m, NullDir), pcb |-> taken,
                              count |-> n + 1, mode |-> "reset"]
                   \/ /\ d # NullDir
                      /\ \/ r = [mem |-> space, pcb |-> taken, count |-> n + 1, mode |-> "user"]
                         \/ r = [mem |-> space, pcb |-> taken, count |-> n + 1, mode |-> "halt"]
                         \/ /\ space.page[d][req.page] # NoFrame
                            /\ r = [mem |-> UsePageDirectory(space, m.cr3),
                                    pcb |-> FillSlot(p, slot, d),
                                    count |-> n + 1, mode |-> "user"]
BY Zenon DEF CreateUserProcess

(* An occupied slot that names no directory changes nothing for the rest.  *)
LEMMA TakenSlot ==
  ASSUME NEW p, PcbsOK(p), NEW s \in Pids \ Active(p)
  PROVE  LET q == TakeSlot(p, s)
         IN  /\ PcbsOK(q)
             /\ Active(q) = Active(p) \cup {s}
             /\ LiveIn(q) = LiveIn(p)
             /\ RunningPcbs(q) = RunningPcbs(p)
             /\ \A i \in Pids : q[i].pd = p[i].pd
<1> DEFINE q == TakeSlot(p, s)
<1>0. p \in [Pids -> PcbType] /\ ~p[s].active /\ p[s].pd = NullDir /\ p[s].state = "READY"
  BY DEF PcbsOK, Active
<1>1. /\ q \in [Pids -> PcbType]
      /\ q[s].active /\ q[s].pd = NullDir /\ q[s].state = "READY"
      /\ \A i \in Pids : i # s => q[i] = p[i]
  BY <1>0 DEF PcbType, TakeSlot
<1> HIDE DEF q
<1>2. PcbsOK(q)
  BY <1>1 DEF PcbsOK
<1>3. Active(q) = Active(p) \cup {s}
  BY <1>1 DEF Active
<1>4. LiveIn(q) = LiveIn(p) /\ RunningPcbs(q) = RunningPcbs(p)
  BY <1>0, <1>1, <1>3 DEF LiveIn, RunningPcbs, Active
<1> QED BY <1>0, <1>1, <1>2, <1>3, <1>4 DEF q

(* A slot filled by a complete creation.                                   *)
LEMMA FilledSlot ==
  ASSUME NEW p, PcbsOK(p), NEW s \in Pids \ Active(p), NEW d \in PoolDirs
  PROVE  LET q == FillSlot(p, s, d)
         IN  /\ PcbsOK(q)
             /\ Active(q) = Active(p) \cup {s}
             /\ LiveIn(q) = LiveIn(p) \cup {s}
             /\ RunningPcbs(q) = RunningPcbs(p)
             /\ q[s].pd = d
             /\ \A i \in Pids : i # s => q[i].pd = p[i].pd
<1> DEFINE rec == [p[s] EXCEPT !.active = TRUE, !.state = "READY", !.pd = d,
                               !.regs = [p[s].regs EXCEPT !.rest = Start]]
           q   == FillSlot(p, s, d)
<1>0. /\ p \in [Pids -> PcbType] /\ p[s] \in PcbType
      /\ ~p[s].active /\ p[s].pd = NullDir /\ p[s].state = "READY"
      /\ d \in Dirs /\ d # NullDir
  BY DEF PcbsOK, Active, Dirs, PoolDirs, NullDir
<1>1. [p[s].regs EXCEPT !.rest = Start] \in Regs
  BY <1>0, ProcessAssumption DEF PcbType, Regs
<1>2. rec \in PcbType /\ rec.active /\ rec.pd = d /\ rec.state = "READY"
  BY <1>0, <1>1 DEF PcbType
<1>2a. q = [p EXCEPT ![s] = rec]
  BY DEF FillSlot
<1> HIDE DEF rec, q
<1>3. /\ q \in [Pids -> PcbType] /\ q[s] = rec
      /\ \A i \in Pids : i # s => q[i] = p[i]
  BY <1>0, <1>2, <1>2a, Zenon
<1>4. PcbsOK(q)
  BY <1>2, <1>3 DEF PcbsOK
<1>5. Active(q) = Active(p) \cup {s}
  BY <1>2, <1>3 DEF Active
<1>6. LiveIn(q) = LiveIn(p) \cup {s} /\ RunningPcbs(q) = RunningPcbs(p)
  BY <1>0, <1>2, <1>3, <1>5 DEF LiveIn, RunningPcbs, Active
<1> QED BY <1>2, <1>3, <1>4, <1>5, <1>6 DEF q

(* Process creation keeps the address spaces apart, whatever it returns,   *)
(* and leaves CR3 on a directory no other live process has.                *)
LEMMA CreateInv ==
  ASSUME NEW m, NEW p, SpaceInv(m, p), Even(m), m.cr3 \in Dirs,
         NEW req \in RequestType,
         NEW n, n = Cardinality(Active(p)),
         NEW r, r = CreateUserProcess(m, p, n, req)
  PROVE  /\ SpaceInv(r.mem, r.pcb) /\ Even(r.mem)
         /\ r.count = Cardinality(Active(r.pcb))
         /\ RunningPcbs(r.pcb) = RunningPcbs(p)
         /\ r.mode \in {"user", "halt", "reset"}
         /\ r.mode = "user" => r.mem.cr3 \in Dirs
         /\ \A c \in Pids :
              (r.mode = "user" /\ OwnCr3(m, p, c) /\ p[c].active) => OwnCr3(r.mem, r.pcb, c)
<1> DEFINE s == InactiveSlot(p)
           d == NewDir(m)
           space == NewSpace(m, req)
           taken == TakeSlot(p, s)
           full  == FillSlot(p, s, d)
<1>0. MemInv(m) /\ PcbsOK(p) /\ Spaces(m, p)
  BY DEF SpaceInv
<1>1. CASE r = [mem |-> m, pcb |-> p, count |-> n, mode |-> "user"]
  BY <1>1 DEF SpaceInv
<1>2. CASE CreateCode(m, n, req) \notin {1, 2, 3} /\ r.count = n + 1
  <2>1. n < ProcessMax /\ req.page # "kernel"
    BY <1>2, ActiveFinite, ProcessAssumption DEF CreateCode
  <2>2. s \in Pids \ Active(p)
    BY <2>1, SlotExists
  <2>3. IsFiniteSet(Active(p)) /\ n \in Nat /\ Cardinality(Active(p) \cup {s}) = n + 1
    BY <2>2, ActiveFinite, FS_AddElement
  <2>4. /\ PcbsOK(taken)
        /\ Active(taken) = Active(p) \cup {s}
        /\ LiveIn(taken) = LiveIn(p)
        /\ RunningPcbs(taken) = RunningPcbs(p)
        /\ \A i \in Pids : taken[i].pd = p[i].pd
    BY <1>0, <2>2, TakenSlot
  <2>5a. d \in PoolDirs =>
           /\ PcbsOK(full)
           /\ Active(full) = Active(p) \cup {s}
           /\ LiveIn(full) = LiveIn(p) \cup {s}
           /\ RunningPcbs(full) = RunningPcbs(p)
           /\ full[s].pd = d
           /\ \A i \in Pids : i # s => full[i].pd = p[i].pd
    <3> HIDE DEF s, d
    <3> SUFFICES ASSUME d \in PoolDirs
                 PROVE  /\ PcbsOK(full)
                        /\ Active(full) = Active(p) \cup {s}
                        /\ LiveIn(full) = LiveIn(p) \cup {s}
                        /\ RunningPcbs(full) = RunningPcbs(p)
                        /\ full[s].pd = d
                        /\ \A i \in Pids : i # s => full[i].pd = p[i].pd
      OBVIOUS
    <3> QED BY <1>0, <2>2, FilledSlot
  <2> HIDE DEF s, d, taken, space, full
  <2>5. LiveIn(p) \subseteq Pids
    BY DEF LiveIn, Active
  <2>6. ASSUME NEW mm, MemInv(mm), mm.used = m.used, mm.kernel = m.kernel, mm.page = m.page
        PROVE  Spaces(mm, taken)
    BY <1>0, <2>4, <2>5, <2>6 DEF Spaces
  <2>7. CASE r = [mem |-> UsePageDirectory(m, NullDir), pcb |-> taken,
                  count |-> n + 1, mode |-> "reset"]
    <3> DEFINE mm == UsePageDirectory(m, NullDir)
    <3>1. /\ MemInv(mm) /\ mm.free = m.free /\ mm.used = m.used
          /\ mm.kernel = m.kernel /\ mm.page = m.page
      BY <1>0, UseMemInv
    <3> HIDE DEF mm
    <3>2. r.mem = mm /\ r.pcb = taken /\ r.count = n + 1 /\ r.mode = "reset"
      BY <2>7 DEF mm
    <3> QED BY <2>3, <2>4, <2>6, <3>1, <3>2 DEF SpaceInv, Even
  <2>8. CASE d # NullDir /\ r.mem = space /\ r.pcb = taken /\ r.mode \in {"user", "halt"}
    <3>1. /\ MemInv(space) /\ Even(space) /\ space.cr3 = d
          /\ d \in PoolDirs /\ ~m.used[d] /\ space.used[d] /\ space.kernel[d]
          /\ \A e \in PoolDirs : e # d => space.used[e] = m.used[e]
          /\ \A e \in Dirs : e # d => space.kernel[e] = m.kernel[e] /\ space.page[e] = m.page[e]
      BY <1>0, <2>1, <2>8, NewSpaceInv DEF d, space
    <3>2. \A i \in LiveIn(p) : p[i].pd # d /\ p[i].pd \in PoolDirs /\ p[i].pd \in Dirs
      BY <1>0, <3>1 DEF Spaces, Dirs
    <3>3. Spaces(space, taken)
      BY <1>0, <2>4, <2>5, <3>1, <3>2 DEF Spaces
    <3>4. \A c \in Pids : OwnCr3(space, taken, c)
      BY <2>4, <2>5, <3>1, <3>2 DEF OwnCr3
    <3>5. d \in Dirs
      BY <3>1 DEF Dirs
    <3> QED BY <1>2, <2>3, <2>4, <2>8, <3>1, <3>3, <3>4, <3>5 DEF SpaceInv
  <2>9. CASE /\ d # NullDir
             /\ space.page[d][req.page] # NoFrame
             /\ r = [mem |-> UsePageDirectory(space, m.cr3), pcb |-> full,
                     count |-> n + 1, mode |-> "user"]
    <3> DEFINE mm == UsePageDirectory(space, m.cr3)
    <3>1. /\ MemInv(space) /\ Even(space)
          /\ d \in PoolDirs /\ ~m.used[d] /\ space.used[d] /\ space.kernel[d]
          /\ space.page[d][StackPage] # NoFrame
          /\ \A e \in PoolDirs : e # d => space.used[e] = m.used[e]
          /\ \A e \in Dirs : e # d => space.kernel[e] = m.kernel[e] /\ space.page[e] = m.page[e]
      BY <1>0, <2>1, <2>9, NewSpaceInv DEF d, space
    <3>2. /\ MemInv(mm) /\ mm.free = space.free /\ mm.used = space.used
          /\ mm.kernel = space.kernel /\ mm.page = space.page /\ mm.cr3 = m.cr3
      BY <3>1, UseMemInv
    <3>3. /\ PcbsOK(full)
          /\ Active(full) = Active(p) \cup {s}
          /\ LiveIn(full) = LiveIn(p) \cup {s}
          /\ RunningPcbs(full) = RunningPcbs(p)
          /\ full[s].pd = d
          /\ \A i \in Pids : i # s => full[i].pd = p[i].pd
      BY <3>1, <2>5a
    <3> HIDE DEF mm
    <3>4. r.mem = mm /\ r.pcb = full /\ r.count = n + 1 /\ r.mode = "user"
      BY <2>9 DEF mm
    <3>5. \A i \in LiveIn(p) : i # s /\ p[i].pd # d /\ p[i].pd \in PoolDirs /\ p[i].pd \in Dirs
      BY <1>0, <2>2, <3>1 DEF Spaces, Dirs, LiveIn
    <3>6. Spaces(mm, full)
      BY <1>0, <2>5, <3>1, <3>2, <3>3, <3>5 DEF Spaces
    <3>7. ASSUME NEW c \in Pids, OwnCr3(m, p, c), p[c].active
          PROVE  OwnCr3(mm, full, c)
      <4>1. c # s
        BY <2>2, <3>7 DEF Active
      <4>2. m.cr3 # d /\ m.cr3 \in Dirs
        BY <3>1, <3>7 DEF OwnCr3, Dirs
      <4> QED BY <2>5, <3>1, <3>2, <3>3, <3>5, <3>7, <4>1, <4>2 DEF OwnCr3
    <3> QED BY <2>3, <3>1, <3>2, <3>3, <3>4, <3>6, <3>7 DEF SpaceInv, Even
  <2>10. \/ r = [mem |-> m, pcb |-> p, count |-> n, mode |-> "user"]
         \/ r = [mem |-> UsePageDirectory(m, NullDir), pcb |-> taken, count |-> n + 1, mode |-> "reset"]
         \/ d # NullDir /\ r = [mem |-> space, pcb |-> taken, count |-> n + 1, mode |-> "user"]
         \/ d # NullDir /\ r = [mem |-> space, pcb |-> taken, count |-> n + 1, mode |-> "halt"]
         \/ /\ d # NullDir /\ space.page[d][req.page] # NoFrame
            /\ r = [mem |-> UsePageDirectory(space, m.cr3), pcb |-> full, count |-> n + 1, mode |-> "user"]
    BY CreateCases DEF s, d, taken, space, full
  <2>11. CASE \/ d # NullDir /\ r = [mem |-> space, pcb |-> taken, count |-> n + 1, mode |-> "user"]
              \/ d # NullDir /\ r = [mem |-> space, pcb |-> taken, count |-> n + 1, mode |-> "halt"]
    <3>1. d # NullDir /\ r.mem = space /\ r.pcb = taken /\ r.mode \in {"user", "halt"}
      BY <2>11
    <3> QED BY <2>8, <3>1
  <2> QED BY <1>1, <2>7, <2>9, <2>10, <2>11
<1>3. \/ r = [mem |-> m, pcb |-> p, count |-> n, mode |-> "user"]
      \/ CreateCode(m, n, req) \notin {1, 2, 3} /\ r.count = n + 1
  <2>1. \/ r = [mem |-> m, pcb |-> p, count |-> n, mode |-> "user"]
        \/ /\ CreateCode(m, n, req) \notin {1, 2, 3}
           /\ \/ r = [mem |-> UsePageDirectory(m, NullDir), pcb |-> taken, count |-> n + 1, mode |-> "reset"]
              \/ r = [mem |-> space, pcb |-> taken, count |-> n + 1, mode |-> "user"]
              \/ r = [mem |-> space, pcb |-> taken, count |-> n + 1, mode |-> "halt"]
              \/ r = [mem |-> UsePageDirectory(space, m.cr3), pcb |-> full, count |-> n + 1, mode |-> "user"]
    BY CreateCases
  <2> HIDE DEF taken, space, full
  <2> QED BY <2>1
<1> QED BY <1>1, <1>2, <1>3

(* Destruction clears one process and leaves the others' spaces alone.     *)
LEMMA DestroyInv ==
  ASSUME NEW m, NEW p, SpaceInv(m, p), NEW i \in Active(p),
         NEW n, n = DestroyMem(m, p, i), NEW q, q = DestroyPcb(p, i)
  PROVE  /\ SpaceInv(n, q) /\ n.free = m.free /\ n.cr3 = m.cr3
         /\ Active(q) = Active(p) \ {i}
         /\ RunningPcbs(q) = RunningPcbs(p) \ {i}
         /\ Cardinality(Active(p)) > 0
         /\ Cardinality(Active(q)) = Cardinality(Active(p)) - 1
         /\ \A c \in Pids : (c # i /\ OwnCr3(m, p, c)) => OwnCr3(n, q, c)
<1>0. /\ MemInv(m) /\ PcbsOK(p) /\ Spaces(m, p) /\ i \in Pids
      /\ p \in [Pids -> PcbType] /\ p[i].active
  BY DEF SpaceInv, PcbsOK, Active
<1>1. EmptyPcb \in PcbType /\ ~EmptyPcb.active /\ EmptyPcb.pd = NullDir /\ EmptyPcb.state = "READY"
  BY ProcessAssumption DEF EmptyPcb, PcbType, ZeroRegs, Regs
<1>2. /\ q \in [Pids -> PcbType] /\ q[i] = EmptyPcb
      /\ \A j \in Pids : j # i => q[j] = p[j]
  BY <1>0, <1>1 DEF DestroyPcb
<1>3. PcbsOK(q)
  BY <1>0, <1>1, <1>2 DEF PcbsOK
<1>4. Active(q) = Active(p) \ {i}
  BY <1>1, <1>2 DEF Active
<1>5. LiveIn(q) = LiveIn(p) \ {i} /\ RunningPcbs(q) = RunningPcbs(p) \ {i}
  BY <1>2, <1>4 DEF LiveIn, RunningPcbs, Active
<1>6. /\ MemInv(n) /\ n.free = m.free /\ n.cr3 = m.cr3
      /\ \A e \in PoolDirs : e # p[i].pd => n.used[e] = m.used[e]
      /\ \A e \in Dirs : e # p[i].pd => n.kernel[e] = m.kernel[e] /\ n.page[e] = m.page[e]
  BY <1>0, FreeDirMemInv DEF DestroyMem
<1>7. \A j \in LiveIn(p) : p[j].pd \in PoolDirs /\ p[j].pd \in Dirs /\ p[j].pd # NullDir
  BY <1>0 DEF Spaces, Dirs, LiveIn
<1>8. \A j \in LiveIn(p) : j # i => p[j].pd # p[i].pd
  <2>1. CASE i \in LiveIn(p)
    BY <1>0, <2>1 DEF Spaces
  <2>2. CASE i \notin LiveIn(p)
    BY <1>7, <2>2 DEF LiveIn
  <2> QED BY <2>1, <2>2
<1>9. LiveIn(p) \subseteq Pids
  BY DEF LiveIn, Active
<1>10. Spaces(n, q)
  BY <1>0, <1>2, <1>5, <1>6, <1>7, <1>8, <1>9 DEF Spaces
<1>11. ASSUME NEW c \in Pids, c # i, OwnCr3(m, p, c)
       PROVE  OwnCr3(n, q, c)
  <2>1. m.cr3 # p[i].pd
    <3>1. CASE i \in LiveIn(p)
      BY <1>11, <3>1 DEF OwnCr3
    <3>2. CASE i \notin LiveIn(p)
      BY <1>11, <3>2 DEF LiveIn, OwnCr3, PoolDirs, NullDir
    <3> QED BY <3>1, <3>2
  <2>2. m.cr3 \in PoolDirs /\ m.cr3 \in Dirs
    BY <1>11 DEF OwnCr3, Dirs
  <2> QED BY <1>2, <1>5, <1>6, <1>9, <1>11, <2>1, <2>2 DEF OwnCr3
<1>12. /\ Cardinality(Active(p)) > 0
       /\ Cardinality(Active(q)) = Cardinality(Active(p)) - 1
  <2>1. IsFiniteSet(Active(p)) /\ Cardinality(Active(p)) \in Nat
    BY ActiveFinite
  <2>2. Cardinality(Active(p)) # 0
    BY <2>1, FS_EmptySet
  <2>3. Cardinality(Active(p) \ {i}) = Cardinality(Active(p)) - 1
    BY <2>1, FS_RemoveElement
  <2> QED BY <1>4, <2>1, <2>2, <2>3
<1> QED BY <1>3, <1>4, <1>5, <1>6, <1>10, <1>11, <1>12 DEF SpaceInv

(* The timer's save changes no directory, and leaves no PCB RUNNING.       *)
LEMMA SaveInv ==
  ASSUME NEW m, NEW p, SpaceInv(m, p), NEW c, RunningPcbs(p) \subseteq {c},
         NEW regs \in Regs, NEW q, q = SaveContext(p, regs)
  PROVE  SpaceInv(m, q) /\ Active(q) = Active(p) /\ RunningPcbs(q) = {}
<1>0. /\ MemInv(m) /\ PcbsOK(p) /\ Spaces(m, p) /\ p \in [Pids -> PcbType]
  BY DEF SpaceInv, PcbsOK
<1>1. CASE RunningPcbs(p) = {}
  BY <1>1 DEF SaveContext
<1>2. CASE RunningPcbs(p) # {}
  <2> DEFINE i == Least(RunningPcbs(p))
  <2>1. RunningPcbs(p) = {i} /\ i \in Pids /\ p[i].active
    <3>1. RunningPcbs(p) \in SUBSET Nat
      BY PidsFinite DEF RunningPcbs, Active
    <3>2. i \in RunningPcbs(p)
      BY <1>2, <3>1, LeastIsMinimum
    <3> QED BY <3>2 DEF RunningPcbs, Active
  <2>2. q = [p EXCEPT ![i] = [p[i] EXCEPT !.state = "READY", !.regs = regs]]
    BY <1>2 DEF SaveContext
  <2> HIDE DEF i
  <2>3. /\ q \in [Pids -> PcbType]
        /\ q[i].state = "READY" /\ q[i].active /\ q[i].pd = p[i].pd
        /\ \A j \in Pids : j # i => q[j] = p[j]
    <3> DEFINE saved == [p[i] EXCEPT !.state = "READY", !.regs = regs]
    <3>1. p[i] \in PcbType
      BY <1>0, <2>1
    <3>2. /\ saved \in PcbType
          /\ saved.state = "READY" /\ saved.active /\ saved.pd = p[i].pd
      <4> HIDE DEF Regs
      <4> QED BY <2>1, <3>1 DEF PcbType
    <3>3. q = [p EXCEPT ![i] = saved]
      BY <2>2
    <3> HIDE DEF saved, PcbType
    <3> QED BY <1>0, <2>1, <3>2, <3>3
  <2>4. PcbsOK(q)
    BY <1>0, <2>3 DEF PcbsOK
  <2>5. /\ \A j \in Pids : q[j].pd = p[j].pd
        /\ Active(q) = Active(p) /\ LiveIn(q) = LiveIn(p)
    BY <2>1, <2>3 DEF Active, LiveIn
  <2>6. RunningPcbs(q) = {}
    BY <2>1, <2>3, <2>5 DEF RunningPcbs, Active
  <2>7. LiveIn(p) \subseteq Pids
    BY DEF LiveIn, Active
  <2>8. Spaces(m, q)
    BY <1>0, <2>5, <2>7 DEF Spaces
  <2> QED BY <1>0, <2>4, <2>5, <2>6, <2>8 DEF SpaceInv
<1> QED BY <1>1, <1>2

LEMMA NextActiveExists ==
  ASSUME NEW p, Active(p) # {}, cur \in Pids \cup {NoProcess}
  PROVE  /\ NextActive(p) \in Active(p)
         /\ \A j \in Active(p) : Passed(NextActive(p)) <= Passed(j)
<1> DEFINE S == {Passed(i) : i \in Active(p)}
<1>1. Active(p) \subseteq Pids /\ Pids \in SUBSET Int
  BY PidsFinite DEF Active
<1>2. \A i \in Active(p) : Passed(i) \in Nat
  <2> SUFFICES ASSUME NEW i \in Active(p) PROVE Passed(i) \in Nat
    OBVIOUS
  <2>1. i - cur - 1 \in Int
    BY <1>1 DEF Pids, NoProcess
  <2>2. ProcessMax \in Nat /\ ProcessMax > 0
    BY ProcessAssumption
  <2> HIDE DEF S
  <2> QED BY <2>1, <2>2 DEF Passed
<1>3. S \in SUBSET Nat /\ S # {}
  BY <1>2
<1>4. Least(S) \in S /\ \A y \in S : Least(S) <= y
  BY <1>3, LeastIsMinimum
<1>5. PICK i \in Active(p) : \A j \in Active(p) : Passed(i) <= Passed(j)
  BY <1>4
<1> QED BY <1>5 DEF NextActive

(* A switch keeps the spaces apart and puts CR3 on the directory of the    *)
(* process it chooses, which is then the only RUNNING one.                 *)
LEMMA SwitchInv ==
  ASSUME NEW m, NEW p, SpaceInv(m, p), RunningPcbs(p) = {},
         cur \in Pids \cup {NoProcess}, cpu \in Regs, SwitchToNext(m, p)
  PROVE  /\ SpaceInv(mem', pcb') /\ mem'.free = m.free
         /\ Active(pcb') = Active(p)
         /\ RunningPcbs(pcb') \subseteq {cur'}
         /\ cur' \in Pids \cup {NoProcess}
         /\ cpu' \in Regs
         /\ mode' \in {"user", "spin", "reset"}
         /\ mode' = "user" => mem'.cr3 \in Dirs /\ OwnCr3(mem', pcb', cur')
<1>0. MemInv(m) /\ PcbsOK(p) /\ Spaces(m, p) /\ p \in [Pids -> PcbType]
  BY DEF SpaceInv, PcbsOK
<1>1. CASE Active(p) = {}
  BY <1>1 DEF SwitchToNext
<1>2. CASE Active(p) # {}
  <2> DEFINE next == NextActive(p)
             dir  == p[next].pd
  <2>1. next \in Active(p) /\ next \in Pids
    BY <1>2, NextActiveExists DEF Active
  <2>2. /\ pcb' = [i \in Pids |->
                     IF i = next THEN [p[i] EXCEPT !.state = "RUNNING"]
                     ELSE IF i = cur THEN [p[i] EXCEPT !.state = "READY"]
                     ELSE p[i]]
        /\ cur' = next
        /\ mem' = UsePageDirectory(m, dir)
        /\ cpu' = LoadContext(p[next].regs)
        /\ mode' = IF dir \in Dirs /\ m.kernel[dir] THEN "user" ELSE "reset"
    BY <1>2 DEF SwitchToNext
  <2> HIDE DEF next
  <2>3. /\ pcb' \in [Pids -> PcbType]
        /\ \A i \in Pids : pcb'[i].active = p[i].active /\ pcb'[i].pd = p[i].pd
        /\ \A i \in Pids : pcb'[i].state =
             IF i = next THEN "RUNNING" ELSE IF i = cur THEN "READY" ELSE p[i].state
    BY <1>0, <2>2 DEF PcbType
  <2>4. Active(pcb') = Active(p) /\ LiveIn(pcb') = LiveIn(p)
    BY <2>3 DEF Active, LiveIn
  <2>5. PcbsOK(pcb')
    BY <1>0, <2>1, <2>3 DEF PcbsOK, Active
  <2>6. RunningPcbs(pcb') = {next}
    BY <2>1, <2>3, <2>4 DEF RunningPcbs, Active
  <2>7. dir \in Dirs \cup {NullDir}
    BY <1>0, <2>1 DEF PcbType
  <2>8. /\ MemInv(mem') /\ mem'.free = m.free /\ mem'.used = m.used
        /\ mem'.kernel = m.kernel /\ mem'.page = m.page /\ mem'.cr3 = dir
    BY <1>0, <2>2, <2>7, UseMemInv
  <2>9. LiveIn(p) \subseteq Pids
    BY DEF LiveIn, Active
  <2>10. Spaces(mem', pcb')
    BY <1>0, <2>3, <2>4, <2>8, <2>9 DEF Spaces
  <2>11. ASSUME mode' = "user" PROVE mem'.cr3 \in Dirs /\ OwnCr3(mem', pcb', cur')
    <3>1. dir # NullDir /\ dir \in Dirs
      BY <2>2, <2>11 DEF NullDir, Dirs, KernelDir, PoolDirs
    <3>2. next \in LiveIn(p)
      BY <2>1, <3>1 DEF LiveIn
    <3> QED BY <1>0, <2>2, <2>3, <2>4, <2>8, <2>9, <3>1, <3>2 DEF OwnCr3, Spaces
  <2>12. cpu' \in Regs
    BY <1>0, <2>1, <2>2 DEF PcbType, Regs, LoadContext
  <2> QED BY <2>1, <2>2, <2>4, <2>5, <2>6, <2>8, <2>10, <2>11, <2>12 DEF SpaceInv
<1> QED BY <1>1, <1>2

-----------------------------------------------------------------------------
LEMMA InitIInv == Init => IInv
<1> SUFFICES ASSUME Init PROVE IInv
  OBVIOUS
<1>1. MemInv(mem) /\ mem \in MemType
  BY StaticMemInv DEF Init, MemInv
<1>2. EmptyPcb \in PcbType /\ ~EmptyPcb.active /\ EmptyPcb.pd = NullDir /\ EmptyPcb.state = "READY"
  BY ProcessAssumption DEF EmptyPcb, PcbType, ZeroRegs, Regs
<1>3. pcb \in [Pids -> PcbType] /\ PcbsOK(pcb)
  BY <1>2 DEF Init, PcbsOK
<1>4. Active(pcb) = {} /\ LiveIn(pcb) = {} /\ RunningPcbs(pcb) = {}
  BY <1>2 DEF Init, Active, LiveIn, RunningPcbs
<1>5. Spaces(mem, pcb)
  BY <1>4 DEF Spaces
<1>6. CountExact
  BY <1>4, FS_EmptySet DEF CountExact, Init
<1>7. TypeOK
  <2>1. ticks \in 0 .. TickSpan - 1 /\ nap \in [start : 0 .. TickSpan - 1, wait : 0 .. TickSpan - 1]
    BY ProcessAssumption DEF Init
  <2>2. cpu \in Regs
    BY ProcessAssumption DEF Init, ZeroRegs, Regs
  <2> QED BY <1>1, <1>3, <2>1, <2>2 DEF TypeOK, Init, Modes
<1> QED BY <1>1, <1>3, <1>4, <1>5, <1>6, <1>7 DEF IInv, SpaceInv, Init, RunningIsCurrent

(* What each action of user mode may rely on.                              *)
LEMMA UserFacts ==
  ASSUME IInv, mode = "user"
  PROVE  /\ SpaceInv(mem, pcb) /\ Even(mem) /\ mem.cr3 \in Dirs
         /\ count = Cardinality(Active(pcb))
         /\ RunningPcbs(pcb) \subseteq {cur}
         /\ RunningPcbs(pcb) # {} => /\ cur \in Pids /\ pcb[cur].active
                                     /\ OwnCr3(mem, pcb, cur)
         /\ RunningPcbs(pcb) # {} => Least(RunningPcbs(pcb)) = cur
<1>1. RunningPcbs(pcb) # {} => RunningPcbs(pcb) = {cur} /\ cur \in Pids /\ pcb[cur].active
  BY DEF IInv, RunningIsCurrent, RunningPcbs, Active
<1>2. RunningPcbs(pcb) # {} => Least(RunningPcbs(pcb)) = cur
  <2>1. RunningPcbs(pcb) \in SUBSET Nat
    BY PidsFinite DEF RunningPcbs, Active
  <2> QED BY <1>1, <2>1, LeastIsMinimum
<1> QED BY <1>1, <1>2 DEF IInv, CountExact, RunningIsCurrent

(* IInv after a step, from its parts.                                      *)
LEMMA IInvParts ==
  ASSUME SpaceInv(mem', pcb'), Even(mem'),
         count' = Cardinality(Active(pcb')),
         RunningPcbs(pcb') \subseteq {cur'},
         cur' \in Pids \cup {NoProcess}, cpu' \in Regs, mode' \in Modes \ {"boot"},
         ticks' \in 0 .. TickSpan - 1,
         nap' \in [start : 0 .. TickSpan - 1, wait : 0 .. TickSpan - 1],
         mode' \in {"user", "sleep"} => mem'.cr3 \in Dirs,
         (mode' \in {"user", "sleep"} /\ RunningPcbs(pcb') # {}) => OwnCr3(mem', pcb', cur')
  PROVE  IInv'
<1>1. count' \in Nat
  BY ActiveFinite
<1>2. mem' \in MemType /\ pcb' \in [Pids -> PcbType]
  BY DEF SpaceInv, MemInv, PcbsOK
<1>3. TypeOK'
  BY <1>1, <1>2 DEF TypeOK
<1> QED BY <1>3 DEF IInv, CountExact, RunningIsCurrent

LEMMA NextIInv == IInv /\ [Next]_vars => IInv'
<1> SUFFICES ASSUME IInv, [Next]_vars PROVE IInv'
  OBVIOUS
<1>0. /\ cur \in Pids \cup {NoProcess} /\ cpu \in Regs /\ mode \in Modes
      /\ ticks \in 0 .. TickSpan - 1
      /\ nap \in [start : 0 .. TickSpan - 1, wait : 0 .. TickSpan - 1]
  BY DEF IInv, TypeOK
<1> USE DEF Modes
(* kernel_setup: the first frame leaves an even number of them.            *)
<1>1. ASSUME NEW req \in BootRequests, Boot(req) PROVE IInv'
  <2> DEFINE m0 == AllocateUserPageFrame(mem, KernelDir, LowPage)
             r  == CreateUserProcess(m0, pcb, count, req)
  <2>1. /\ mem = StaticMem /\ Active(pcb) = {} /\ cur = NoProcess
        /\ SpaceInv(mem, pcb) /\ count = Cardinality(Active(pcb))
        /\ RunningPcbs(pcb) = {}
    BY <1>1 DEF Boot, IInv, CountExact, RunningPcbs
  <2>2. KernelDir \in Dirs /\ LowPage \in UserPages /\ FrameCount \in Nat \ {0, 1}
    BY PagingAssumption DEF Dirs
  <2>3. /\ MemInv(m0) /\ m0.cr3 = KernelDir
        /\ m0.free = FrameCount - 2
    <3>1. mem.free = FrameCount - 1 /\ mem.cr3 = KernelDir
      BY <2>1 DEF StaticMem
    <3>2. MemInv(mem)
      BY <2>1 DEF SpaceInv
    <3>3. mem.free > 0
      BY <2>2, <3>1
    <3> QED BY <2>2, <3>1, <3>2, <3>3, AllocateMemInv
  <2> HIDE DEF m0
  <2>4. Even(m0)
    <3>1. (FrameCount - 2) % 2 = 0
      BY <2>2, ProcessAssumption
    <3> QED BY <2>3, <3>1 DEF Even
  <2>5. SpaceInv(m0, pcb)
    <3>1. LiveIn(pcb) = {}
      BY <2>1 DEF LiveIn
    <3> QED BY <2>1, <2>3, <3>1 DEF SpaceInv, Spaces
  <2>6. m0.cr3 \in Dirs /\ req \in RequestType
    BY <2>2, <2>3, ProcessAssumption
  <2>7. /\ SpaceInv(r.mem, r.pcb) /\ Even(r.mem)
        /\ r.count = Cardinality(Active(r.pcb))
        /\ RunningPcbs(r.pcb) = {}
        /\ r.mode \in {"user", "halt", "reset"}
    BY <2>1, <2>4, <2>5, <2>6, CreateInv
  <2> HIDE DEF r
  <2>8. /\ count' = r.count /\ ticks' = ticks /\ nap' = nap
        /\ \/ r.mode = "user" /\ SwitchToNext(r.mem, r.pcb)
           \/ /\ r.mode # "user"
              /\ mem' = r.mem /\ pcb' = r.pcb /\ mode' = r.mode /\ cur' = cur /\ cpu' = cpu
    BY <1>1 DEF Boot, r, m0
  <2>9. CASE SwitchToNext(r.mem, r.pcb)
    <3>1. /\ SpaceInv(mem', pcb') /\ mem'.free = r.mem.free
          /\ Active(pcb') = Active(r.pcb)
          /\ RunningPcbs(pcb') \subseteq {cur'}
          /\ cur' \in Pids \cup {NoProcess} /\ cpu' \in Regs
          /\ mode' \in {"user", "spin", "reset"}
          /\ mode' = "user" => mem'.cr3 \in Dirs /\ OwnCr3(mem', pcb', cur')
      BY <1>0, <2>7, <2>9, SwitchInv
    <3> QED BY <1>0, <2>7, <2>8, <3>1, IInvParts DEF Even
  <2>10. CASE /\ r.mode # "user" /\ mem' = r.mem /\ pcb' = r.pcb /\ mode' = r.mode
              /\ cur' = cur /\ cpu' = cpu
    BY <1>0, <2>7, <2>8, <2>10, IInvParts
  <2> QED BY <2>8, <2>9, <2>10
(* IRQ 0: after the save no PCB is RUNNING, and the switch marks one.      *)
<1>2. CASE Timer
  <2> DEFINE q == SaveContext(pcb, cpu)
  <2>1. SpaceInv(mem, q) /\ Active(q) = Active(pcb) /\ RunningPcbs(q) = {}
    BY <1>0, <1>2, UserFacts, SaveInv DEF Timer
  <2> HIDE DEF q
  <2>2. /\ SpaceInv(mem', pcb') /\ mem'.free = mem.free
        /\ Active(pcb') = Active(q)
        /\ RunningPcbs(pcb') \subseteq {cur'}
        /\ cur' \in Pids \cup {NoProcess} /\ cpu' \in Regs
        /\ mode' \in {"user", "spin", "reset"}
        /\ mode' = "user" => mem'.cr3 \in Dirs /\ OwnCr3(mem', pcb', cur')
    BY <1>0, <1>2, <2>1, SwitchInv DEF Timer, q
  <2>3. ticks' \in 0 .. TickSpan - 1
    <3>1. TickSpan \in Nat /\ TickSpan > 0 /\ ticks \in Nat
      BY <1>0, ProcessAssumption
    <3>2. ticks' = (ticks + 1) % TickSpan
      BY <1>2 DEF Timer
    <3> QED BY <3>1, <3>2
  <2>4. Even(mem) /\ count = Cardinality(Active(pcb)) /\ count' = count /\ nap' = nap
    BY <1>2, UserFacts DEF Timer
  <2> QED BY <1>0, <2>1, <2>2, <2>3, <2>4, IInvParts DEF Even
<1>3. CASE UserStep
  <2>1. /\ mode = "user" /\ mode' = mode /\ cpu' \in Regs
        /\ mem' = mem /\ pcb' = pcb /\ count' = count /\ cur' = cur
        /\ ticks' = ticks /\ nap' = nap
    BY <1>3 DEF UserStep
  <2> QED BY <1>0, <2>1, UserFacts, IInvParts
<1>4. ASSUME NEW req \in Requests, SysExec(req) PROVE IInv'
  <2> DEFINE r == CreateUserProcess(mem, pcb, count, req)
  <2>1. /\ mode = "user"
        /\ mem' = r.mem /\ pcb' = r.pcb /\ count' = r.count /\ mode' = r.mode
        /\ cur' = cur /\ cpu' = cpu /\ ticks' = ticks /\ nap' = nap
    BY <1>4 DEF SysExec
  <2>2. /\ SpaceInv(r.mem, r.pcb) /\ Even(r.mem)
        /\ r.count = Cardinality(Active(r.pcb))
        /\ RunningPcbs(r.pcb) = RunningPcbs(pcb)
        /\ r.mode \in {"user", "halt", "reset"}
        /\ r.mode = "user" => r.mem.cr3 \in Dirs
        /\ \A c \in Pids :
             (r.mode = "user" /\ OwnCr3(mem, pcb, c) /\ pcb[c].active) => OwnCr3(r.mem, r.pcb, c)
    <3>1. req \in RequestType
      BY ProcessAssumption
    <3> QED BY <2>1, <3>1, UserFacts, CreateInv
  <2> HIDE DEF r
  <2> QED BY <1>0, <2>1, <2>2, UserFacts, IInvParts
(* After the running process is destroyed no PCB is RUNNING.               *)
<1>5. CASE SysExit
  <2> DEFINE m == DestroyMem(mem, pcb, cur)
             p == DestroyPcb(pcb, cur)
  <2>1. /\ mode = "user" /\ RunningPcbs(pcb) # {} /\ count' = count - 1
        /\ ticks' = ticks /\ nap' = nap
        /\ \/ SwitchToNext(m, p)
           \/ mode' = "reset" /\ mem' = m /\ pcb' = p /\ cur' = cur /\ cpu' = cpu
    BY <1>5, UserFacts DEF SysExit
  <2>2. cur \in Active(pcb)
    BY <2>1, UserFacts DEF Active
  <2>3. /\ SpaceInv(m, p) /\ m.free = mem.free
        /\ RunningPcbs(p) = RunningPcbs(pcb) \ {cur}
        /\ Cardinality(Active(p)) = Cardinality(Active(pcb)) - 1
    BY <2>1, <2>2, UserFacts, DestroyInv
  <2>4. RunningPcbs(p) = {} /\ Even(mem) /\ count = Cardinality(Active(pcb))
    BY <2>1, <2>3, UserFacts
  <2> HIDE DEF m, p
  <2>5. CASE SwitchToNext(m, p)
    <3>1. /\ SpaceInv(mem', pcb') /\ mem'.free = m.free
          /\ Active(pcb') = Active(p)
          /\ RunningPcbs(pcb') \subseteq {cur'}
          /\ cur' \in Pids \cup {NoProcess} /\ cpu' \in Regs
          /\ mode' \in {"user", "spin", "reset"}
          /\ mode' = "user" => mem'.cr3 \in Dirs /\ OwnCr3(mem', pcb', cur')
      BY <1>0, <2>3, <2>4, <2>5, SwitchInv
    <3> QED BY <1>0, <2>1, <2>3, <2>4, <3>1, IInvParts DEF Even
  <2>6. CASE mode' = "reset" /\ mem' = m /\ pcb' = p /\ cur' = cur /\ cpu' = cpu
    BY <1>0, <2>1, <2>3, <2>4, <2>6, IInvParts DEF Even
  <2> QED BY <2>1, <2>5, <2>6
(* A process that kills itself leaves no PCB RUNNING; killing another one  *)
(* leaves CR3 on the directory of the running process.                     *)
<1>6. ASSUME NEW pid \in Pids, SysKill(pid) PROVE IInv'
  <2> DEFINE m == DestroyMem(mem, pcb, pid)
             p == DestroyPcb(pcb, pid)
  <2>1. /\ mode = "user" /\ mode' = mode /\ pid \in Active(pcb)
        /\ mem' = m /\ pcb' = p /\ count' = count - 1
        /\ cur' = cur /\ cpu' = cpu /\ ticks' = ticks /\ nap' = nap
    BY <1>6 DEF SysKill, Active
  <2>2. /\ SpaceInv(m, p) /\ m.free = mem.free /\ m.cr3 = mem.cr3
        /\ RunningPcbs(p) = RunningPcbs(pcb) \ {pid}
        /\ Cardinality(Active(p)) = Cardinality(Active(pcb)) - 1
        /\ \A c \in Pids : (c # pid /\ OwnCr3(mem, pcb, c)) => OwnCr3(m, p, c)
    BY <2>1, UserFacts, DestroyInv
  <2> HIDE DEF m, p
  <2> QED BY <1>0, <2>1, <2>2, UserFacts, IInvParts DEF Even
<1>7. ASSUME NEW k \in Naps, SysSleep(k) PROVE IInv'
  <2>1. /\ mode = "user" /\ mode' = "sleep"
        /\ nap' = [start |-> ticks, wait |-> k]
        /\ mem' = mem /\ pcb' = pcb /\ count' = count /\ cur' = cur
        /\ cpu' = cpu /\ ticks' = ticks
    BY <1>7 DEF SysSleep
  <2>2. nap' \in [start : 0 .. TickSpan - 1, wait : 0 .. TickSpan - 1]
    BY <1>0, <2>1, ProcessAssumption
  <2> QED BY <1>0, <2>1, <2>2, UserFacts, IInvParts
<1>8. CASE SleepEnds
  <2>1. /\ mode = "sleep" /\ mode' = "user" /\ nap' = [start |-> 0, wait |-> 0]
        /\ mem' = mem /\ pcb' = pcb /\ count' = count /\ cur' = cur
        /\ cpu' = cpu /\ ticks' = ticks
    BY <1>8 DEF SleepEnds
  <2>2. nap' \in [start : 0 .. TickSpan - 1, wait : 0 .. TickSpan - 1]
    BY <2>1, ProcessAssumption
  <2>3. /\ SpaceInv(mem, pcb) /\ Even(mem) /\ mem.cr3 \in Dirs
        /\ count = Cardinality(Active(pcb)) /\ RunningPcbs(pcb) \subseteq {cur}
        /\ RunningPcbs(pcb) # {} => OwnCr3(mem, pcb, cur)
    BY <2>1 DEF IInv, CountExact, RunningIsCurrent
  <2> QED BY <1>0, <2>1, <2>2, <2>3, IInvParts
<1>9. CASE SysExitWithoutPcb \/ Fault \/ StaleTranslationLost
  <2>1. /\ mode = "user" /\ mode' \in {"halt", "reset"}
        /\ mem' = mem /\ pcb' = pcb /\ count' = count /\ cur' = cur
        /\ cpu' = cpu /\ ticks' = ticks /\ nap' = nap
    BY <1>9 DEF SysExitWithoutPcb, Fault, StaleTranslationLost
  <2> QED BY <1>0, <2>1, UserFacts, IInvParts
<1>10. CASE UNCHANGED vars
  BY <1>10 DEF vars, IInv, TypeOK, CountExact, RunningIsCurrent
<1> QED BY <1>1, <1>2, <1>3, <1>4, <1>5, <1>6, <1>7, <1>8, <1>9, <1>10 DEF Next, Exec

LEMMA SpecIInv == Spec => []IInv
BY InitIInv, NextIInv, PTL DEF Spec

-----------------------------------------------------------------------------
(* Every variable keeps its type: in particular no operation indexes the   *)
(* list of processes or the pool of directories out of its bounds, once    *)
(* the machine has booted.                                                 *)
THEOREM TypeCorrect == Spec => []TypeOK
<1>1. IInv => TypeOK
  BY DEF IInv
<1> QED BY SpecIInv, <1>1, PTL

(* active_process_count is the number of active slots, for any number of   *)
(* slots and any order of executions, exits and kills.                     *)
THEOREM CountIsExact == Spec => []CountExact
<1>1. IInv => CountExact
  BY DEF IInv
<1> QED BY SpecIInv, <1>1, PTL

(* The one PCB marked RUNNING is the scheduler's current one, so the timer *)
(* saves the registers where the next switch to that process reads them.   *)
THEOREM OneRunning == Spec => []RunningIsCurrent
<1>1. IInv => RunningIsCurrent
  BY DEF IInv
<1> QED BY SpecIInv, <1>1, PTL

(* Address spaces share no frame and the page manager's books are right,   *)
(* and every live process has a used directory of its own with the kernel  *)
(* and a stack in it.                                                      *)
THEOREM SpacesApart ==
  Spec => [](FrameIsolation /\ MappedIsMarked /\ FreeCountExact /\ LiveSpaces)
<1>1. IInv => FrameIsolation /\ MappedIsMarked /\ FreeCountExact /\ LiveSpaces
  BY DEF IInv, SpaceInv, MemInv, FrameIsolation, MappedIsMarked, FreeCountExact, LiveSpaces
<1> QED BY SpecIInv, <1>1, PTL

(* While a process is marked RUNNING, the page directory in CR3 is in use  *)
(* and maps the kernel: no execution, exit or kill pulls it away.          *)
THEOREM DirectoryInUse == Spec => []RunsOnUsedDirectory
<1>1. IInv => RunsOnUsedDirectory
  BY DEF IInv, OwnCr3, RunsOnUsedDirectory
<1> QED BY SpecIInv, <1>1, PTL

-----------------------------------------------------------------------------
(* The used directories of the pool, and what is left of it: while a frame *)
(* is free, every used directory stands for two frames that are not.       *)
UsedDirs(m) == {d \in PoolDirs : m.used[d]}
PoolInv(m)  == m.free > 0 => 2 * Cardinality(UsedDirs(m)) + m.free <= FrameCount - 2
Pool        == mode # "boot" => PoolInv(mem)

LEMMA UsedFinite ==
  ASSUME NEW m
  PROVE  IsFiniteSet(UsedDirs(m)) /\ Cardinality(UsedDirs(m)) \in Nat
<1>1. IsFiniteSet(PoolDirs)
  BY FS_Interval, PagingAssumption DEF PoolDirs
<1> QED BY <1>1, FS_Subset, FS_CardinalityType DEF UsedDirs

(* The pool of a page manager with as many free frames and no used         *)
(* directory but those the other one has.                                  *)
LEMMA PoolKept ==
  ASSUME NEW m, NEW n, PoolInv(m), n.free = m.free, m.free \in Nat,
         UsedDirs(n) \subseteq UsedDirs(m)
  PROVE  PoolInv(n)
<1>1. Cardinality(UsedDirs(n)) <= Cardinality(UsedDirs(m))
  BY UsedFinite, FS_Subset
<1> QED BY <1>1, UsedFinite, PagingAssumption DEF PoolInv

(* Loading CR3 touches nothing else, and a switch does no more.            *)
LEMMA SwitchMem ==
  ASSUME NEW m \in MemType, NEW p, SwitchToNext(m, p)
  PROVE  mem'.free = m.free /\ mem'.used = m.used /\ mem'.page = m.page
BY DEF SwitchToNext, UsePageDirectory, MemType

(* Destruction gives back a directory and no frame.                        *)
LEMMA DestroyMemory ==
  ASSUME NEW m, NEW p, SpaceInv(m, p), NEW i \in Active(p)
  PROVE  LET n == DestroyMem(m, p, i)
         IN  /\ n.free = m.free
             /\ UsedDirs(n) \subseteq UsedDirs(m)
             /\ \A j \in LiveIn(p) \ {i} : n.page[p[j].pd] = m.page[p[j].pd]
<1> DEFINE d == p[i].pd
           n == DestroyMem(m, p, i)
<1>0. /\ MemInv(m) /\ Spaces(m, p) /\ p \in [Pids -> PcbType] /\ i \in Pids
      /\ m.used \in [PoolDirs -> BOOLEAN]
  BY DEF SpaceInv, PcbsOK, Active, MemInv, MemType
<1>1. /\ n.free = m.free
      /\ \A e \in PoolDirs : e # d => n.used[e] = m.used[e]
      /\ \A e \in Dirs : e # d => n.page[e] = m.page[e]
  BY <1>0, FreeDirMemInv DEF DestroyMem
<1>2. d \in PoolDirs => ~n.used[d]
  BY <1>0 DEF DestroyMem, FreePageDirectory, MemInv, MemType
<1>3. \A j \in LiveIn(p) \ {i} : p[j].pd # d /\ p[j].pd \in Dirs
  BY <1>0 DEF Spaces, Dirs, LiveIn
<1> HIDE DEF n
<1> QED BY <1>1, <1>2, <1>3 DEF UsedDirs, n

(* A creation maps nothing in a directory that was in use, and keeps the   *)
(* bound on the pool.                                                      *)
LEMMA CreateMemory ==
  ASSUME NEW m, NEW p, SpaceInv(m, p), Even(m), m.cr3 \in Dirs,
         NEW req \in RequestType, NEW n,
         NEW r, r = CreateUserProcess(m, p, n, req)
  PROVE  /\ PoolInv(m) => PoolInv(r.mem)
         /\ \A e \in PoolDirs : m.used[e] => r.mem.page[e] = m.page[e]
<1> DEFINE d     == NewDir(m)
           space == NewSpace(m, req)
<1>0. MemInv(m) /\ m \in MemType /\ m.free \in Nat
  BY DEF SpaceInv, MemInv, MemType
<1>1. CASE r.mem = m
  BY <1>1
<1>2. CASE r.mem = UsePageDirectory(m, NullDir)
  <2>1. r.mem.free = m.free /\ r.mem.used = m.used /\ r.mem.page = m.page
    BY <1>0, <1>2, UseMemInv
  <2> QED BY <1>0, <2>1 DEF PoolInv, UsedDirs
<1>3. CASE /\ CreateCode(m, n, req) \notin {1, 2, 3}
           /\ d # NullDir
           /\ r.mem = space \/ r.mem = UsePageDirectory(space, m.cr3)
  <2>1. req.page # "kernel"
    BY <1>3 DEF CreateCode
  <2>2. /\ MemInv(space)
        /\ space.free = IF m.free = 0 THEN 0 ELSE m.free - 2
        /\ d \in PoolDirs /\ ~m.used[d] /\ space.used[d]
        /\ \A e \in PoolDirs : e # d => space.used[e] = m.used[e]
        /\ \A e \in Dirs : e # d => space.page[e] = m.page[e]
    BY <1>0, <1>3, <2>1, NewSpaceInv
  <2> HIDE DEF d, space
  <2>3. r.mem.free = space.free /\ r.mem.used = space.used /\ r.mem.page = space.page
    BY <1>3, <2>2, UseMemInv
  <2>4. UsedDirs(r.mem) = UsedDirs(m) \cup {d} /\ d \notin UsedDirs(m)
    BY <2>2, <2>3 DEF UsedDirs
  <2>5. Cardinality(UsedDirs(r.mem)) = Cardinality(UsedDirs(m)) + 1
    BY <2>4, UsedFinite, FS_AddElement
  <2>6. PoolInv(m) => PoolInv(r.mem)
    BY <1>0, <2>2, <2>3, <2>5, UsedFinite, PagingAssumption DEF PoolInv
  <2>7. \A e \in PoolDirs : m.used[e] => r.mem.page[e] = m.page[e]
    BY <2>2, <2>3 DEF Dirs
  <2> QED BY <2>6, <2>7
<1>4. \/ r.mem = m
      \/ r.mem = UsePageDirectory(m, NullDir)
      \/ /\ CreateCode(m, n, req) \notin {1, 2, 3}
         /\ d # NullDir
         /\ r.mem = space \/ r.mem = UsePageDirectory(space, m.cr3)
  <2> DEFINE taken == TakeSlot(p, InactiveSlot(p))
             full  == FillSlot(p, InactiveSlot(p), d)
  <2>1. \/ r = [mem |-> m, pcb |-> p, count |-> n, mode |-> "user"]
        \/ /\ CreateCode(m, n, req) \notin {1, 2, 3}
           /\ \/ r = [mem |-> UsePageDirectory(m, NullDir), pcb |-> taken,
                      count |-> n + 1, mode |-> "reset"]
              \/ /\ d # NullDir
                 /\ \/ r = [mem |-> space, pcb |-> taken, count |-> n + 1, mode |-> "user"]
                    \/ r = [mem |-> space, pcb |-> taken, count |-> n + 1, mode |-> "halt"]
                    \/ r = [mem |-> UsePageDirectory(space, m.cr3), pcb |-> full,
                            count |-> n + 1, mode |-> "user"]
    BY CreateCases
  <2> HIDE DEF taken, full, space, d
  <2> QED BY <2>1
<1> QED BY <1>1, <1>2, <1>3, <1>4

LEMMA InitPool == Init => Pool
BY DEF Init, Pool

LEMMA NextPool == IInv /\ Pool /\ [Next]_vars => Pool'
<1> SUFFICES ASSUME IInv, Pool, [Next]_vars PROVE Pool'
  OBVIOUS
<1>0. MemInv(mem) /\ mem \in MemType /\ mem.free \in Nat
  BY DEF IInv, SpaceInv, MemInv, MemType
<1>1. ASSUME NEW req \in BootRequests, Boot(req) PROVE Pool'
  <2> DEFINE m0 == AllocateUserPageFrame(mem, KernelDir, LowPage)
             r  == CreateUserProcess(m0, pcb, count, req)
  <2>1. mem = StaticMem /\ Active(pcb) = {} /\ SpaceInv(mem, pcb)
    BY <1>1 DEF Boot, IInv
  <2>2. KernelDir \in Dirs /\ LowPage \in UserPages /\ FrameCount \in Nat \ {0, 1}
    BY PagingAssumption DEF Dirs
  <2>3. MemInv(m0) /\ m0.used = mem.used /\ m0.cr3 = KernelDir /\ m0.free = FrameCount - 2
    <3>1. mem.free = FrameCount - 1 /\ mem.free > 0 /\ mem.cr3 = KernelDir
      BY <2>1, <2>2 DEF StaticMem
    <3> QED BY <1>0, <2>2, <3>1, AllocateMemInv
  <2> HIDE DEF m0
  <2>4. PoolInv(m0)
    <3>1. UsedDirs(m0) = {}
      BY <2>1, <2>3 DEF UsedDirs, StaticMem
    <3> QED BY <2>2, <2>3, <3>1, FS_EmptySet DEF PoolInv
  <2>5. SpaceInv(m0, pcb) /\ Even(m0)
    <3>1. LiveIn(pcb) = {}
      BY <2>1 DEF LiveIn
    <3>2. (FrameCount - 2) % 2 = 0
      BY <2>2, ProcessAssumption
    <3> QED BY <2>1, <2>3, <3>1, <3>2 DEF SpaceInv, Spaces, Even
  <2>6. count = Cardinality(Active(pcb)) /\ m0.cr3 \in Dirs /\ req \in RequestType
    BY <2>2, <2>3, ProcessAssumption DEF IInv, CountExact
  <2>7. PoolInv(r.mem) /\ SpaceInv(r.mem, r.pcb)
    BY <2>4, <2>5, <2>6, CreateMemory, CreateInv
  <2> HIDE DEF r
  <2>8. r.mem \in MemType
    BY <2>7 DEF SpaceInv, MemInv
  <2>9. mem'.free = r.mem.free /\ mem'.used = r.mem.used
    BY <1>1, <2>8, SwitchMem DEF Boot, r, m0
  <2> QED BY <2>7, <2>9 DEF Pool, PoolInv, UsedDirs
<1>2. CASE Timer
  <2>1. mode # "boot" /\ mem'.free = mem.free /\ mem'.used = mem.used
    BY <1>0, <1>2, SwitchMem DEF Timer
  <2> QED BY <2>1 DEF Pool, PoolInv, UsedDirs
<1>3. ASSUME NEW req \in Requests, SysExec(req) PROVE Pool'
  <2>1. mode = "user" /\ mem' = CreateUserProcess(mem, pcb, count, req).mem
    BY <1>3 DEF SysExec
  <2>2. req \in RequestType
    BY ProcessAssumption
  <2>3. PoolInv(mem')
    BY <2>1, <2>2, UserFacts, CreateMemory DEF Pool
  <2> QED BY <2>3 DEF Pool, PoolInv, UsedDirs
<1>4. CASE SysExit
  <2> DEFINE m == DestroyMem(mem, pcb, cur)
             p == DestroyPcb(pcb, cur)
  <2>1. /\ mode = "user" /\ RunningPcbs(pcb) # {}
        /\ \/ SwitchToNext(m, p)
           \/ mem' = m
    BY <1>4, UserFacts DEF SysExit
  <2>2. cur \in Active(pcb) /\ SpaceInv(mem, pcb)
    BY <2>1, UserFacts DEF Active
  <2>3. m.free = mem.free /\ UsedDirs(m) \subseteq UsedDirs(mem)
    BY <2>2, DestroyMemory
  <2>4. m \in MemType
    BY <2>2, DestroyInv DEF SpaceInv, MemInv
  <2> HIDE DEF m, p
  <2>5. mem'.free = m.free /\ mem'.used = m.used
    BY <2>1, <2>4, SwitchMem
  <2>6. PoolInv(m)
    BY <1>0, <2>1, <2>3, PoolKept DEF Pool
  <2> QED BY <2>5, <2>6 DEF Pool, PoolInv, UsedDirs
<1>5. ASSUME NEW pid \in Pids, SysKill(pid) PROVE Pool'
  <2>1. mode = "user" /\ pid \in Active(pcb) /\ mem' = DestroyMem(mem, pcb, pid)
    BY <1>5 DEF SysKill, Active
  <2>2. mem'.free = mem.free /\ UsedDirs(mem') \subseteq UsedDirs(mem)
    BY <2>1, UserFacts, DestroyMemory
  <2>3. PoolInv(mem')
    BY <1>0, <2>1, <2>2, PoolKept DEF Pool
  <2> QED BY <2>3 DEF Pool, PoolInv, UsedDirs
<1>6. CASE \/ UserStep \/ SleepEnds \/ SysExitWithoutPcb \/ Fault \/ StaleTranslationLost
           \/ \E k \in Naps : SysSleep(k)
           \/ UNCHANGED vars
  <2>1. mem' = mem /\ (mode' # "boot" => mode # "boot")
    BY <1>6 DEF UserStep, SleepEnds, SysExitWithoutPcb, Fault, StaleTranslationLost, SysSleep, vars
  <2> QED BY <2>1 DEF Pool, PoolInv, UsedDirs
<1> QED BY <1>1, <1>2, <1>3, <1>4, <1>5, <1>6 DEF Next, Exec

LEMMA SpecPool == Spec => [](IInv /\ Pool)
<1>1. Init => IInv /\ Pool
  BY InitIInv, InitPool
<1>2. (IInv /\ Pool) /\ [Next]_vars => (IInv /\ Pool)'
  BY NextIInv, NextPool
<1> QED BY <1>1, <1>2, PTL DEF Spec

(* No operation of another process touches the pages of a live one: a      *)
(* creation maps only in the directory it has just taken, a destruction    *)
(* clears only the directory of the process it destroys.                   *)
THEOREM SpacesStay == Spec => SpacesUndisturbed
<1> DEFINE Undisturbed ==
      \A i \in Live :
        (pcb'[i].active /\ pcb'[i].pd = pcb[i].pd)
          => /\ mem'.page[pcb[i].pd] = mem.page[pcb[i].pd]
             /\ mem'.kernel[pcb[i].pd]
<1>1. ASSUME IInv, IInv', [Next]_vars PROVE [Undisturbed]_vars
  <2> SUFFICES ASSUME Next, NEW i \in Live, pcb'[i].active, pcb'[i].pd = pcb[i].pd
               PROVE  /\ mem'.page[pcb[i].pd] = mem.page[pcb[i].pd]
                      /\ mem'.kernel[pcb[i].pd]
    BY <1>1
  <2>0. /\ MemInv(mem) /\ mem \in MemType /\ Spaces(mem, pcb) /\ Spaces(mem', pcb')
        /\ i \in LiveIn(pcb) /\ i \in Active(pcb) /\ i \in Pids /\ pcb[i].pd # NullDir
    BY <1>1 DEF IInv, SpaceInv, MemInv, Live, LiveIn, Active
  <2>1. i \in LiveIn(pcb') /\ mem'.kernel[pcb[i].pd]
    BY <2>0 DEF Spaces, LiveIn, Active
  <2>2. pcb[i].pd \in PoolDirs /\ mem.used[pcb[i].pd]
    BY <2>0 DEF Spaces
  <2>3. CASE \E req \in BootRequests : Boot(req)
    BY <1>1, <2>0, <2>3 DEF Boot, IInv
  <2>4. CASE Timer
    BY <2>0, <2>1, <2>4, SwitchMem DEF Timer
  <2>5. ASSUME NEW req \in Requests, SysExec(req)
        PROVE  mem'.page[pcb[i].pd] = mem.page[pcb[i].pd]
    <3>1. mode = "user" /\ mem' = CreateUserProcess(mem, pcb, count, req).mem
      BY <2>5 DEF SysExec
    <3>2. req \in RequestType
      BY ProcessAssumption
    <3> QED BY <1>1, <2>2, <3>1, <3>2, UserFacts, CreateMemory
  <2>6. CASE SysExit
    <3> DEFINE m == DestroyMem(mem, pcb, cur)
               p == DestroyPcb(pcb, cur)
    <3>1. /\ mode = "user" /\ RunningPcbs(pcb) # {}
          /\ \/ SwitchToNext(m, p)
             \/ mem' = m /\ pcb' = p
      BY <1>1, <2>6, UserFacts DEF SysExit
    <3>2. cur \in Active(pcb) /\ SpaceInv(mem, pcb) /\ cur \in Pids \cup {NoProcess} /\ cpu \in Regs
      BY <1>1, <3>1, UserFacts DEF Active, IInv, TypeOK
    <3>3. SpaceInv(m, p) /\ Active(p) = Active(pcb) \ {cur} /\ RunningPcbs(p) = {}
      <4>1. SpaceInv(m, p) /\ Active(p) = Active(pcb) \ {cur}
            /\ RunningPcbs(p) = RunningPcbs(pcb) \ {cur}
        BY <3>2, DestroyInv
      <4> QED BY <1>1, <3>1, <4>1, UserFacts
    <3>4. \A j \in LiveIn(pcb) \ {cur} : m.page[pcb[j].pd] = mem.page[pcb[j].pd]
      BY <3>2, DestroyMemory
    <3> HIDE DEF m, p
    <3>5. Active(pcb') = Active(p) /\ mem'.page = m.page
      <4>1. m \in MemType
        BY <3>3 DEF SpaceInv, MemInv
      <4>2. CASE SwitchToNext(m, p)
        BY <3>2, <3>3, <4>1, <4>2, SwitchInv, SwitchMem
      <4> QED BY <3>1, <4>2
    <3>6. i # cur
      BY <2>0, <3>3, <3>5, <2>1 DEF LiveIn
    <3> QED BY <2>0, <2>1, <3>4, <3>5, <3>6
  <2>7. ASSUME NEW pid \in Pids, SysKill(pid)
        PROVE  mem'.page[pcb[i].pd] = mem.page[pcb[i].pd]
    <3>1. /\ mode = "user" /\ pid \in Active(pcb)
          /\ mem' = DestroyMem(mem, pcb, pid) /\ pcb' = DestroyPcb(pcb, pid)
      BY <2>7 DEF SysKill, Active
    <3>2. SpaceInv(mem, pcb)
      BY <1>1, <3>1, UserFacts
    <3>3. Active(pcb') = Active(pcb) \ {pid}
      BY <3>1, <3>2, DestroyInv
    <3>4. i # pid
      BY <2>1, <3>3 DEF LiveIn
    <3> QED BY <2>0, <3>1, <3>2, <3>4, DestroyMemory
  <2>8. CASE \/ UserStep \/ SleepEnds \/ SysExitWithoutPcb \/ Fault \/ StaleTranslationLost
             \/ \E k \in Naps : SysSleep(k)
    BY <2>1, <2>8 DEF UserStep, SleepEnds, SysExitWithoutPcb, Fault, StaleTranslationLost, SysSleep
  <2> QED BY <2>1, <2>3, <2>4, <2>5, <2>6, <2>7, <2>8 DEF Next, Exec
<1> QED BY <1>1, SpecIInv, PTL DEF Spec, SpacesUndisturbed

(* An execution that passes the frame check finds a directory: a free      *)
(* frame implies an unused directory, for any pool that has one directory  *)
(* for every pair of frames but the first.                                 *)
THEOREM DirectoryForExec == Spec => ExecFindsDirectory
<1> DEFINE Found ==
      \A req \in Requests : (SysExec(req) /\ FramesNeeded(req) > 0) => mode' # "reset"
<1>1. ASSUME IInv, Pool PROVE Found
  <2> SUFFICES ASSUME NEW req \in Requests, SysExec(req), FramesNeeded(req) > 0,
                      mode' = "reset"
               PROVE  FALSE
    OBVIOUS
  <2>1. mode = "user" /\ mode' = CreateUserProcess(mem, pcb, count, req).mode
    BY DEF SysExec
  <2>2. NewDir(mem) = NullDir /\ CreateCode(mem, count, req) \notin {1, 2, 3}
    BY <2>1 DEF CreateUserProcess
  <2>3. MemInv(mem) /\ Even(mem) /\ mem.free \in Nat /\ PoolInv(mem)
    BY <1>1, <2>1, UserFacts DEF SpaceInv, MemInv, MemType, Pool
  <2>4. mem.free >= 2
    <3>1. AllocateCheck(mem, FramesNeeded(req))
      BY <2>2 DEF CreateCode
    <3>2. FramesNeeded(req) \in Nat
      BY ProcessAssumption DEF FramesNeeded, RequestType
    <3>3. (FramesNeeded(req) + FrameSize - 1) \div FrameSize >= 1
      BY <3>2 DEF FrameSize
    <3>4. mem.free >= 1
      BY <2>3, <3>1, <3>2, <3>3 DEF AllocateCheck, FrameSize
    <3> QED BY <2>3, <3>4 DEF Even
  <2>5. UsedDirs(mem) = PoolDirs
    <3>1. UnusedDirs(mem) \in SUBSET Nat
      BY DEF UnusedDirs, PoolDirs
    <3>2. UnusedDirs(mem) = {}
      BY <2>2, <3>1, LeastIsMinimum DEF NewDir, UnusedDirs, PoolDirs, NullDir
    <3> QED BY <3>2 DEF UnusedDirs, UsedDirs
  <2>6. Cardinality(PoolDirs) = DirCount
    BY FS_Interval, PagingAssumption DEF PoolDirs
  <2> QED BY <2>3, <2>4, <2>5, <2>6, PagingAssumption, PoolAssumption DEF PoolInv
<1> QED BY <1>1, SpecPool, PTL DEF ExecFindsDirectory

-----------------------------------------------------------------------------
(* A switch writes no registers in the list, and the CPU gets those of the *)
(* process it switches to.                                                 *)
LEMMA SwitchRegs ==
  ASSUME NEW m, NEW p \in [Pids -> PcbType], cur \in Pids \cup {NoProcess}, SwitchToNext(m, p)
  PROVE  /\ \A i \in Pids : pcb'[i].regs = p[i].regs
         /\ \A i \in Pids : (cur # i /\ cur' = i) => cpu' = LoadContext(p[i].regs)
<1>1. CASE Active(p) = {}
  BY <1>1 DEF SwitchToNext
<1>2. CASE Active(p) # {}
  <2> DEFINE next == NextActive(p)
  <2>1. next \in Pids
    BY <1>2, NextActiveExists DEF Active
  <2>2. /\ pcb' = [i \in Pids |->
                     IF i = next THEN [p[i] EXCEPT !.state = "RUNNING"]
                     ELSE IF i = cur THEN [p[i] EXCEPT !.state = "READY"]
                     ELSE p[i]]
        /\ cur' = next /\ cpu' = LoadContext(p[next].regs)
    BY <1>2 DEF SwitchToNext
  <2> HIDE DEF next
  <2>3. \A i \in Pids : pcb'[i].regs = p[i].regs
    BY <2>2 DEF PcbType
  <2> QED BY <2>1, <2>2, <2>3
<1> QED BY <1>1, <1>2

(* A creation leaves the other processes' PCBs as they are.                *)
LEMMA CreateOthers ==
  ASSUME NEW m, NEW p \in [Pids -> PcbType], NEW n, n = Cardinality(Active(p)), NEW req,
         NEW i \in Active(p)
  PROVE  CreateUserProcess(m, p, n, req).pcb[i] = p[i]
<1> DEFINE s == InactiveSlot(p)
           r == CreateUserProcess(m, p, n, req)
           d == NewDir(m)
<1>1. r.pcb = p \/ (CreateCode(m, n, req) \notin {1, 2, 3}
                    /\ (r.pcb = TakeSlot(p, s) \/ r.pcb = FillSlot(p, s, d)))
  <2> DEFINE taken == TakeSlot(p, s)
             full  == FillSlot(p, s, d)
             space == NewSpace(m, req)
  <2>1. \/ r = [mem |-> m, pcb |-> p, count |-> n, mode |-> "user"]
        \/ /\ CreateCode(m, n, req) \notin {1, 2, 3}
           /\ \/ r = [mem |-> UsePageDirectory(m, NullDir), pcb |-> taken,
                      count |-> n + 1, mode |-> "reset"]
              \/ /\ d # NullDir
                 /\ \/ r = [mem |-> space, pcb |-> taken, count |-> n + 1, mode |-> "user"]
                    \/ r = [mem |-> space, pcb |-> taken, count |-> n + 1, mode |-> "halt"]
                    \/ r = [mem |-> UsePageDirectory(space, m.cr3), pcb |-> full,
                            count |-> n + 1, mode |-> "user"]
    BY CreateCases
  <2> HIDE DEF taken, full, space, d, r
  <2>2. r.pcb = p \/ (CreateCode(m, n, req) \notin {1, 2, 3} /\ (r.pcb = taken \/ r.pcb = full))
    BY <2>1
  <2> QED BY <2>2 DEF taken, full
<1>2. CreateCode(m, n, req) \notin {1, 2, 3} => s \in Pids \ Active(p)
  <2>1. CreateCode(m, n, req) \notin {1, 2, 3} => ~(n >= ProcessMax)
    BY DEF CreateCode
  <2>2. n \in Nat /\ ProcessMax \in Nat
    BY ActiveFinite, ProcessAssumption
  <2> QED BY <2>1, <2>2, SlotExists
<1>3. i \in Pids
  BY DEF Active
<1> HIDE DEF r, s, d
<1>4. s \in Pids \ Active(p) => TakeSlot(p, s)[i] = p[i] /\ FillSlot(p, s, d)[i] = p[i]
  BY <1>3 DEF TakeSlot, FillSlot
<1> QED BY <1>1, <1>2, <1>4 DEF r

(* A preempted process leaves the registers of the CPU in its PCB, they    *)
(* stay there while it waits, and it finds them again but for EAX: for any *)
(* number of processes and values of the registers, whatever is created    *)
(* and destroyed in between (scheduler.c:22-60, context-switch.s:5-56).    *)
THEOREM ContextStays == Spec => ContextKept
<1> DEFINE Kept ==
      \A i \in Live :
        pcb'[i].active =>
          /\ (i \in RunningPcbs(pcb) /\ pcb'[i].state = "READY") => pcb'[i].regs = cpu
          /\ i # cur /\ pcb'[i].pd = pcb[i].pd => pcb'[i].regs = pcb[i].regs
          /\ (cur # i /\ cur' = i) => [cpu' EXCEPT !.eax = Zero] = [pcb[i].regs EXCEPT !.eax = Zero]
<1>1. ASSUME IInv, [Next]_vars PROVE [Kept]_vars
  <2> SUFFICES ASSUME Next, NEW i \in Live, pcb'[i].active
               PROVE  /\ (i \in RunningPcbs(pcb) /\ pcb'[i].state = "READY") => pcb'[i].regs = cpu
                      /\ i # cur => pcb'[i].regs = pcb[i].regs
                      /\ (cur # i /\ cur' = i) =>
                           [cpu' EXCEPT !.eax = Zero] = [pcb[i].regs EXCEPT !.eax = Zero]
    BY <1>1
  <2>0. /\ i \in Active(pcb) /\ i \in Pids /\ pcb \in [Pids -> PcbType]
        /\ cur \in Pids \cup {NoProcess} /\ cpu \in Regs /\ pcb[i].regs \in Regs
        /\ RunningPcbs(pcb) \subseteq {cur}
    BY <1>1 DEF Live, LiveIn, Active, IInv, TypeOK, RunningIsCurrent, PcbType
  <2>1. [LoadContext(pcb[i].regs) EXCEPT !.eax = Zero] = [pcb[i].regs EXCEPT !.eax = Zero]
    BY <2>0 DEF LoadContext, Regs
  <2>2. CASE \E req \in BootRequests : Boot(req)
    BY <1>1, <2>0, <2>2 DEF Boot, IInv
  <2>3. CASE Timer
    <3> DEFINE q == SaveContext(pcb, cpu)
    <3>1. /\ mode = "user" /\ SwitchToNext(mem, q)
      BY <2>3 DEF Timer
    <3>2. /\ q \in [Pids -> PcbType]
          /\ i # cur => q[i] = pcb[i]
          /\ i \in RunningPcbs(pcb) => q[i].regs = cpu
      <4>1. CASE RunningPcbs(pcb) = {}
        BY <2>0, <4>1 DEF SaveContext
      <4>2. CASE RunningPcbs(pcb) # {}
        <5>1. cur \in Pids /\ Least(RunningPcbs(pcb)) = cur
          BY <1>1, <3>1, <4>2, UserFacts
        <5>2. q = [pcb EXCEPT ![cur] = [pcb[cur] EXCEPT !.state = "READY", !.regs = cpu]]
          BY <4>2, <5>1 DEF SaveContext
        <5> HIDE DEF q
        <5> QED BY <2>0, <5>1, <5>2, Zenon DEF PcbType
      <4> QED BY <4>1, <4>2
    <3> HIDE DEF q
    <3>3. /\ pcb'[i].regs = q[i].regs
          /\ (cur # i /\ cur' = i) => cpu' = LoadContext(q[i].regs)
      BY <2>0, <3>1, <3>2, SwitchRegs
    <3> QED BY <2>0, <2>1, <3>2, <3>3
  <2>4. ASSUME NEW req \in Requests, SysExec(req)
        PROVE  pcb'[i] = pcb[i] /\ cur' = cur
    <3>1. mode = "user" /\ pcb' = CreateUserProcess(mem, pcb, count, req).pcb /\ cur' = cur
      BY <2>4 DEF SysExec
    <3>2. count = Cardinality(Active(pcb))
      BY <1>1, <3>1, UserFacts
    <3> QED BY <2>0, <3>1, <3>2, CreateOthers
  <2>5. CASE SysExit
    <3> DEFINE m == DestroyMem(mem, pcb, cur)
               p == DestroyPcb(pcb, cur)
    <3>1. /\ mode = "user" /\ RunningPcbs(pcb) # {} /\ cur \in Pids
          /\ \/ SwitchToNext(m, p)
             \/ pcb' = p /\ cur' = cur
      BY <1>1, <2>5, UserFacts DEF SysExit
    <3>2. /\ p \in [Pids -> PcbType] /\ p[cur] = EmptyPcb /\ ~p[cur].active
          /\ \A j \in Pids : j # cur => p[j] = pcb[j]
      <4>1. EmptyPcb \in PcbType /\ ~EmptyPcb.active
        BY ProcessAssumption DEF EmptyPcb, PcbType, ZeroRegs, Regs
      <4> HIDE DEF EmptyPcb, PcbType
      <4> QED BY <2>0, <3>1, <4>1 DEF DestroyPcb
    <3> HIDE DEF m, p
    <3>3. CASE pcb' = p /\ cur' = cur
      BY <2>0, <3>1, <3>2, <3>3
    <3>4. CASE SwitchToNext(m, p)
      <4>1. /\ pcb'[i].regs = p[i].regs
            /\ (cur # i /\ cur' = i) => cpu' = LoadContext(p[i].regs)
        BY <2>0, <3>2, <3>4, SwitchRegs
      <4>2. i # cur
        <5>1. pcb'[i].active => p[i].active
          BY <2>0, <3>2, <3>4 DEF SwitchToNext, PcbType
        <5> QED BY <3>2, <5>1
      <4> QED BY <2>0, <2>1, <3>2, <4>1, <4>2
    <3> QED BY <3>1, <3>3, <3>4
  <2>6. ASSUME NEW pid \in Pids, SysKill(pid)
        PROVE  pcb'[i] = pcb[i] /\ cur' = cur
    <3>1. pcb' = [pcb EXCEPT ![pid] = EmptyPcb] /\ cur' = cur
      BY <2>6 DEF SysKill, DestroyPcb
    <3>2. i # pid
      BY <2>0, <3>1 DEF EmptyPcb
    <3> QED BY <2>0, <3>1, <3>2
  <2>7. CASE \/ UserStep \/ SleepEnds \/ SysExitWithoutPcb \/ Fault \/ StaleTranslationLost
             \/ \E k \in Naps : SysSleep(k)
    <3>1. pcb' = pcb /\ cur' = cur
      BY <2>7 DEF UserStep, SleepEnds, SysExitWithoutPcb, Fault, StaleTranslationLost, SysSleep
    <3> QED BY <3>1 DEF RunningPcbs
  <2>8. i \in RunningPcbs(pcb) => pcb[i].state = "RUNNING"
    BY DEF RunningPcbs
  <2> QED BY <2>2, <2>3, <2>4, <2>5, <2>6, <2>7, <2>8 DEF Next, Exec
<1> QED BY <1>1, SpecIInv, PTL DEF Spec, ContextKept
=============================================================================
