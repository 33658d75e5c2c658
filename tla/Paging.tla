------------------------------- MODULE Paging -------------------------------
(***************************************************************************)
(* The page manager (memory/paging.c): 4 MiB physical frames, a fixed pool *)
(* of page directories and the CR3 register.  Every function of the file   *)
(* is an operator from a page-manager state to the next one, so that a     *)
(* caller that makes several calls (process creation) can chain them.      *)
(***************************************************************************)
EXTENDS Integers, FiniteSets

CONSTANTS
  FrameCount,  \* PAGE_FRAME_MAX_COUNT: physical frames; frame 0 is the kernel
  DirCount,    \* PAGING_DIRECTORY_TABLE_MAX_COUNT: directories in the pool
  UserPages,   \* the 4 MiB virtual pages below 0xC0000000 that are used
  LowPage,     \* the page of virtual address 0
  StackPage    \* the page of virtual address 0xBFFFFFFC

ASSUME PagingAssumption ==
  /\ FrameCount \in Nat \ {0, 1}
  /\ DirCount \in Nat \ {0}
  /\ LowPage \in UserPages
  /\ StackPage \in UserPages
  /\ LowPage # StackPage

(* lower_address, which holds a frame number, has 10 bits.                 *)
ASSUME FrameNumberFits == FrameCount <= 1024

Frames    == 0 .. FrameCount - 1
NoFrame   == -1                    \* an entry whose present bit is clear
PoolDirs  == 1 .. DirCount         \* page_directory_list[]
KernelDir == 0                     \* _paging_kernel_page_directory
NullDir   == -1                    \* NULL
Dirs      == {KernelDir} \cup PoolDirs

VARIABLE mem

(* page_manager_state, page_directory_manager, the directories' entries    *)
(* (user pages, and whether entry 0x300 maps the kernel), and CR3.         *)
MemType ==
  [map    : [Frames -> BOOLEAN],
   free   : Nat,
   used   : [PoolDirs -> BOOLEAN],
   page   : [Dirs -> [UserPages -> Frames \cup {NoFrame}]],
   kernel : [Dirs -> BOOLEAN],
   cr3    : Dirs \cup {NullDir}]

(* The static initialisers: only frame 0 is taken, and the kernel's own    *)
(* directory maps it at virtual address 0 and at 0xC0000000.               *)
StaticMem ==
  [map    |-> [f \in Frames |-> f = 0],
   free   |-> FrameCount - 1,
   used   |-> [d \in PoolDirs |-> FALSE],
   page   |-> [d \in Dirs |-> [u \in UserPages |->
                 IF d = KernelDir /\ u = LowPage THEN 0 ELSE NoFrame]],
   kernel |-> [d \in Dirs |-> d = KernelDir],
   cr3    |-> KernelDir]

-----------------------------------------------------------------------------
Least(S) == CHOOSE x \in S : \A y \in S : x <= y

FrameSize == 4194304

(* Mutant of AllocateCheck: no check.                                      *)
AllocateUnchecked(m, amount) == TRUE

AllocateCheck(m, amount) ==
  m.free >= (amount + FrameSize - 1) \div FrameSize

(* Mutant of FreeFrames: the map is not consulted.                         *)
AllFrames(m) == Frames \ {0}

FreeFrames(m) == {f \in Frames \ {0} : ~m.map[f]}

WithEntry(page, d, u, f) == [page EXCEPT ![d] = [page[d] EXCEPT ![u] = f]]

(* Mutant of AllocateUserPageFrame: the count is not maintained.           *)
AllocateUncounted(m, d, u) ==
  IF m.free = 0 \/ FreeFrames(m) = {}
  THEN m
  ELSE LET f == Least(FreeFrames(m))
       IN  [m EXCEPT !.map  = [m.map EXCEPT ![f] = TRUE],
                     !.page = WithEntry(m.page, d, u, f)]

(* The lowest free frame is mapped at u; with none left nothing changes,   *)
(* and the result the callers ignore is not part of the state.             *)
AllocateUserPageFrame(m, d, u) ==
  IF m.free = 0 \/ FreeFrames(m) = {}
  THEN m
  ELSE LET f == Least(FreeFrames(m))
       IN  [m EXCEPT !.map  = [m.map EXCEPT ![f] = TRUE],
                     !.page = WithEntry(m.page, d, u, f),
                     !.free = m.free - 1]

(* lower_address is a 10-bit frame number, and it is shifted by 22 once    *)
(* more before it indexes the map: i is -1 for every frame, which is the   *)
(* byte before the map and not one of its elements.                        *)
FreeUserPageFrame(m, d, u) ==
  LET i == (m.page[d][u] \div FrameSize) - 1
  IN  IF m.page[d][u] = NoFrame
      THEN m
      ELSE [m EXCEPT !.map  = [f \in Frames |-> f # i /\ m.map[f]],
                     !.page = WithEntry(m.page, d, u, NoFrame)]

UnusedDirs(m) == {d \in PoolDirs : ~m.used[d]}

(* The directory paging_create_new_page_directory returns.                 *)
NewDir(m) == IF UnusedDirs(m) = {} THEN NullDir ELSE Least(UnusedDirs(m))

(* Mutant of CreateNewPageDirectory: the directory is not marked used.     *)
CreateUnmarked(m) ==
  IF UnusedDirs(m) = {}
  THEN m
  ELSE [m EXCEPT !.kernel = [m.kernel EXCEPT ![NewDir(m)] = TRUE]]

CreateNewPageDirectory(m) ==
  IF UnusedDirs(m) = {}
  THEN m
  ELSE [m EXCEPT !.used   = [m.used EXCEPT ![NewDir(m)] = TRUE],
                 !.kernel = [m.kernel EXCEPT ![NewDir(m)] = TRUE]]

(* Mutant of FreePageDirectory: the entries are left as they are.          *)
FreeUncleared(m, d) ==
  IF d \notin PoolDirs THEN m ELSE [m EXCEPT !.used = [m.used EXCEPT ![d] = FALSE]]

(* Mutant of FreePageDirectory: it clears the entries of the next one.     *)
FreeNext(m, d) ==
  IF d \notin PoolDirs
  THEN m
  ELSE [m EXCEPT !.used = [m.used EXCEPT ![d] = FALSE],
                 !.page = [e \in Dirs |-> IF e = d + 1 THEN [u \in UserPages |-> NoFrame]
                                          ELSE m.page[e]]]

(* Clears all 1024 entries, the kernel's among them, even when CR3 points  *)
(* at this directory.  The frames stay marked.                             *)
FreePageDirectory(m, d) ==
  IF d \notin PoolDirs
  THEN m
  ELSE [m EXCEPT !.used   = [m.used EXCEPT ![d] = FALSE],
                 !.page   = [m.page EXCEPT ![d] = [u \in UserPages |-> NoFrame]],
                 !.kernel = [m.kernel EXCEPT ![d] = FALSE]]

(* Mutant of UsePageDirectory: CR3 is not loaded.                          *)
UseNone(m, d) == m

UsePageDirectory(m, d) == [m EXCEPT !.cr3 = d]

-----------------------------------------------------------------------------
(***************************************************************************)
(* The interface on its own: kernel code may call the functions in any     *)
(* order, on directories it has been given.                                *)
(***************************************************************************)
Held == {KernelDir} \cup {d \in PoolDirs : mem.used[d]}

CallAllocate == \E d \in Held, u \in UserPages :
              mem' = AllocateUserPageFrame(mem, d, u)
CallFree     == \E d \in Held, u \in UserPages :
              mem' = FreeUserPageFrame(mem, d, u)
CallCreate   == mem' = CreateNewPageDirectory(mem)
CallFreeDir  == \E d \in Held : mem' = FreePageDirectory(mem, d)
CallUse      == \E d \in Held : mem' = UsePageDirectory(mem, d)

PagingInit == mem = StaticMem
PagingNext == CallAllocate \/ CallFree \/ CallCreate \/ CallFreeDir \/ CallUse
PagingSpec == PagingInit /\ [][PagingNext]_mem

-----------------------------------------------------------------------------
Isolated(m) ==
  \A d, e \in Dirs : \A u, v \in UserPages :
    (m.page[d][u] # NoFrame /\ m.page[d][u] = m.page[e][v])
      => (d = e /\ u = v)

Marked(m) ==
  /\ \A d \in Dirs : \A u \in UserPages :
       m.page[d][u] # NoFrame => m.map[m.page[d][u]]
  /\ \A d \in PoolDirs : ~m.used[d] =>
       ~m.kernel[d] /\ \A u \in UserPages : m.page[d][u] = NoFrame

Counted(m) == m.free = Cardinality({f \in Frames : ~m.map[f]})

(* A physical frame is mapped by at most one entry of all the directories, *)
(* so no two address spaces ever share user memory: allocation never hands *)
(* out a frame that some directory still maps (paging.c:58-95, 169-192).   *)
FrameIsolation == Isolated(mem)

(* Every mapped frame is marked used in page_frame_map, and a directory    *)
(* that is not in use maps nothing, not even the kernel, so that a fresh   *)
(* one starts empty (paging.c:133-192).                                    *)
MappedIsMarked == Marked(mem)

(* free_page_frame_count, which allocation trusts before it scans the map, *)
(* is the number of unmarked frames (paging.c:71-91).                      *)
FreeCountExact == Counted(mem)
=============================================================================
