------------------------------ MODULE FileStore ------------------------------
(***************************************************************************)
(* What the file system promises its callers: directories in which a name  *)
(* stands for a file's data or for another directory.  No blocks, records, *)
(* bitmaps or counts.  The code lets a name be written again while it is   *)
(* there (ext2.c:557): the new one hides the old one until it is deleted,  *)
(* so a name has a stack of entries.  A call is refused or done as a       *)
(* whole; the only thing a full disk may do is to cut a file short.        *)
(***************************************************************************)
EXTENDS Integers, Sequences

CONSTANTS
  Ids,        \* inode numbers
  RootId,     \* the root directory's
  Names,      \* names of entries, without "." and ".."
  Cells,      \* what a block of a file may hold
  Contents    \* what callers write: sequences of blocks

ASSUME StoreAssumption == RootId \in Ids /\ Contents \subseteq Seq(Cells)

VARIABLE tree

(* An entry, with the size and the data of the inode it names.             *)
EntryOf(type, id, size, data) == [type |-> type, id |-> id, size |-> size, data |-> data]
EntryType == [type : {"reg", "dir"}, id : Ids, size : Nat, data : Seq(Cells)]

EntriesAt(t, d, n) == LET s == t[d][n] IN {s[k] : k \in DOMAIN s}
EntriesIn(t, d)    == UNION {EntriesAt(t, d, n) : n \in Names}
Entries(t)         == UNION {EntriesIn(t, d) : d \in Ids}
Used(t)    == {RootId} \cup {e.id : e \in Entries(t)}
Dirs(t)    == {RootId} \cup {e.id : e \in {x \in Entries(t) : x.type = "dir"}}

Nothing        == [n \in Names |-> <<>>]
Holds(t, d, n) == t[d][n] # <<>>

With(t, d, n, stack) == [t EXCEPT ![d] = [t[d] EXCEPT ![n] = stack]]
Push(t, d, n, e)     == With(t, d, n, <<e>> \o t[d][n])
Pop(t, d, n)         == With(t, d, n, Tail(t[d][n]))

Outcome(t, code) == [tree |-> t, code |-> code]

(* What a file may hold after a write of data.                             *)
CutShort(data) == {SubSeq(data, 1, k) : k \in 0 .. Len(data)}

(* Mutant of Stored: the inode of a file is taken for a free one.          *)
StoredOverFiles(t, d, n, type, data) ==
  {Outcome(Push(t, d, n, EntryOf(type, i, Len(data), q)), 0) :
     i \in Ids \ Dirs(t), q \in CutShort(data)}

Stored(t, d, n, type, data) ==
  {Outcome(Push(t, d, n, EntryOf(type, i, Len(data), q)), 0) :
     i \in Ids \ Used(t), q \in CutShort(data)}

(* write: 2 without the directory, 1 when the name is there, -1 when the   *)
(* disk is full.                                                           *)
WriteOutcomes(t, d, n, type, data) ==
  IF d \notin Dirs(t) THEN {Outcome(t, 2)}
  ELSE {Outcome(t, -1)} \cup Stored(t, d, n, type, data)
         \cup (IF Holds(t, d, n) THEN {Outcome(t, 1)} ELSE {})

(* Mutants of DeleteOutcomes: a directory goes whatever it holds; an entry *)
(* goes whatever its type.                                                 *)
DeleteAnyway(t, d, n, type) ==
  IF d \notin Dirs(t) THEN {Outcome(t, -1)}
  ELSE IF ~Holds(t, d, n) THEN {Outcome(t, 1)}
  ELSE IF Head(t[d][n]).type # type THEN {Outcome(t, 1)}
  ELSE {Outcome(Pop(t, d, n), 0)}

DeleteAnyType(t, d, n, type) ==
  IF d \notin Dirs(t) THEN {Outcome(t, -1)}
  ELSE IF ~Holds(t, d, n) THEN {Outcome(t, 1)}
  ELSE IF type = "reg" THEN {Outcome(Pop(t, d, n), 0)}
  ELSE {Outcome(t, 2)}
         \cup (IF t[Head(t[d][n]).id] = Nothing THEN {Outcome(Pop(t, d, n), 0)} ELSE {})

(* delete: -1 without the directory, 1 without the name or with the other  *)
(* type, 2 for a directory that is not empty; the code may take an empty   *)
(* directory for one that is not (ext2.c:279).                             *)
DeleteOutcomes(t, d, n, type) ==
  IF d \notin Dirs(t) THEN {Outcome(t, -1)}
  ELSE IF ~Holds(t, d, n) THEN {Outcome(t, 1)}
  ELSE IF Head(t[d][n]).type # type THEN {Outcome(t, 1)}
  ELSE IF type = "reg" THEN {Outcome(Pop(t, d, n), 0)}
  ELSE {Outcome(t, 2)}
         \cup (IF t[Head(t[d][n]).id] = Nothing THEN {Outcome(Pop(t, d, n), 0)} ELSE {})

(* read_directory of "." in d, and what read finds: a code and the data.   *)
ListCode(t, d) == IF d \in Dirs(t) THEN 0 ELSE -1

ReadCode(t, d, n, room) ==
  IF d \notin Dirs(t) THEN -1
  ELSE IF ~Holds(t, d, n) THEN 2
  ELSE IF Head(t[d][n]).type # "reg" THEN 1
  ELSE IF Head(t[d][n]).size > room THEN -1
  ELSE 0

StoreInit == tree = [d \in Ids |-> Nothing]

(* Every way that a call about n in d may end.                             *)
Calls(t, d, n) ==
  WriteOutcomes(t, d, n, "dir", <<>>)
    \cup (UNION {WriteOutcomes(t, d, n, "reg", data) : data \in Contents})
    \cup (UNION {DeleteOutcomes(t, d, n, type) : type \in {"reg", "dir"}})

(* A call that changes nothing is no step.                                 *)
StoreNext ==
  LET t == tree
  IN  /\ tree' # t
      /\ \E d \in Ids, n \in Names : tree' \in {o.tree : o \in Calls(t, d, n)}

StoreSpec == StoreInit /\ [][StoreNext]_tree

-----------------------------------------------------------------------------
StoreTypeOK == tree \in [Ids -> [Names -> Seq(EntryType)]]

(* No inode has two entries, and none names the root: the directories form *)
(* a tree for whoever uses their numbers, whatever is written and deleted  *)
(* in between (ext2.c:515-806).                                            *)
OneEntry ==
  /\ \A e \in Entries(tree) : e.id # RootId
  /\ \A c, d \in Ids, m, n \in Names : \A j \in DOMAIN tree[c][m], k \in DOMAIN tree[d][n] :
       tree[c][m][j].id = tree[d][n][k].id => c = d /\ m = n /\ j = k

(* A number that no entry names holds no entries: when it is given to a    *)
(* new directory, nothing of the old one comes back (ext2.c:963).          *)
DeadIsEmpty == \A d \in Ids \ Dirs(tree) : tree[d] = Nothing

(* Every directory hangs on the root: whatever set of directories one      *)
(* picks, one of them has its entry outside of the set (ext2.c:755-765).   *)
Rooted ==
  \A S \in SUBSET (Dirs(tree) \ {RootId}) :
    S # {} => \E d \in Dirs(tree) \ S, n \in Names : \E k \in DOMAIN tree[d][n] :
                tree[d][n][k].type = "dir" /\ tree[d][n][k].id \in S
=============================================================================
