-------------------------------- MODULE Shells --------------------------------
(***************************************************************************)
(* The commands of the shell that change the file system (commands/rm.c,   *)
(* cp.c, mv.c, mkdir.c, touch.c, echo.c) and cd, run by several shells on  *)
(* one FileStore.  A step is one system call with what the program does    *)
(* before the next; the timer may let another shell run between any two.   *)
(* The recursive functions are frames of a stack, the innermost first.     *)
(***************************************************************************)
EXTENDS FileStore, FiniteSets

CONSTANTS
  Shells,
  Lines,     \* Lines[s]: what is typed to shell s
  Bin,       \* the inode of /bin (2 in the code), made before the start
  BinName,
  Room,      \* blocks in the buffer of copy_file (16 in the code)
  Junk,      \* a block of that buffer that nothing was read into
  Excused,   \* whether MoveExact and its like except a disk that is full
  None       \* no inode: 0; also, no history

ASSUME ShellAssumption ==
  /\ Bin \in Ids \ {RootId} /\ BinName \in Names
  /\ Room \in Nat /\ Junk \in Cells /\ None \notin Ids /\ Excused \in BOOLEAN
  /\ \A s \in Shells : \A l \in Lines[s] :
       \/ l \in {"rm", "rmr", "mkdir", "touch"} \X Names
       \/ l \in {"cp", "cpr", "mv"} \X Names \X Names
       \/ l \in {"cd"} \X Seq(Names \cup {".."})
       \/ l \in {"echo"} \X Names \X Seq(Cells)

VARIABLES
  sh,       \* sh[s]: current_inode, the stack, what the last function returned
  began,    \* began[s]: the tree when s began its command, while no call of it
            \* was misread or, where that is Excused, met a full disk, and no
            \* other shell changed the tree
  scope     \* scope[s]: the directories that rm -r may touch

vars == <<tree, sh, began, scope>>

Busy(s) == sh[s].stack # <<>>
Top(s)  == Head(sh[s].stack)

At(p, f)      == [p EXCEPT !.stack = <<f>> \o Tail(p.stack)]
Into(p, f, g) == [p EXCEPT !.stack = <<g, f>> \o Tail(p.stack)]
Back(p, r)    == [p EXCEPT !.stack = Tail(p.stack), !.result = IF Len(p.stack) = 1 THEN 0 ELSE r]

(* The handler stores a code in one byte of a variable that the commands   *)
(* leave uninitialised (interrupt.c:114, rm.c:71): a zero may be read as   *)
(* something else, anything else is never read as zero.                    *)
Sees(code) == IF code = 0 THEN BOOLEAN ELSE {FALSE}

(* The histories after a step of s, bad when something went wrong in it.   *)
Remember(s, bad) ==
  /\ began' = [x \in Shells |->
       IF (x = s /\ (bad \/ sh'[s].stack = <<>>)) \/ (x # s /\ tree' # tree) THEN None ELSE began[x]]
  /\ scope' = [x \in Shells |->
       IF sh'[x].stack = <<>> THEN {} ELSE IF Dirs(tree') \subseteq Dirs(tree) THEN scope[x] ELSE Ids]

(* What s does between two system calls.                                   *)
Going(s, p) ==
  /\ sh' = [sh EXCEPT ![s] = p]
  /\ tree' = tree
  /\ Remember(s, FALSE)

(* One system call of s.  good and bad are what s goes on with.            *)
Calling(s, outcomes, good, bad) ==
  \E o \in outcomes : \E ok \in Sees(o.code) :
    /\ tree' = o.tree
    /\ sh' = [sh EXCEPT ![s] = IF ok THEN good ELSE bad]
    /\ Remember(s, (\E x \in outcomes : x.code = 0) /\ ~ok)

Looking(s, code, good, bad) == Calling(s, {Outcome(tree, code)}, good, bad)

(* The disk may be full: a write is refused, or cut short unnoticed.       *)
Writing(s, d, n, type, data, good, bad) ==
  LET all   == WriteOutcomes(tree, d, n, type, data)
      whole == {Outcome(Push(tree, d, n, EntryOf(type, i, Len(data), data)), 0) :
                  i \in Ids \ Used(tree)}
      full  == {o \in all : o.code \in {0, -1}} \ whole
  IN  \/ Calling(s, all \ full, good, bad)
      \/ \E o \in full : /\ tree' = o.tree
                        /\ sh' = [sh EXCEPT ![s] = IF o.code = 0 THEN good ELSE bad]
                        /\ Remember(s, Excused)

Deleting(s, d, n, type, good, bad) ==
  Calling(s, DeleteOutcomes(tree, d, n, type), good, bad)

(* get_inode_by_name: read_directory, then the first entry with the name.  *)
InodeNamed(d, n) ==
  IF d \in Dirs(tree) /\ Holds(tree, d, n) THEN Head(tree[d][n]).id ELSE None

Finding(s, d, n, found, lost) ==
  Looking(s, ListCode(tree, d), IF InodeNamed(d, n) = None THEN lost ELSE found, lost)

(* The entries of a directory, which the loops take one by one.            *)
Listing(t, d) ==
  UNION {{[name |-> n, nth |-> k, type |-> t[d][n][k].type] : k \in DOMAIN t[d][n]} : n \in Names}

-----------------------------------------------------------------------------
(* copy_file                                                               *)
FileFrame(sd, sn, dd, dn) ==
  [op |-> "file", at |-> "read", sd |-> sd, sn |-> sn, dd |-> dd, dn |-> dn, data |-> <<>>]

Buffer(data) == data \o [k \in 1 .. Room - Len(data) |-> Junk]

CopyFile(s) ==
  LET p == sh[s]
      f == Top(s)
  IN  /\ f.op = "file"
      /\ \/ /\ f.at = "read"
            /\ LET code == ReadCode(tree, f.sd, f.sn, Room)
                   data == IF code = 0 THEN Head(tree[f.sd][f.sn]).data ELSE <<>>
               IN  Looking(s, code, At(p, [f EXCEPT !.at = "write", !.data = Buffer(data)]), Back(p, -1))
         \/ /\ f.at = "write"
            /\ Writing(s, f.dd, f.dn, "reg", f.data, Back(p, 0), Back(p, -1))

(* copy_dir_recursive                                                      *)
CopyFrame(sd, sn, dd, dn) ==
  [op |-> "copy", at |-> "mkdir", sd |-> sd, sn |-> sn, dd |-> dd, dn |-> dn,
   src |-> None, dst |-> None, todo |-> {}]

(* Mutant of Child: the copy goes to the directory that is copied from.    *)
ChildBeside(f, e) ==
  IF e.type = "dir" THEN CopyFrame(f.src, e.name, f.src, e.name)
                    ELSE FileFrame(f.src, e.name, f.dst, e.name)

Child(f, e) ==
  IF e.type = "dir" THEN CopyFrame(f.src, e.name, f.dst, e.name)
                    ELSE FileFrame(f.src, e.name, f.dst, e.name)

(* Mutant of Later: the loop ends after an entry.                          *)
LaterNone(f, e) == [f EXCEPT !.todo = {}]

Later(f, e) == [f EXCEPT !.todo = f.todo \ {e}]

CopyDir(s) ==
  LET p == sh[s]
      f == Top(s)
  IN  /\ f.op = "copy"
      /\ \/ /\ f.at = "mkdir"
            /\ Writing(s, f.dd, f.dn, "dir", <<>>, At(p, [f EXCEPT !.at = "src"]), Back(p, -1))
         \/ /\ f.at = "src"
            /\ Finding(s, f.sd, f.sn,
                       At(p, [f EXCEPT !.at = "dst", !.src = InodeNamed(f.sd, f.sn)]), Back(p, -1))
         \/ /\ f.at = "dst"
            /\ Finding(s, f.dd, f.dn,
                       At(p, [f EXCEPT !.at = "list", !.dst = InodeNamed(f.dd, f.dn)]), Back(p, -1))
         \/ /\ f.at = "list"
            /\ Looking(s, ListCode(tree, f.src),
                       At(p, [f EXCEPT !.at = "each", !.todo = Listing(tree, f.src)]), Back(p, -1))

CopyEach(s) ==
  LET p == sh[s]
      f == Top(s)
  IN  /\ f.op = "copy" /\ f.at = "each"
      /\ \/ f.todo = {} /\ Going(s, Back(p, 0))
         \/ \E e \in f.todo : Going(s, Into(p, Later(f, e), Child(f, e)))

-----------------------------------------------------------------------------
(* remove_recursive                                                        *)
RemoveFrame(d, n) ==
  [op |-> "remove", at |-> "file", d |-> d, n |-> n, ino |-> None, todo |-> {}]

(* Mutant of RemoveChild: the entry is looked for in the parent.           *)
RemoveChildAbove(f, e) == RemoveFrame(f.d, e.name)

RemoveChild(f, e) == RemoveFrame(f.ino, e.name)

Remove(s) ==
  LET p == sh[s]
      f == Top(s)
  IN  /\ f.op = "remove"
      /\ \/ /\ f.at = "file"
            /\ Deleting(s, f.d, f.n, "reg", Back(p, 0), At(p, [f EXCEPT !.at = "find"]))
         \/ /\ f.at = "find"
            /\ Finding(s, f.d, f.n,
                       At(p, [f EXCEPT !.at = "list", !.ino = InodeNamed(f.d, f.n)]), Back(p, 0))
         \/ /\ f.at = "list"
            /\ Looking(s, ListCode(tree, f.ino),
                       At(p, [f EXCEPT !.at = "each", !.todo = Listing(tree, f.ino)]), Back(p, 0))
         \/ /\ f.at = "dir"
            /\ Deleting(s, f.d, f.n, "dir", Back(p, 0), Back(p, 0))

RemoveEach(s) ==
  LET p == sh[s]
      f == Top(s)
  IN  /\ f.op = "remove" /\ f.at = "each"
      /\ \/ f.todo = {} /\ Going(s, At(p, [f EXCEPT !.at = "dir"]))
         \/ \E e \in f.todo : Going(s, Into(p, Later(f, e), RemoveChild(f, e)))

-----------------------------------------------------------------------------
(* rm without -r: as a file, then as a directory.                          *)
RmStep(s) ==
  LET p == sh[s]
      f == Top(s)
  IN  /\ f.op = "rm"
      /\ \/ /\ f.at = "file"
            /\ Deleting(s, p.cwd, f.n, "reg", Back(p, 0), At(p, [f EXCEPT !.at = "dir"]))
         \/ /\ f.at = "dir"
            /\ Deleting(s, p.cwd, f.n, "dir", Back(p, 0), Back(p, 0))

(* cp and mv up to the copy, which goes on in a frame of its own.          *)
CopyOf(p, f, dir) ==
  IF dir THEN CopyFrame(p.cwd, f.from, p.cwd, f.to) ELSE FileFrame(p.cwd, f.from, p.cwd, f.to)

CpStep(s) ==
  LET p == sh[s]
      f == Top(s)
      source == InodeNamed(p.cwd, f.from)
      copying(dir) == Into(p, [f EXCEPT !.at = "copied"], CopyOf(p, f, dir))
  IN  /\ f.op = "cp"
      /\ \/ /\ f.at = "source"
            /\ Finding(s, p.cwd, f.from,
                       IF source = Bin THEN Back(p, -1)
                       ELSE At(p, [f EXCEPT !.at = "kind", !.src = source]),
                       Back(p, -1))
         \/ /\ f.at = "kind"
            /\ Looking(s, ListCode(tree, f.src),
                       IF f.rec THEN copying(TRUE) ELSE Back(p, -1), copying(FALSE))
         \/ f.at = "copied" /\ Going(s, Back(p, p.result))

(* Mutant of MvCopied: the source is removed whatever the copy returned.   *)
MvCopiedAnyhow(p, f) ==
  IF f.dir THEN Into(p, [f EXCEPT !.at = "done"], RemoveFrame(p.cwd, f.from))
  ELSE At(p, [f EXCEPT !.at = "delete"])

MvCopied(p, f) ==
  IF p.result # 0 THEN Back(p, -1)
  ELSE IF f.dir THEN Into(p, [f EXCEPT !.at = "done"], RemoveFrame(p.cwd, f.from))
  ELSE At(p, [f EXCEPT !.at = "delete"])

MvStep(s) ==
  LET p == sh[s]
      f == Top(s)
      copying(dir) == Into(p, [f EXCEPT !.at = "copied", !.dir = dir], CopyOf(p, f, dir))
  IN  /\ f.op = "mv"
      /\ \/ /\ f.at = "source"
            /\ Finding(s, p.cwd, f.from,
                       At(p, [f EXCEPT !.at = "dest", !.src = InodeNamed(p.cwd, f.from)]), Back(p, -1))
         \/ /\ f.at = "dest"
            /\ Finding(s, p.cwd, f.to, Back(p, -1),
                       IF f.src = Bin THEN Back(p, -1) ELSE At(p, [f EXCEPT !.at = "kind"]))
         \/ /\ f.at = "kind"
            /\ Looking(s, ListCode(tree, f.src), copying(TRUE), copying(FALSE))
         \/ /\ f.at = "delete"
            /\ Deleting(s, p.cwd, f.from, "reg", At(p, [f EXCEPT !.at = "done"]), Back(p, -1))
         \/ f.at = "copied" /\ Going(s, MvCopied(p, f))
         \/ f.at = "done" /\ Going(s, Back(p, 0))

RmrStep(s) == Top(s).op = "rmr" /\ Going(s, Back(sh[s], 0))

(* cd: ".." is read from the directory, and is the root's where there is   *)
(* none; another name stands for the first directory that has it.          *)
ParentOf(t, d) ==
  LET above == {c \in Ids : \E n \in Names : \E k \in DOMAIN t[c][n] :
                  t[c][n][k].type = "dir" /\ t[c][n][k].id = d}
  IN  IF above = {} THEN RootId ELSE CHOOSE c \in above : TRUE

CdStep(s) ==
  LET p    == sh[s]
      f    == Top(s)
      n    == Head(f.path)
      down == IF f.target \in Dirs(tree)
              THEN {k \in DOMAIN tree[f.target][n] : tree[f.target][n][k].type = "dir"} ELSE {}
      goto(i) == At(p, [f EXCEPT !.path = Tail(f.path), !.target = i])
  IN  /\ f.op = "cd"
      /\ \/ f.path = <<>> /\ Going(s, [Back(p, 0) EXCEPT !.cwd = f.target])
         \/ /\ f.path # <<>> /\ n = ".."
            /\ Going(s, goto(ParentOf(tree, f.target)))
         \/ /\ f.path # <<>> /\ n # ".."
            /\ \/ down = {} /\ Going(s, Back(p, -1))
               \/ \E k \in down : /\ \A j \in down : k <= j
                                  /\ Going(s, goto(tree[f.target][n][k].id))

-----------------------------------------------------------------------------
(* The directories that d has under n, and all that lie under those of D.  *)
Named(t, d, n) == {e.id : e \in {x \in EntriesAt(t, d, n) : x.type = "dir"}}

Closed(t, S) == \A d \in S, n \in Names : Named(t, d, n) \subseteq S

Reach(t, D) == {d \in Ids : \A S \in SUBSET Ids : D \subseteq S /\ Closed(t, S) => d \in S}

Single(t) == \A d \in Ids, n \in Names : Len(t[d][n]) <= 1

(* What process_command starts for a line.                                 *)
Frames(line, cwd) ==
  CASE line[1] = "cd"  -> <<[op |-> "cd", path |-> line[2], target |-> cwd]>>
    [] line[1] = "rm"  -> IF cwd = Bin THEN <<>> ELSE <<[op |-> "rm", at |-> "file", n |-> line[2]]>>
    [] line[1] = "rmr" -> IF cwd = Bin THEN <<>>
                          ELSE <<RemoveFrame(cwd, line[2]), [op |-> "rmr", n |-> line[2]]>>
    [] line[1] \in {"cp", "cpr"} ->
         <<[op |-> "cp", at |-> "source", rec |-> line[1] = "cpr", from |-> line[2],
            to |-> line[3], src |-> None]>>
    [] line[1] = "mv"  ->
         <<[op |-> "mv", at |-> "source", from |-> line[2], to |-> line[3], src |-> None,
            dir |-> FALSE]>>

Start(s) ==
  \E line \in {l \in Lines[s] : l[1] \in {"cd", "rm", "rmr", "cp", "cpr", "mv"}} :
    /\ ~Busy(s) /\ Frames(line, sh[s].cwd) # <<>>
    /\ sh' = [sh EXCEPT ![s].stack = Frames(line, sh[s].cwd)]
    /\ began' = [began EXCEPT ![s] =
         IF line[1] \in {"rmr", "cp", "cpr", "mv"} /\ Single(tree) /\ sh[s].cwd \in Dirs(tree)
         THEN tree ELSE None]
    /\ scope' = [scope EXCEPT ![s] =
         IF line[1] = "rmr" THEN Reach(tree, Named(tree, sh[s].cwd, line[2])) ELSE {}]
    /\ UNCHANGED tree

(* mkdir, touch and echo are one call.                                     *)
Create(s) ==
  \E line \in {l \in Lines[s] : l[1] \in {"mkdir", "touch", "echo"}} :
    /\ ~Busy(s) /\ sh[s].cwd # Bin
    /\ Writing(s, sh[s].cwd, line[2], IF line[1] = "mkdir" THEN "dir" ELSE "reg",
               IF line[1] = "echo" THEN line[3] ELSE <<>>, sh[s], sh[s])

Step(s) ==
  /\ Busy(s)
  /\ \/ CopyFile(s) \/ CopyDir(s) \/ CopyEach(s)
     \/ Remove(s) \/ RemoveEach(s) \/ RmStep(s) \/ RmrStep(s)
     \/ CpStep(s) \/ MvStep(s) \/ CdStep(s)

ShellInit ==
  /\ tree = [d \in Ids |-> IF d = RootId
                          THEN [Nothing EXCEPT ![BinName] = <<EntryOf("dir", Bin, 0, <<>>)>>]
                          ELSE Nothing]
  /\ sh = [s \in Shells |-> [cwd |-> RootId, stack |-> <<>>, result |-> 0]]
  /\ began = [s \in Shells |-> None]
  /\ scope = [s \in Shells |-> {}]

ShellNext == \E s \in Shells : Start(s) \/ Create(s) \/ Step(s)

ShellSpec == ShellInit /\ [][ShellNext]_vars

-----------------------------------------------------------------------------
Begins(long, short) == Len(short) <= Len(long) /\ SubSeq(long, 1, Len(short)) = short

(* Entry c of tree u is a copy of entry e of tree t: the same names all    *)
(* the way down, files with the same beginning (cp pads them).             *)
Copied(t, e, u, c) ==
  /\ e.type = c.type
  /\ IF e.type = "reg" THEN Begins(c.data, e.data)
     ELSE \E m \in [Reach(t, {e.id}) -> Reach(u, {c.id})] :
            /\ m[e.id] = c.id
            /\ \A d \in DOMAIN m, n \in Names :
                 /\ Len(u[m[d]][n]) = Len(t[d][n])
                 /\ Holds(t, d, n) =>
                      LET x == Head(t[d][n])
                          y == Head(u[m[d]][n])
                      IN  /\ x.type = y.type
                          /\ IF x.type = "reg" THEN Begins(y.data, x.data) ELSE m[x.id] = y.id

(* u is t but for the names N in d and what lies under them.               *)
OthersSame(t, u, d, N) ==
  LET below == Reach(t, UNION {Named(t, d, x) : x \in N})
  IN  \A c \in Dirs(t) \ below, n \in Names : (c # d \/ n \notin N) => u[c][n] = t[c][n]

Ending(s, op) == Busy(s) /\ began[s] # None /\ Top(s).op = op

(* "Move completed successfully": with no misread code, nobody else at     *)
(* work and, where that is Excused, room on the disk, all of the source is *)
(* under the new name, nothing under the old one, and nothing else changed *)
(* (mv.c:68-105); mv.c:77 "Copy successful, now remove source".            *)
MoveExact ==
  \A s \in Shells : (Ending(s, "mv") /\ Top(s).at = "done") =>
    LET d == sh[s].cwd
        f == Top(s)
    IN  /\ tree[d][f.from] = <<>>
        /\ Len(tree[d][f.to]) = 1 /\ Copied(began[s], Head(began[s][d][f.from]), tree, Head(tree[d][f.to]))
        /\ OthersSame(began[s], tree, d, {f.from, f.to})

(* "copied successfully": under the same conditions and for a new name,    *)
(* the copy is complete and nothing else changed, the source included      *)
(* (cp.c:57-166, 233-243).                                                 *)
CopyExact ==
  \A s \in Shells :
    (Ending(s, "cp") /\ Top(s).at = "copied" /\ sh[s].result = 0
       /\ ~Holds(began[s], sh[s].cwd, Top(s).to)) =>
      LET d == sh[s].cwd
          f == Top(s)
      IN  /\ Holds(tree, d, f.to) /\ Copied(began[s], Head(began[s][d][f.from]), tree, Head(tree[d][f.to]))
          /\ OthersSame(began[s], tree, d, {f.to})

(* rm -r removes all of what it names and nothing else (rm.c:109-242).     *)
RemoveExact ==
  \A s \in Shells : Ending(s, "rmr") =>
    LET d == sh[s].cwd
    IN  /\ tree[d][Top(s).n] = <<>>
        /\ OthersSame(began[s], tree, d, {Top(s).n})

(* Whatever the other shells do in between, short of making a directory    *)
(* that gets the number of one that is gone: rm -r touches its name and    *)
(* what was under it, and nothing else (rm.c:109-242).                     *)
RemovesBelow ==
  [][\A s \in Shells :
       (Busy(s) /\ sh'[s] # sh[s] /\ sh[s].stack[Len(sh[s].stack)].op = "rmr") =>
         \A d \in Ids \ scope[s], n \in Names :
           tree'[d][n] # tree[d][n] =>
             d = sh[s].cwd /\ n = sh[s].stack[Len(sh[s].stack)].n]_vars
=============================================================================
