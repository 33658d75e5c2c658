------------------------------ MODULE CopyProofs ----------------------------
(***************************************************************************)
(* For any number of shells, any tree and any lines: cp and cp -r copy all *)
(* of what they name, and mv moves all of it, where no other shell changes *)
(* the file system while they run.                                         *)
(***************************************************************************)
EXTENDS ShellProofs

(* A tree as one finds it: no name is there twice, no number has two       *)
(* entries, nothing is left in what is no directory.                       *)
Orderly(t) ==
  /\ t \in [Ids -> [Names -> Seq(EntryType)]]
  /\ Single(t)
  /\ \A d \in Ids \ Dirs(t) : t[d] = Nothing
  /\ \A c, d \in Ids, m, n \in Names :
       (Holds(t, c, m) /\ Holds(t, d, n) /\ Head(t[c][m]).id = Head(t[d][n]).id) => c = d /\ m = n

(* The directories that there are under a name.                            *)
Below(t, d, n) == Reach(t, Named(t, d, n))

(* cp and mv have from to copy to to, in the directory c of the tree b.    *)
Job(b, c, f) ==
  /\ Orderly(b) /\ c \in Dirs(b) /\ f.from \in Names /\ f.to \in Names
  /\ Holds(b, c, f.from) /\ ~Holds(b, c, f.to)
  /\ c \notin Below(b, c, f.from)

(* The stack copy is the copy of the stack there was; M takes a directory  *)
(* to its copy.                                                            *)
Alike(M, was, copy) ==
  /\ Len(copy) = Len(was)
  /\ was # <<>> =>
       LET x == Head(was)
           y == Head(copy)
       IN  /\ x.type = y.type
           /\ x.type = "reg" => Begins(y.data, x.data)
           /\ x.type = "dir" => x.id \in DOMAIN M /\ M[x.id] = y.id

(* The names that are copied, and where a name is copied to.               *)
Places(M, c, f)   == {<<c, f.from>>} \cup ((DOMAIN M) \X Names)
Place(M, c, f, q) == IF q = <<c, f.from>> THEN <<c, f.to>> ELSE <<M[q[1]], q[2]>>

(* How far a copy has come: the names in A have still to be copied.        *)
CopyState(b, t, c, f, M, A) ==
  /\ Job(b, c, f)
  /\ DOMAIN M \subseteq Below(b, c, f.from)
  /\ \A d \in DOMAIN M : M[d] \in Dirs(t) /\ M[d] \notin Used(b)
  /\ \A i, j \in DOMAIN M : M[i] = M[j] => i = j
  /\ \A q \in Places(M, c, f) :
       LET r == Place(M, c, f, q)
       IN  IF q \in A THEN t[r[1]][r[2]] = <<>> ELSE Alike(M, b[q[1]][q[2]], t[r[1]][r[2]])
  /\ \A d \in DOMAIN M : \E q \in Places(M, c, f) \ A : d \in Named(b, q[1], q[2])
  /\ \A d \in Ids, n \in Names :
       ((\A i \in DOMAIN M : d # M[i]) /\ (d # c \/ n # f.to)) => t[d][n] = b[d][n]

-----------------------------------------------------------------------------
LEMMA ReachIs ==
  ASSUME NEW t \in [Ids -> [Names -> Seq(EntryType)]], NEW D \in SUBSET Ids
  PROVE  D \subseteq Reach(t, D) /\ Closed(t, Reach(t, D)) /\ Reach(t, D) \subseteq Ids
<1>1. ASSUME NEW d \in Reach(t, D), NEW n \in Names, NEW e \in Named(t, d, n)
      PROVE  e \in Reach(t, D)
  <2>1. e \in Ids
    <3>1. d \in Ids
      BY DEF Reach
    <3> QED BY <3>1, NamedIds
  <2>2. ASSUME NEW S \in SUBSET Ids, D \subseteq S, Closed(t, S) PROVE e \in S
    <3>1. d \in S
      BY <2>2 DEF Reach
    <3> QED BY <2>2, <3>1 DEF Closed
  <2> QED BY <2>1, <2>2 DEF Reach
<1> QED BY <1>1 DEF Reach, Closed

LEMMA ReachLeast ==
  ASSUME NEW t, NEW D, NEW S \in SUBSET Ids, D \subseteq S, Closed(t, S)
  PROVE  Reach(t, D) \subseteq S
BY DEF Reach

(* What stands under a name of an orderly tree.                            *)
LEMMA OrderlyEntry ==
  ASSUME NEW t, Orderly(t), NEW d \in Ids, NEW n \in Names, Holds(t, d, n)
  PROVE  LET e == Head(t[d][n])
         IN  /\ t[d][n] = <<e>> /\ e \in EntryType /\ e.id \in Ids /\ d \in Dirs(t)
             /\ Named(t, d, n) = IF e.type = "dir" THEN {e.id} ELSE {}
             /\ e.type = "dir" => e.id \in Dirs(t)
<1> DEFINE s == t[d][n]
           e == Head(s)
<1>1. s \in Seq(EntryType) /\ s # <<>> /\ Len(s) <= 1
  BY DEF Orderly, Holds, Single
<1>2. s = <<e>> /\ e \in EntryType /\ DOMAIN s = {1} /\ s[1] = e
  <2> HIDE DEF s
  <2>1. Len(s) \in Nat /\ Len(s) # 0 /\ DOMAIN s = 1 .. Len(s)
    BY <1>1
  <2>2. Len(s) = 1
    BY <1>1, <2>1
  <2> QED BY <1>1, <2>1, <2>2
<1>3. e.id \in Ids
  BY <1>2 DEF EntryType
<1>4. t[d] # Nothing
  BY <1>1 DEF Nothing
<1>5. d \in Dirs(t)
  BY <1>4 DEF Orderly
<1>6. \A i : i \in Named(t, d, n) <=> e.type = "dir" /\ e.id = i
  BY <1>2, NamedIs
<1>7. Named(t, d, n) = IF e.type = "dir" THEN {e.id} ELSE {}
  <2> HIDE DEF e
  <2> QED BY <1>6
<1>8. e.type = "dir" => e.id \in Dirs(t)
  BY <1>2, DirIs
<1> HIDE DEF s, e
<1> QED BY <1>2, <1>3, <1>5, <1>7, <1>8 DEF s, e

LEMMA OrderlyNone ==
  ASSUME NEW t, Orderly(t), NEW d \in Ids, NEW n \in Names, ~Holds(t, d, n)
  PROVE  t[d][n] = <<>> /\ Len(t[d][n]) = 0 /\ Named(t, d, n) = {}
<1>1. t[d][n] = <<>>
  BY DEF Holds
<1>2. \A i : i \notin Named(t, d, n)
  BY <1>1, NamedIs
<1> QED BY <1>1, <1>2

LEMMA TreeOrderly ==
  ASSUME StoreInv, Single(tree)
  PROVE  Orderly(tree)
<1>1. tree \in [Ids -> [Names -> Seq(EntryType)]] /\ OneEntry /\ DeadIsEmpty
  BY DEF StoreInv, StoreTypeOK
<1>2. ASSUME NEW d \in Ids, NEW n \in Names, Holds(tree, d, n)
      PROVE  1 \in DOMAIN tree[d][n] /\ Head(tree[d][n]) = tree[d][n][1]
  <2>1. tree[d][n] \in Seq(EntryType) /\ tree[d][n] # <<>>
    BY <1>1, <1>2 DEF Holds
  <2> QED BY <2>1
<1>3. ASSUME NEW c \in Ids, NEW d \in Ids, NEW m \in Names, NEW n \in Names,
             Holds(tree, c, m), Holds(tree, d, n), Head(tree[c][m]).id = Head(tree[d][n]).id
      PROVE  c = d /\ m = n
  BY <1>1, <1>2, <1>3 DEF OneEntry
<1> QED BY <1>1, <1>3 DEF Orderly, DeadIsEmpty

LEMMA JobFacts ==
  ASSUME NEW b, NEW c, NEW f, Job(b, c, f)
  PROVE  /\ b \in [Ids -> [Names -> Seq(EntryType)]]
         /\ c \in Ids /\ Dirs(b) \subseteq Ids /\ Dirs(b) \subseteq Used(b) /\ f.from # f.to
         /\ Named(b, c, f.from) \subseteq Below(b, c, f.from) /\ Closed(b, Below(b, c, f.from))
         /\ Below(b, c, f.from) \subseteq Dirs(b)
<1>1. b \in [Ids -> [Names -> Seq(EntryType)]] /\ Dirs(b) \subseteq Ids /\ c \in Ids
  BY DirsAreIds DEF Job, Orderly
<1>2. Dirs(b) \subseteq Used(b)
  BY DirIs, UsedIs
<1>3. Named(b, c, f.from) \subseteq Ids
  BY <1>1, NamedIds DEF Job
<1>4. ASSUME NEW d \in Ids, NEW n \in Names PROVE Named(b, d, n) \subseteq Dirs(b)
  BY <1>4, NamedIs, DirIs
<1>5. Closed(b, Dirs(b)) /\ Named(b, c, f.from) \subseteq Dirs(b)
  BY <1>1, <1>4 DEF Closed, Job
<1>6. Below(b, c, f.from) \subseteq Dirs(b)
  BY <1>1, <1>5, ReachLeast DEF Below
<1> QED BY <1>1, <1>2, <1>3, <1>6, ReachIs DEF Job, Below

LEMMA OneParent ==
  ASSUME OneEntry, NEW c \in Ids, NEW m \in Names, NEW d \in Ids, NEW n \in Names,
         NEW e \in Named(tree, c, m), e \in Named(tree, d, n)
  PROVE  c = d /\ m = n
<1>1. PICK j \in DOMAIN tree[c][m] : tree[c][m][j].id = e
  BY NamedIs
<1>2. PICK k \in DOMAIN tree[d][n] : tree[d][n][k].id = e
  BY NamedIs
<1> QED BY <1>1, <1>2 DEF OneEntry

(* The directory that a command works in is not below a name in it.        *)
LEMMA NotBelow ==
  ASSUME StoreInv, Single(tree), NEW c \in Dirs(tree), NEW n \in Names
  PROVE  c \notin Below(tree, c, n)
<1> DEFINE R == Below(tree, c, n)
           up(d) == Reach(tree, {d})
           S == {d \in R : c \in up(d)}
<1> SUFFICES ASSUME c \in R PROVE FALSE
  OBVIOUS
<1>1. /\ tree \in [Ids -> [Names -> Seq(EntryType)]] /\ Dirs(tree) \subseteq Ids /\ Orderly(tree)
      /\ Rooted /\ OneEntry
  BY DirsAreIds, TreeOrderly DEF StoreInv, StoreTypeOK
<1>2. /\ Named(tree, c, n) \subseteq R /\ Closed(tree, R) /\ R \subseteq Ids
  BY <1>1, ReachIs, NamedIds DEF Below
<1>3. ASSUME NEW d \in Ids PROVE d \in up(d) /\ Closed(tree, up(d))
  BY <1>1, ReachIs
<1>4. ASSUME NEW d \in Ids, NEW m \in Names PROVE Named(tree, d, m) \subseteq Dirs(tree)
  BY <1>4, NamedIs, DirIs
<1>5. R \subseteq Dirs(tree)
  <2>1. Closed(tree, Dirs(tree)) /\ Named(tree, c, n) \subseteq Dirs(tree)
    BY <1>1, <1>4 DEF Closed
  <2> QED BY <1>1, <2>1, ReachLeast DEF Below
<1>6. RootId \notin R
  <2>1. ASSUME NEW d \in Ids, NEW m \in Names PROVE RootId \notin Named(tree, d, m)
    <3> SUFFICES ASSUME RootId \in Named(tree, d, m) PROVE FALSE
      OBVIOUS
    <3>1. PICK k \in DOMAIN tree[d][m] : tree[d][m][k].id = RootId
      BY NamedIs
    <3>2. tree[d][m][k] \in Entries(tree)
      BY <3>1, EntryIs
    <3> QED BY <1>1, <3>1, <3>2 DEF OneEntry
  <2>2. Closed(tree, Ids \ {RootId}) /\ Named(tree, c, n) \subseteq Ids \ {RootId}
    BY <1>1, <2>1, NamedIds DEF Closed
  <2>3. R \subseteq Ids \ {RootId}
    BY <2>2, ReachLeast DEF Below
  <2> QED BY <2>3
<1>7. c \in S
  BY <1>1, <1>3
<1>8. PICK d \in Dirs(tree) \ S, m \in Names : \E k \in DOMAIN tree[d][m] :
        tree[d][m][k].type = "dir" /\ tree[d][m][k].id \in S
  <2>1. S \subseteq Dirs(tree) \ {RootId} /\ S # {}
    BY <1>5, <1>6, <1>7
  <2> HIDE DEF S, R
  <2> QED BY <1>1, <2>1 DEF Rooted
<1>9. PICK e \in S : e \in Named(tree, d, m)
  BY <1>8, NamedIs
<1>10. d \in Ids /\ e \in Ids /\ e \in R /\ c \in up(e)
  BY <1>1, <1>2, <1>9
<1> HIDE DEF S, up
<1>11. d \notin R
  <2> SUFFICES ASSUME d \in R PROVE FALSE
    OBVIOUS
  <2>1. e \in up(d)
    BY <1>3, <1>9, <1>10 DEF Closed
  <2>2. up(e) \subseteq up(d)
    <3>1. {e} \subseteq up(d) /\ Closed(tree, up(d)) /\ up(d) \in SUBSET Ids
      BY <1>3, <1>10, <2>1 DEF up, Reach
    <3>2. Reach(tree, {e}) \subseteq up(d)
      BY <3>1, ReachLeast
    <3> QED BY <3>2 DEF up
  <2> QED BY <1>8, <1>10, <2>2 DEF S
<1>12. d # c \/ m # n
  BY <1>7, <1>8
<1>13. Closed(tree, R \ {e})
  <2> SUFFICES ASSUME NEW g \in R, NEW k \in Names, e \in Named(tree, g, k) PROVE FALSE
    BY <1>2 DEF Closed
  <2>1. g = d
    <3>1. g \in Ids
      BY <1>2
    <3> QED BY <1>1, <1>9, <1>10, <3>1, OneParent
  <2> QED BY <1>11, <2>1
<1>14. Named(tree, c, n) \subseteq R \ {e}
  <2> SUFFICES ASSUME e \in Named(tree, c, n) PROVE FALSE
    BY <1>2
  <2>1. c = d /\ n = m
    BY <1>1, <1>9, <1>10, OneParent
  <2> QED BY <1>12, <2>1
<1>15. R \subseteq R \ {e}
  <2>1. R \ {e} \in SUBSET Ids
    BY <1>2
  <2> QED BY <1>13, <1>14, <2>1, ReachLeast DEF Below
<1> QED BY <1>10, <1>15

-----------------------------------------------------------------------------
LEMMA PlacesAre ==
  ASSUME NEW b, NEW c, NEW f, NEW M, Job(b, c, f), DOMAIN M \subseteq Below(b, c, f.from)
  PROVE  /\ \A q \in Places(M, c, f) :
              /\ q = <<q[1], q[2]>> /\ q[1] \in Ids /\ q[2] \in Names /\ q[1] \in Dirs(b)
              /\ q[1] = c => q = <<c, f.from>>
              /\ q[1] # c => q[1] \in DOMAIN M
              /\ Named(b, q[1], q[2]) \subseteq Below(b, c, f.from)
         /\ \A d \in DOMAIN M, n \in Names : <<d, n>> \in Places(M, c, f) /\ d # c
<1>1. DOMAIN M \subseteq Dirs(b) /\ DOMAIN M \subseteq Ids /\ c \notin DOMAIN M /\ c \in Ids /\ c \in Dirs(b)
      /\ f.from \in Names
  BY JobFacts DEF Job
<1>2. Named(b, c, f.from) \subseteq Below(b, c, f.from) /\ Closed(b, Below(b, c, f.from))
  BY JobFacts
<1>3. ASSUME NEW q \in Places(M, c, f)
      PROVE  /\ q = <<q[1], q[2]>> /\ q[1] \in Ids /\ q[2] \in Names /\ q[1] \in Dirs(b)
             /\ q[1] = c => q = <<c, f.from>>
             /\ q[1] # c => q[1] \in DOMAIN M
             /\ Named(b, q[1], q[2]) \subseteq Below(b, c, f.from)
  <2>1. CASE q = <<c, f.from>>
    BY <1>1, <1>2, <2>1
  <2>2. CASE q \in (DOMAIN M) \X Names
    <3>0. PICK d \in DOMAIN M, n \in Names : q = <<d, n>>
      BY <2>2
    <3>1. q[1] \in DOMAIN M /\ q[2] \in Names /\ q = <<q[1], q[2]>>
      BY <3>0
    <3>2. q[1] \in Below(b, c, f.from)
      BY <3>1
    <3> QED BY <1>1, <1>2, <3>1, <3>2 DEF Closed
  <2> QED BY <2>1, <2>2 DEF Places
<1> QED BY <1>1, <1>3 DEF Places

LEMMA AlikeMore ==
  ASSUME NEW M, NEW N, DOMAIN M \subseteq DOMAIN N, \A d \in DOMAIN M : N[d] = M[d],
         NEW r, NEW q, Alike(M, r, q)
  PROVE  Alike(N, r, q)
BY DEF Alike

LEMMA CopyFacts ==
  ASSUME StoreInv, NEW b, NEW c, NEW f, NEW M, NEW A, CopyState(b, tree, c, f, M, A)
  PROVE  /\ \A d \in Dirs(b) : \A i \in DOMAIN M : M[i] # d
         /\ \A d \in Ids, n \in Names : Holds(b, d, n) => tree[d][n] = b[d][n]
         /\ Dirs(b) \subseteq Dirs(tree) /\ Used(b) \subseteq Used(tree)
         /\ Dirs(tree) \subseteq Used(tree) /\ Dirs(tree) \subseteq Ids
         /\ \A q \in Places(M, c, f) :
              Place(M, c, f, q)[1] \in Dirs(tree) /\ Place(M, c, f, q)[2] \in Names
         /\ \A p, q \in Places(M, c, f) : Place(M, c, f, p) = Place(M, c, f, q) => p = q
<1> DEFINE P == Places(M, c, f)
           to(q) == Place(M, c, f, q)
<1>1. /\ Job(b, c, f) /\ DOMAIN M \subseteq Below(b, c, f.from) /\ Orderly(b)
      /\ \A d \in DOMAIN M : M[d] \in Dirs(tree) /\ M[d] \notin Used(b)
      /\ \A i, j \in DOMAIN M : M[i] = M[j] => i = j
      /\ \A d \in Ids, n \in Names :
           ((\A i \in DOMAIN M : d # M[i]) /\ (d # c \/ n # f.to)) => tree[d][n] = b[d][n]
      /\ f.from \in Names /\ f.to \in Names /\ ~Holds(b, c, f.to) /\ c \in Dirs(b)
  BY DEF CopyState, Job
<1>2. Dirs(b) \subseteq Used(b) /\ Dirs(b) \subseteq Ids /\ c \in Ids
  BY <1>1, JobFacts
<1>3. \A d \in Dirs(b) : \A i \in DOMAIN M : M[i] # d
  BY <1>1, <1>2
<1>4. ASSUME NEW d \in Ids, NEW n \in Names, Holds(b, d, n) PROVE tree[d][n] = b[d][n]
  <2>1. d \in Dirs(b)
    BY <1>1, <1>4, OrderlyEntry
  <2> QED BY <1>1, <1>3, <1>4, <2>1
<1>5. ASSUME NEW d \in Ids, NEW n \in Names, NEW k \in DOMAIN b[d][n] PROVE tree[d][n] = b[d][n]
  <2>1. Holds(b, d, n)
    <3>1. DOMAIN <<>> = {}
      OBVIOUS
    <3> QED BY <3>1 DEF Holds
  <2> QED BY <1>4, <2>1
<1>6. Dirs(b) \subseteq Dirs(tree)
  <2> SUFFICES ASSUME NEW i \in Dirs(b) PROVE i \in Dirs(tree)
    OBVIOUS
  <2>1. i = RootId \/ \E d \in Ids, n \in Names : \E k \in DOMAIN b[d][n] :
          b[d][n][k].type = "dir" /\ b[d][n][k].id = i
    BY DirIs
  <2>2. i = RootId \/ \E d \in Ids, n \in Names : \E k \in DOMAIN tree[d][n] :
          tree[d][n][k].type = "dir" /\ tree[d][n][k].id = i
    BY <1>5, <2>1
  <2> QED BY <2>2, DirIs
<1>7. Used(b) \subseteq Used(tree)
  <2> SUFFICES ASSUME NEW i \in Used(b) PROVE i \in Used(tree)
    OBVIOUS
  <2>1. i = RootId \/ \E d \in Ids, n \in Names : \E k \in DOMAIN b[d][n] : b[d][n][k].id = i
    BY UsedIs
  <2>2. i = RootId \/ \E d \in Ids, n \in Names : \E k \in DOMAIN tree[d][n] : tree[d][n][k].id = i
    BY <1>5, <2>1
  <2> QED BY <2>2, UsedIs
<1>8. Dirs(tree) \subseteq Used(tree) /\ Dirs(tree) \subseteq Ids
  BY DirIs, UsedIs, DirsAreIds DEF StoreInv, StoreTypeOK
<1>9. /\ \A q \in P :
           /\ q = <<q[1], q[2]>> /\ q[1] \in Ids /\ q[2] \in Names
           /\ q[1] = c => q = <<c, f.from>>
           /\ q[1] # c => q[1] \in DOMAIN M
  BY <1>1, PlacesAre
<1>10. ASSUME NEW q \in P
       PROVE  /\ to(q)[1] \in Dirs(tree) /\ to(q)[2] \in Names
              /\ q = <<c, f.from>> => to(q) = <<c, f.to>>
              /\ q # <<c, f.from>> => q[1] \in DOMAIN M /\ to(q) = <<M[q[1]], q[2]>>
  <2>1. CASE q = <<c, f.from>>
    <3>1. to(q) = <<c, f.to>>
      BY <2>1 DEF Place
    <3> HIDE DEF to, P
    <3> QED BY <1>1, <1>6, <2>1, <3>1
  <2>2. CASE q # <<c, f.from>>
    <3>1. to(q) = <<M[q[1]], q[2]>>
      BY <2>2 DEF Place
    <3> HIDE DEF to, P
    <3> QED BY <1>1, <1>9, <2>2, <3>1
  <2> QED BY <2>1, <2>2
<1>11. ASSUME NEW p \in P, NEW q \in P, to(p) = to(q) PROVE p = q
  <2> HIDE DEF to, P
  <2>1. CASE p = <<c, f.from>> /\ q # <<c, f.from>>
    <3>1. <<c, f.to>> = <<M[q[1]], q[2]>> /\ q[1] \in DOMAIN M
      BY <1>10, <1>11, <2>1
    <3>2. c = M[q[1]]
      BY <3>1
    <3> QED BY <1>1, <1>3, <3>1, <3>2
  <2>2. CASE p # <<c, f.from>> /\ q = <<c, f.from>>
    <3>1. <<M[p[1]], p[2]>> = <<c, f.to>> /\ p[1] \in DOMAIN M
      BY <1>10, <1>11, <2>2
    <3>2. c = M[p[1]]
      BY <3>1
    <3> QED BY <1>1, <1>3, <3>1, <3>2
  <2>3. CASE p # <<c, f.from>> /\ q # <<c, f.from>>
    <3>1. <<M[p[1]], p[2]>> = <<M[q[1]], q[2]>> /\ p[1] \in DOMAIN M /\ q[1] \in DOMAIN M
      BY <1>10, <1>11, <2>3
    <3>2. M[p[1]] = M[q[1]] /\ p[2] = q[2]
      BY <3>1
    <3>3. p[1] = q[1]
      BY <1>1, <3>1, <3>2
    <3> QED BY <1>9, <3>2, <3>3
  <2> QED BY <2>1, <2>2, <2>3
<1> QED BY <1>3, <1>4, <1>6, <1>7, <1>8, <1>10, <1>11

(* Names that do not stand for anything need not be waited for.            *)
LEMMA CopyFewer ==
  ASSUME NEW b, NEW t, NEW c, NEW f, NEW M, NEW A, NEW B, CopyState(b, t, c, f, M, A), B \subseteq A,
         \A q \in A \ B : b[q[1]][q[2]] = <<>>
  PROVE  CopyState(b, t, c, f, M, B)
<1>1. \A q \in Places(M, c, f) :
        LET r == Place(M, c, f, q)
        IN  IF q \in B THEN t[r[1]][r[2]] = <<>> ELSE Alike(M, b[q[1]][q[2]], t[r[1]][r[2]])
  <2> SUFFICES ASSUME NEW q \in Places(M, c, f), NEW r, r = Place(M, c, f, q)
               PROVE  IF q \in B THEN t[r[1]][r[2]] = <<>> ELSE Alike(M, b[q[1]][q[2]], t[r[1]][r[2]])
    OBVIOUS
  <2>1. IF q \in A THEN t[r[1]][r[2]] = <<>> ELSE Alike(M, b[q[1]][q[2]], t[r[1]][r[2]])
    BY DEF CopyState
  <2>2. Alike(M, <<>>, <<>>)
    BY DEF Alike
  <2> QED BY <2>1, <2>2
<1> QED BY <1>1 DEF CopyState

(* A copy begins with nothing copied.                                      *)
LEMMA CopyBegins ==
  ASSUME NEW b, NEW c, NEW f, Job(b, c, f)
  PROVE  CopyState(b, b, c, f, <<>>, {<<c, f.from>>})
<1>1. DOMAIN <<>> = {} /\ Places(<<>>, c, f) = {<<c, f.from>>}
  <2>1. DOMAIN <<>> = {} /\ {} \X Names = {}
    OBVIOUS
  <2>2. Places(<<>>, c, f) = {<<c, f.from>>} \cup ((DOMAIN <<>>) \X Names)
    BY DEF Places
  <2> QED BY <2>1, <2>2
<1>2. Place(<<>>, c, f, <<c, f.from>>) = <<c, f.to>>
  BY DEF Place
<1>3. b[c][f.to] = <<>>
  BY DEF Job, Holds
<1> QED BY <1>1, <1>2, <1>3 DEF CopyState

(* All that the job names has been copied.                                 *)
Whole(b, t, c, f, M) ==
  /\ Job(b, c, f)
  /\ DOMAIN M \subseteq Below(b, c, f.from)
  /\ \A d \in DOMAIN M : M[d] \in Ids \ Used(b)
  /\ \A q \in Places(M, c, f) :
       LET r == Place(M, c, f, q) IN Alike(M, b[q[1]][q[2]], t[r[1]][r[2]])

LEMMA WholeIs ==
  ASSUME StoreInv, NEW b, NEW c, NEW f, NEW M, Whole(b, tree, c, f, M)
  PROVE  /\ Holds(tree, c, f.to) /\ Len(tree[c][f.to]) = 1
         /\ Copied(b, Head(b[c][f.from]), tree, Head(tree[c][f.to]))
         /\ \A d \in DOMAIN M, n \in Names : Len(tree[M[d]][n]) = Len(b[d][n])
         /\ \A d \in Dirs(b) : \A i \in DOMAIN M : M[i] # d
<1> DEFINE R == Below(b, c, f.from)
           e == Head(b[c][f.from])
           y == Head(tree[c][f.to])
<1>1. /\ Job(b, c, f) /\ Orderly(b) /\ DOMAIN M \subseteq R
      /\ \A q \in Places(M, c, f) : Alike(M, b[q[1]][q[2]], tree[Place(M, c, f, q)[1]][Place(M, c, f, q)[2]])
  BY DEF Whole, Job
<1>2. /\ \A d \in Dirs(b) : \A i \in DOMAIN M : M[i] # d
      /\ \A d \in DOMAIN M : M[d] \in Ids
      /\ Dirs(tree) \subseteq Ids
  <2>1. \A d \in DOMAIN M : M[d] \in Ids /\ M[d] \notin Used(b)
    BY DEF Whole
  <2> HIDE DEF R, e, y
  <2>2. Dirs(b) \subseteq Used(b)
    BY <1>1, JobFacts
  <2>3. Dirs(tree) \subseteq Ids
    BY DirsAreIds DEF StoreInv, StoreTypeOK
  <2> QED BY <2>1, <2>2, <2>3
<1>3. /\ b \in [Ids -> [Names -> Seq(EntryType)]] /\ c \in Ids /\ Dirs(b) \subseteq Ids
      /\ Named(b, c, f.from) \subseteq R /\ Closed(b, R) /\ R \subseteq Dirs(b)
      /\ f.from \in Names /\ f.to \in Names /\ Holds(b, c, f.from) /\ c \notin R /\ c \in Dirs(b)
  BY <1>1, JobFacts DEF Job
<1>4. /\ b[c][f.from] = <<e>> /\ e \in EntryType /\ e.id \in Ids
      /\ Named(b, c, f.from) = IF e.type = "dir" THEN {e.id} ELSE {}
  <2> DEFINE n == f.from
  <2>1. n \in Names /\ Holds(b, c, n) /\ e = Head(b[c][n])
    BY <1>3
  <2> HIDE DEF n, R
  <2>2. /\ b[c][n] = <<e>> /\ e \in EntryType /\ e.id \in Ids
        /\ Named(b, c, n) = IF e.type = "dir" THEN {e.id} ELSE {}
    BY <1>1, <1>3, <2>1, OrderlyEntry
  <2> QED BY <2>2 DEF n
<1>5. Alike(M, b[c][f.from], tree[c][f.to])
  <2>1. <<c, f.from>> \in Places(M, c, f) /\ Place(M, c, f, <<c, f.from>>) = <<c, f.to>>
    BY DEF Places, Place
  <2> QED BY <1>1, <2>1
<1>6. ASSUME NEW d \in DOMAIN M, NEW n \in Names PROVE Alike(M, b[d][n], tree[M[d]][n])
  <2>1. <<d, n>> \in Places(M, c, f) /\ d # c
    BY <1>1, PlacesAre
  <2>2. Place(M, c, f, <<d, n>>) = <<M[d], n>>
    BY <2>1 DEF Place
  <2> QED BY <1>1, <2>1, <2>2
<1> HIDE DEF R
<1>7. /\ Len(tree[c][f.to]) = 1 /\ Holds(tree, c, f.to) /\ y.type = e.type
      /\ e.type = "reg" => Begins(y.data, e.data)
      /\ e.type = "dir" => e.id \in DOMAIN M /\ M[e.id] = y.id
  <2>1. Len(<<e>>) = 1 /\ Head(<<e>>) = e /\ <<e>> # <<>> /\ Len(<<>>) = 0
    OBVIOUS
  <2> HIDE DEF e
  <2> QED BY <1>4, <1>5, <2>1 DEF Alike, Holds
<1>8. ASSUME NEW d \in DOMAIN M, NEW n \in Names
      PROVE  /\ Len(tree[M[d]][n]) = Len(b[d][n])
             /\ Holds(b, d, n) =>
                  LET v == Head(b[d][n])
                      w == Head(tree[M[d]][n])
                  IN  /\ v.type = w.type
                      /\ v.type = "reg" => Begins(w.data, v.data)
                      /\ v.type = "dir" => /\ v.id \in DOMAIN M /\ M[v.id] = w.id
                                           /\ w.id \in Named(tree, M[d], n)
  <2> DEFINE v == Head(b[d][n])
             w == Head(tree[M[d]][n])
  <2>1. Alike(M, b[d][n], tree[M[d]][n])
    BY <1>6
  <2>2. d \in Ids /\ M[d] \in Ids
    BY <1>1, <1>2, <1>3
  <2>3. CASE ~Holds(b, d, n)
    BY <2>1, <2>3 DEF Alike
  <2>4. CASE Holds(b, d, n)
    <3>1. /\ Len(tree[M[d]][n]) = Len(b[d][n]) /\ v.type = w.type
          /\ v.type = "reg" => Begins(w.data, v.data)
          /\ v.type = "dir" => v.id \in DOMAIN M /\ M[v.id] = w.id
      BY <2>1, <2>4 DEF Alike, Holds
    <3>2. Len(b[d][n]) = 1
      <4>1. b[d][n] = <<v>>
        BY <1>1, <2>2, <2>4, OrderlyEntry
      <4> HIDE DEF v
      <4> QED BY <4>1
    <3>3. 1 \in DOMAIN tree[M[d]][n] /\ tree[M[d]][n][1] = w
      <4>1. tree[M[d]][n] \in Seq(EntryType)
        BY <2>2 DEF StoreInv, StoreTypeOK
      <4> QED BY <3>1, <3>2, <4>1
    <3> HIDE DEF v, w
    <3>4. v.type = "dir" => w.id \in Named(tree, M[d], n)
      BY <3>1, <3>3, NamedIs
    <3> QED BY <3>1, <3>4 DEF v, w
  <2> QED BY <2>3, <2>4
<1>9. R \subseteq DOMAIN M
  <2>1. Closed(b, DOMAIN M)
    <3> SUFFICES ASSUME NEW d \in DOMAIN M, NEW n \in Names, NEW g \in Named(b, d, n) PROVE g \in DOMAIN M
      BY DEF Closed
    <3>0. d \in Ids
      BY <1>1, <1>3
    <3>1. Holds(b, d, n)
      BY <1>1, <3>0, OrderlyNone
    <3>2. Head(b[d][n]).type = "dir" /\ Head(b[d][n]).id = g
      BY <1>1, <3>0, <3>1, OrderlyEntry
    <3> QED BY <1>8, <3>1, <3>2
  <2>2. Named(b, c, f.from) \subseteq DOMAIN M /\ DOMAIN M \in SUBSET Ids
    BY <1>1, <1>3, <1>4, <1>7
  <2> QED BY <2>1, <2>2, ReachLeast DEF R, Below
<1>10. Copied(b, e, tree, y)
  <2>1. CASE e.type = "reg"
    BY <1>7, <2>1 DEF Copied
  <2>2. CASE e.type # "reg"
    <3>1. e.type = "dir"
      BY <1>4, <2>2 DEF EntryType
    <3>2. Reach(b, {e.id}) = R
      BY <1>4, <3>1 DEF R, Below
    <3> DEFINE D == Reach(tree, {y.id})
               m == [d \in R |-> M[d]]
    <3>3. {y.id} \subseteq Ids
      BY <1>2, <1>3, <1>7, <3>1
    <3>4. y.id \in D /\ Closed(tree, D) /\ D \subseteq Ids
      BY <3>3, ReachIs, ZenonT(30) DEF StoreInv, StoreTypeOK
    <3>5. \A d \in R : M[d] \in D
      <4> DEFINE S == {d \in R : M[d] \in D}
      <4>1. {e.id} \subseteq S
        BY <1>3, <1>4, <1>7, <3>1, <3>4
      <4>2. Closed(b, S)
        <5> SUFFICES ASSUME NEW d \in S, NEW n \in Names, NEW g \in Named(b, d, n) PROVE g \in S
          BY DEF Closed
        <5>0. d \in Ids /\ d \in DOMAIN M /\ g \in R
          BY <1>3, <1>9 DEF Closed
        <5>1. Holds(b, d, n)
          BY <1>1, <5>0, OrderlyNone
        <5>2. Head(b[d][n]).type = "dir" /\ Head(b[d][n]).id = g
          BY <1>1, <5>0, <5>1, OrderlyEntry
        <5>3. M[g] \in Named(tree, M[d], n)
          BY <1>8, <5>0, <5>1, <5>2
        <5> QED BY <3>4, <5>0, <5>3 DEF Closed
      <4>3. S \in SUBSET Ids
        BY <1>3
      <4>4. R \subseteq S
        <5> HIDE DEF S
        <5> QED BY <3>2, <4>1, <4>2, <4>3, ReachLeast
      <4> QED BY <4>4
    <3>6. m \in [R -> D]
      BY <3>5
    <3>7. m[e.id] = y.id
      BY <1>3, <1>4, <1>7, <3>1
    <3>8. ASSUME NEW d \in DOMAIN m, NEW n \in Names
          PROVE  /\ Len(tree[m[d]][n]) = Len(b[d][n])
                 /\ Holds(b, d, n) =>
                      LET v == Head(b[d][n])
                          w == Head(tree[m[d]][n])
                      IN  /\ v.type = w.type
                          /\ IF v.type = "reg" THEN Begins(w.data, v.data) ELSE m[v.id] = w.id
      <4>1. d \in R /\ d \in DOMAIN M /\ m[d] = M[d] /\ d \in Ids
        BY <1>3, <1>9
      <4>2. CASE Holds(b, d, n)
        <5>1. /\ Head(b[d][n]) \in EntryType
              /\ Named(b, d, n) = IF Head(b[d][n]).type = "dir" THEN {Head(b[d][n]).id} ELSE {}
          BY <1>1, <4>1, <4>2, OrderlyEntry
        <5>2. Head(b[d][n]).type # "reg" => Head(b[d][n]).type = "dir"
          BY <5>1 DEF EntryType
        <5>3. Head(b[d][n]).type = "dir" => Head(b[d][n]).id \in R
          BY <1>3, <4>1, <5>1 DEF Closed
        <5> QED BY <1>8, <4>1, <4>2, <5>2, <5>3
      <4> QED BY <1>8, <4>1, <4>2
    <3> HIDE DEF m, D
    <3> QED BY <1>7, <2>2, <3>2, <3>6, <3>7, <3>8 DEF Copied, D
  <2> QED BY <2>1, <2>2
<1> QED BY <1>2, <1>7, <1>8, <1>10

(* When nothing is waited for, all has been copied and nothing else has    *)
(* changed.                                                                *)
LEMMA CopyEnds ==
  ASSUME StoreInv, NEW b, NEW c, NEW f, NEW M, CopyState(b, tree, c, f, M, {})
  PROVE  /\ Whole(b, tree, c, f, M)
         /\ Holds(tree, c, f.to) /\ Len(tree[c][f.to]) = 1
         /\ Copied(b, Head(b[c][f.from]), tree, Head(tree[c][f.to]))
         /\ OthersSame(b, tree, c, {f.to})
         /\ Single(tree)
<1>1. /\ Job(b, c, f) /\ Orderly(b) /\ DOMAIN M \subseteq Below(b, c, f.from)
      /\ \A d \in Ids, n \in Names :
           ((\A i \in DOMAIN M : d # M[i]) /\ (d # c \/ n # f.to)) => tree[d][n] = b[d][n]
      /\ Below(b, c, f.from) \subseteq Dirs(b) /\ Dirs(b) \subseteq Ids
  BY JobFacts DEF CopyState, Job
<1>2. Dirs(tree) \subseteq Ids
  BY DirsAreIds DEF StoreInv, StoreTypeOK
<1>3. Whole(b, tree, c, f, M)
  BY <1>2 DEF CopyState, Whole
<1>4. /\ Holds(tree, c, f.to) /\ Len(tree[c][f.to]) = 1
      /\ Copied(b, Head(b[c][f.from]), tree, Head(tree[c][f.to]))
      /\ \A d \in DOMAIN M, n \in Names : Len(tree[M[d]][n]) = Len(b[d][n])
      /\ \A d \in Dirs(b) : \A i \in DOMAIN M : M[i] # d
  BY <1>3, WholeIs
<1>11. OthersSame(b, tree, c, {f.to})
  <2> SUFFICES ASSUME NEW d \in Dirs(b), NEW n \in Names, d # c \/ n # f.to PROVE tree[d][n] = b[d][n]
    BY DEF OthersSame
  <2> QED BY <1>1, <1>4
<1>12. Single(tree)
  <2> SUFFICES ASSUME NEW d \in Ids, NEW n \in Names PROVE Len(tree[d][n]) <= 1
    BY DEF Single
  <2>0. Single(b)
    BY <1>1 DEF Orderly
  <2>1. CASE d = c /\ n = f.to
    <3>1. tree[d][n] = tree[c][f.to]
      BY <2>1
    <3>2. Len(tree[d][n]) = 1
      BY <1>4, <3>1
    <3> QED BY <3>2
  <2>2. CASE \E i \in DOMAIN M : d = M[i]
    <3>1. PICK i \in DOMAIN M : d = M[i]
      BY <2>2
    <3>2. Len(tree[d][n]) = Len(b[i][n]) /\ i \in Ids
      BY <1>1, <1>4, <3>1
    <3> QED BY <2>0, <3>2 DEF Single
  <2>3. CASE (d # c \/ n # f.to) /\ \A i \in DOMAIN M : d # M[i]
    BY <1>1, <2>0, <2>3 DEF Single
  <2> QED BY <2>1, <2>2, <2>3
<1> QED BY <1>3, <1>4, <1>11, <1>12

-----------------------------------------------------------------------------
LEMMA PushIs ==
  ASSUME StoreInv, NEW d \in Dirs(tree), NEW n \in Names, tree[d][n] = <<>>,
         NEW e \in EntryType, e.id \notin Used(tree), tree' = Push(tree, d, n, e)
  PROVE  /\ tree'[d][n] = <<e>>
         /\ \A c \in Ids, m \in Names : (c # d \/ m # n) => tree'[c][m] = tree[c][m]
         /\ Dirs(tree) \subseteq Dirs(tree')
         /\ e.type = "dir" => e.id \in Dirs(tree')
         /\ e.id # d /\ tree[e.id] = Nothing
<1>1. tree \in [Ids -> [Names -> Seq(EntryType)]] /\ d \in Ids /\ Dirs(tree) \subseteq Ids
  BY DirsAreIds DEF StoreInv, StoreTypeOK
<1>2. <<e>> \o tree[d][n] = <<e>>
  <2>1. <<e>> \o <<>> = <<e>>
    OBVIOUS
  <2> QED BY <2>1
<1>3. tree' = [tree EXCEPT ![d] = [tree[d] EXCEPT ![n] = <<e>>]]
  BY <1>2 DEF Push, With
<1>4. /\ tree'[d][n] = <<e>>
      /\ \A c \in Ids, m \in Names : (c # d \/ m # n) => tree'[c][m] = tree[c][m]
  BY <1>1, <1>3
<1>5. Dirs(tree) \subseteq Dirs(tree')
  <2> SUFFICES ASSUME NEW i \in Dirs(tree) PROVE i \in Dirs(tree')
    OBVIOUS
  <2>1. i = RootId \/ \E c \in Ids, m \in Names : \E k \in DOMAIN tree[c][m] :
          tree[c][m][k].type = "dir" /\ tree[c][m][k].id = i
    BY DirIs
  <2>2. \A c \in Ids, m \in Names : \A k \in DOMAIN tree[c][m] : tree'[c][m] = tree[c][m]
    <3> SUFFICES ASSUME NEW c \in Ids, NEW m \in Names, NEW k \in DOMAIN tree[c][m]
                 PROVE  c # d \/ m # n
      BY <1>4
    <3>1. DOMAIN <<>> = {}
      OBVIOUS
    <3> QED BY <3>1
  <2>3. i = RootId \/ \E c \in Ids, m \in Names : \E k \in DOMAIN tree'[c][m] :
          tree'[c][m][k].type = "dir" /\ tree'[c][m][k].id = i
    BY <2>1, <2>2
  <2> QED BY <2>3, DirIs
<1>6. ASSUME e.type = "dir" PROVE e.id \in Dirs(tree')
  <2>1. 1 \in DOMAIN tree'[d][n] /\ tree'[d][n][1] = e
    <3>1. 1 \in DOMAIN <<e>> /\ <<e>>[1] = e
      OBVIOUS
    <3> QED BY <1>4, <3>1
  <2> QED BY <1>1, <1>6, <2>1, DirIs
<1>7. e.id \in Ids /\ e.id \notin Dirs(tree) /\ e.id # d
  <2>1. Dirs(tree) \subseteq Used(tree)
    BY DirIs, UsedIs
  <2>2. e.id \in Ids
    BY DEF EntryType
  <2> QED BY <2>1, <2>2
<1>8. tree[e.id] = Nothing
  BY <1>7 DEF StoreInv, DeadIsEmpty
<1> QED BY <1>4, <1>5, <1>6, <1>7, <1>8

(* A file is written: one name less to copy.                               *)
LEMMA CopyFileAdds ==
  ASSUME StoreInv, NEW b, NEW c, NEW f, NEW M, NEW A, CopyState(b, tree, c, f, M, A),
         NEW q \in Places(M, c, f), q \in A, Holds(b, q[1], q[2]), Head(b[q[1]][q[2]]).type = "reg",
         NEW d, NEW n, <<d, n>> = Place(M, c, f, q),
         NEW e \in EntryType, e.id \notin Used(tree), e.type = "reg",
         Begins(e.data, Head(b[q[1]][q[2]]).data),
         tree' = Push(tree, d, n, e)
  PROVE  CopyState(b, tree', c, f, M, A \ {q})
<1> DEFINE P == Places(M, c, f)
           to(p) == Place(M, c, f, p)
           x == Head(b[q[1]][q[2]])
<1>1. /\ Job(b, c, f) /\ DOMAIN M \subseteq Below(b, c, f.from) /\ Orderly(b)
      /\ \A i \in DOMAIN M : M[i] \in Dirs(tree) /\ M[i] \notin Used(b)
      /\ \A i, j \in DOMAIN M : M[i] = M[j] => i = j
      /\ \A p \in P : IF p \in A THEN tree[to(p)[1]][to(p)[2]] = <<>>
                      ELSE Alike(M, b[p[1]][p[2]], tree[to(p)[1]][to(p)[2]])
      /\ \A i \in DOMAIN M : \E p \in P \ A : i \in Named(b, p[1], p[2])
      /\ \A i \in Ids, m \in Names :
           ((\A j \in DOMAIN M : i # M[j]) /\ (i # c \/ m # f.to)) => tree[i][m] = b[i][m]
  BY DEF CopyState, Job
<1>2. /\ \A p \in P : to(p)[1] \in Dirs(tree) /\ to(p)[2] \in Names
      /\ \A p, r \in P : to(p) = to(r) => p = r
      /\ Dirs(tree) \subseteq Ids
  BY CopyFacts
<1>3. to(q)[1] = d /\ to(q)[2] = n
  <2> HIDE DEF to
  <2>1. to(q) = <<d, n>>
    BY DEF to
  <2> QED BY <2>1
<1> HIDE DEF to, P, x
<1>4. d \in Dirs(tree) /\ n \in Names /\ tree[d][n] = <<>> /\ q \in P
  BY <1>1, <1>2, <1>3 DEF P
<1>5. /\ tree'[d][n] = <<e>>
      /\ \A i \in Ids, m \in Names : (i # d \/ m # n) => tree'[i][m] = tree[i][m]
      /\ Dirs(tree) \subseteq Dirs(tree')
  BY <1>4, PushIs
<1>6. q[1] \in Ids /\ q[2] \in Names
  BY <1>1, PlacesAre
<1>7. b[q[1]][q[2]] = <<x>>
  BY <1>1, <1>6, OrderlyEntry DEF x
<1>8. Alike(M, <<x>>, <<e>>)
  <2>1. x.type = "reg" /\ Begins(e.data, x.data)
    BY DEF x
  <2>2. Len(<<x>>) = 1 /\ Len(<<e>>) = 1 /\ Head(<<x>>) = x /\ Head(<<e>>) = e
    OBVIOUS
  <2> QED BY <2>1, <2>2 DEF Alike
<1>9. ASSUME NEW p \in P
      PROVE  IF p \in A \ {q} THEN tree'[to(p)[1]][to(p)[2]] = <<>>
             ELSE Alike(M, b[p[1]][p[2]], tree'[to(p)[1]][to(p)[2]])
  <2>1. CASE p = q
    BY <1>3, <1>5, <1>7, <1>8, <2>1
  <2>2. CASE p # q
    <3>1. to(p)[1] # d \/ to(p)[2] # n
      <4> SUFFICES ASSUME to(p)[1] = d, to(p)[2] = n PROVE FALSE
        OBVIOUS
      <4>1. to(p) = to(q)
        <5>1. \A r : Place(M, c, f, r) = <<Place(M, c, f, r)[1], Place(M, c, f, r)[2]>>
          BY DEF Place
        <5>2. to(p) = <<to(p)[1], to(p)[2]>> /\ to(q) = <<to(q)[1], to(q)[2]>>
          BY <5>1 DEF to
        <5> QED BY <1>3, <5>2
      <4> QED BY <1>2, <1>4, <2>2, <4>1
    <3>2. tree'[to(p)[1]][to(p)[2]] = tree[to(p)[1]][to(p)[2]]
      BY <1>2, <1>5, <3>1
    <3> QED BY <1>1, <2>2, <3>2
  <2> QED BY <2>1, <2>2
<1>10. ASSUME NEW i \in Ids, NEW m \in Names, \A j \in DOMAIN M : i # M[j], i # c \/ m # f.to
       PROVE  tree'[i][m] = b[i][m]
  <2>1. i # d \/ m # n
    <3>1. CASE q = <<c, f.from>>
      BY <1>3, <1>10, <3>1 DEF to, Place
    <3>2. CASE q # <<c, f.from>>
      <4>1. to(q)[1] = M[q[1]]
        BY <3>2 DEF to, Place
      <4>2. q[1] \in DOMAIN M
        BY <1>1, <3>2, PlacesAre
      <4> QED BY <1>3, <1>10, <4>1, <4>2
    <3> QED BY <3>1, <3>2
  <2> QED BY <1>1, <1>5, <1>10, <2>1
<1>11. \A i \in DOMAIN M : \E p \in P \ (A \ {q}) : i \in Named(b, p[1], p[2])
  BY <1>1
<1>12. \A i \in DOMAIN M : M[i] \in Dirs(tree') /\ M[i] \notin Used(b)
  BY <1>1, <1>5
<1> QED BY <1>1, <1>9, <1>10, <1>11, <1>12 DEF CopyState, P, to

(* Entry e is made for the directory x at q: N is M with its copy, and W   *)
(* what is waited for then.                                                *)
NewCopy(b, c, f, M, A, q, x, e, N, W) ==
  /\ CopyState(b, tree, c, f, M, A)
  /\ q \in Places(M, c, f) /\ q \in A /\ Holds(b, q[1], q[2])
  /\ x = Head(b[q[1]][q[2]]) /\ x.type = "dir"
  /\ e \in EntryType /\ e.id \notin Used(tree) /\ e.type = "dir"
  /\ DOMAIN N = DOMAIN M \cup {x.id} /\ N[x.id] = e.id /\ \A i \in DOMAIN M \ {x.id} : N[i] = M[i]
  /\ W = (A \ {q}) \cup ({x.id} \X Names)

LEMMA EntryHeld ==
  ASSUME NEW t, Orderly(t), NEW d \in Ids, NEW n \in Names, Holds(t, d, n),
         NEW x, x = Head(t[d][n]), x.type = "dir"
  PROVE  t[d][n] = <<x>> /\ x.id \in Ids /\ Named(t, d, n) = {x.id}
BY OrderlyEntry

(* A directory is made: its copy is known, and all of its names are yet to *)
(* be copied.                                                              *)
LEMMA CopyDirAdds ==
  ASSUME StoreInv, NEW b, NEW c, NEW f, NEW M, NEW A, NEW q, NEW x, NEW e, NEW N, NEW W,
         NewCopy(b, c, f, M, A, q, x, e, N, W),
         NEW d, NEW n, <<d, n>> = Place(M, c, f, q), tree' = Push(tree, d, n, e)
  PROVE  x.id \notin DOMAIN M /\ CopyState(b, tree', c, f, N, W)
<1>0. /\ CopyState(b, tree, c, f, M, A)
      /\ q \in Places(M, c, f) /\ q \in A /\ Holds(b, q[1], q[2])
      /\ x = Head(b[q[1]][q[2]]) /\ x.type = "dir"
      /\ e \in EntryType /\ e.id \notin Used(tree) /\ e.type = "dir"
      /\ DOMAIN N = DOMAIN M \cup {x.id} /\ N[x.id] = e.id /\ \A i \in DOMAIN M \ {x.id} : N[i] = M[i]
      /\ W = (A \ {q}) \cup ({x.id} \X Names)
  BY DEF NewCopy
<1> USE <1>0
<1> DEFINE P == Places(M, c, f)
           to(p) == Place(M, c, f, p)
           k == x.id
           B == (A \ {q}) \cup ({k} \X Names)
           Q == Places(N, c, f)
           go(p) == Place(N, c, f, p)
<1>1. /\ Job(b, c, f) /\ DOMAIN M \subseteq Below(b, c, f.from) /\ Orderly(b) /\ c \notin Below(b, c, f.from)
      /\ \A i \in DOMAIN M : M[i] \in Dirs(tree) /\ M[i] \notin Used(b)
      /\ \A i, j \in DOMAIN M : M[i] = M[j] => i = j
      /\ \A p \in P : IF p \in A THEN tree[to(p)[1]][to(p)[2]] = <<>>
                      ELSE Alike(M, b[p[1]][p[2]], tree[to(p)[1]][to(p)[2]])
      /\ \A i \in DOMAIN M : \E p \in P \ A : i \in Named(b, p[1], p[2])
      /\ \A i \in Ids, m \in Names :
           ((\A j \in DOMAIN M : i # M[j]) /\ (i # c \/ m # f.to)) => tree[i][m] = b[i][m]
  BY DEF CopyState, Job
<1>2. /\ \A p \in P : to(p)[1] \in Dirs(tree) /\ to(p)[2] \in Names
      /\ \A p, r \in P : to(p) = to(r) => p = r
      /\ Dirs(tree) \subseteq Ids /\ Dirs(tree) \subseteq Used(tree) /\ Used(b) \subseteq Used(tree)
  <2>1. CopyState(b, tree, c, f, M, A)
    OBVIOUS
  <2> HIDE <1>0
  <2> QED BY <2>1, CopyFacts
<1>3. to(q)[1] = d /\ to(q)[2] = n
  <2> HIDE DEF to
  <2>1. to(q) = <<d, n>>
    BY DEF to
  <2> HIDE <1>0
  <2> QED BY <2>1
<1>4. /\ \A p \in P : /\ p = <<p[1], p[2]>> /\ p[1] \in Ids /\ p[2] \in Names
                      /\ p[1] = c => p = <<c, f.from>>
                      /\ p[1] # c => p[1] \in DOMAIN M
                      /\ Named(b, p[1], p[2]) \subseteq Below(b, c, f.from)
  <2> HIDE <1>0
  <2> QED BY <1>1, PlacesAre
<1> HIDE DEF to, P
<1>5. d \in Dirs(tree) /\ n \in Names /\ tree[d][n] = <<>> /\ q \in P
  BY <1>1, <1>2, <1>3 DEF P
<1>6. /\ tree'[d][n] = <<e>>
      /\ \A i \in Ids, m \in Names : (i # d \/ m # n) => tree'[i][m] = tree[i][m]
      /\ Dirs(tree) \subseteq Dirs(tree') /\ e.id \in Dirs(tree')
      /\ e.id # d /\ tree[e.id] = Nothing /\ e.id \in Ids
  <2>1. e.id \in Ids
    BY DEF EntryType
  <2>2. e \in EntryType /\ e.id \notin Used(tree) /\ e.type = "dir"
    OBVIOUS
  <2> HIDE <1>0
  <2> QED BY <1>5, <2>1, <2>2, PushIs
<1>7. q[1] \in Ids /\ q[2] \in Names
  BY <1>4, <1>5
<1>8. b[q[1]][q[2]] = <<x>> /\ k \in Named(b, q[1], q[2]) /\ k \in Ids
  <2> DEFINE i == q[1]
             m == q[2]
  <2>1. i \in Ids /\ m \in Names /\ Holds(b, i, m) /\ x = Head(b[i][m])
    BY <1>7
  <2>0. Orderly(b)
    BY <1>1
  <2> HIDE DEF i, m, k, B, Q, go
  <2>2. b[i][m] = <<x>> /\ x.id \in Ids /\ Named(b, i, m) = {x.id}
    <3>0. x.type = "dir"
      OBVIOUS
    <3> HIDE <1>0
    <3> QED BY <2>0, <2>1, <3>0, EntryHeld
  <2> QED BY <2>2 DEF i, m, k
<1>9. k \in Below(b, c, f.from) /\ k # c
  BY <1>1, <1>4, <1>5, <1>8
<1>10. k \notin DOMAIN M
  <2> SUFFICES ASSUME k \in DOMAIN M PROVE FALSE
    OBVIOUS
  <2>1. PICK p \in P \ A : k \in Named(b, p[1], p[2])
    BY <1>1
  <2>2. p[1] \in Ids /\ p[2] \in Names /\ p = <<p[1], p[2]>> /\ q = <<q[1], q[2]>>
    BY <1>4, <1>5, <2>1
  <2>3. Holds(b, p[1], p[2])
    BY <1>1, <2>1, <2>2, OrderlyNone
  <2>4. Head(b[p[1]][p[2]]).id = k
    <3> HIDE <1>0
    <3> QED BY <1>1, <2>1, <2>2, <2>3, OrderlyEntry
  <2>5. p[1] = q[1] /\ p[2] = q[2]
    <3>1. Holds(b, q[1], q[2]) /\ Head(b[q[1]][q[2]]).id = k
      OBVIOUS
    <3> HIDE <1>0 DEF k
    <3> QED BY <1>1, <1>7, <2>2, <2>3, <2>4, <3>1 DEF Orderly
  <2> QED BY <2>1, <2>2, <2>5
<1>11. /\ DOMAIN N = DOMAIN M \cup {k} /\ N[k] = e.id
       /\ \A i \in DOMAIN M : N[i] = M[i]
  BY <1>10
<1> HIDE DEF k
<1>12. \A i \in DOMAIN N : N[i] \in Dirs(tree') /\ N[i] \notin Used(b)
  BY <1>1, <1>2, <1>6, <1>11
<1>13. \A i, j \in DOMAIN N : N[i] = N[j] => i = j
  <2>1. \A i \in DOMAIN M : M[i] # e.id
    BY <1>1, <1>2
  <2> QED BY <1>1, <1>11, <2>1, ZenonT(30)
<1>14. ASSUME NEW p \in Q
       PROVE  \/ p \in P /\ go(p) = to(p) /\ p[1] # k /\ p \notin {k} \X Names
              \/ p[1] = k /\ p[2] \in Names /\ p = <<k, p[2]>> /\ p \in {k} \X Names
                 /\ go(p) = <<e.id, p[2]>>
  <2>1. CASE p = <<c, f.from>>
    <3>1. p \in P /\ p[1] = c
      BY <2>1 DEF P, Places
    <3>2. go(p) = to(p)
      BY <2>1 DEF to, Place
    <3> HIDE DEF go
    <3>3. p \notin {k} \X Names
      BY <1>9, <3>1
    <3> QED BY <1>9, <3>1, <3>2, <3>3
  <2>2. CASE p # <<c, f.from>>
    <3>0. p \in (DOMAIN N) \X Names
      <4> HIDE <1>0
      <4> QED BY <2>2 DEF Places
    <3>1. PICK i \in DOMAIN N, m \in Names : p = <<i, m>>
      <4> HIDE <1>0 DEF Q
      <4> QED BY <3>0
    <3>2. go(p) = <<N[i], m>>
      BY <2>2, <3>1 DEF Place
    <3>3. CASE i = k
      <4> HIDE DEF go
      <4> QED BY <1>11, <3>1, <3>2, <3>3
    <3>4. CASE i # k
      <4>1. i \in DOMAIN M /\ N[i] = M[i]
        BY <1>11, <3>4
      <4>2. p \in P
        BY <3>1, <4>1 DEF P, Places
      <4>3. to(p) = <<M[i], m>>
        BY <2>2, <3>1 DEF to, Place
      <4> HIDE DEF go
      <4>4. p[1] # k /\ p \notin {k} \X Names
        BY <3>1, <3>4
      <4> QED BY <3>2, <4>1, <4>2, <4>3, <4>4
    <3> QED BY <3>3, <3>4
  <2> QED BY <2>1, <2>2
<1>15. P \subseteq Q
  BY <1>11 DEF P, Places
<1>16. Alike(N, <<x>>, <<e>>)
  <2>1. Len(<<x>>) = 1 /\ Len(<<e>>) = 1 /\ Head(<<x>>) = x /\ Head(<<e>>) = e
    <3> HIDE <1>0
    <3> QED OBVIOUS
  <2> QED BY <1>11, <2>1 DEF Alike, k
<1> HIDE DEF go, Q
<1>17. ASSUME NEW p \in Q
       PROVE  IF p \in B THEN tree'[go(p)[1]][go(p)[2]] = <<>>
              ELSE Alike(N, b[p[1]][p[2]], tree'[go(p)[1]][go(p)[2]])
  <2>1. CASE p[1] = k
    <3>1. p \in B /\ go(p) = <<e.id, p[2]>> /\ p[2] \in Names
      BY <1>14, <2>1
    <3>2. tree'[e.id][p[2]] = tree[e.id][p[2]] /\ tree[e.id][p[2]] = <<>>
      BY <1>6, <3>1 DEF Nothing
    <3> HIDE <1>0
    <3> QED BY <3>1, <3>2
  <2>2. CASE p = q /\ p[1] # k
    <3>1. p \notin B /\ go(p) = to(q)
      BY <1>14, <2>2
    <3>2. go(p)[1] = d /\ go(p)[2] = n
      BY <1>3, <3>1
    <3>3. tree'[go(p)[1]][go(p)[2]] = <<e>> /\ b[p[1]][p[2]] = <<x>>
      BY <1>6, <1>8, <2>2, <3>2
    <3> QED BY <1>16, <3>1, <3>3
  <2>3. CASE p # q /\ p[1] # k
    <3>0. p \in P /\ go(p) = to(p) /\ (p \in B <=> p \in A)
      BY <1>14, <2>3
    <3>1. to(p)[1] # d \/ to(p)[2] # n
      <4> SUFFICES ASSUME to(p)[1] = d, to(p)[2] = n PROVE FALSE
        OBVIOUS
      <4>1. to(p) = to(q)
        <5>1. \A r : Place(M, c, f, r) = <<Place(M, c, f, r)[1], Place(M, c, f, r)[2]>>
          BY DEF Place
        <5>2. to(p) = <<to(p)[1], to(p)[2]>> /\ to(q) = <<to(q)[1], to(q)[2]>>
          BY <5>1 DEF to
        <5> QED BY <1>3, <5>2
      <4> QED BY <1>2, <1>5, <2>3, <3>0, <4>1
    <3>2. tree'[to(p)[1]][to(p)[2]] = tree[to(p)[1]][to(p)[2]]
      BY <1>2, <1>6, <3>0, <3>1
    <3>3. IF p \in A THEN tree[to(p)[1]][to(p)[2]] = <<>>
          ELSE Alike(M, b[p[1]][p[2]], tree[to(p)[1]][to(p)[2]])
      BY <1>1, <3>0
    <3>4. Alike(M, b[p[1]][p[2]], tree[to(p)[1]][to(p)[2]])
            => Alike(N, b[p[1]][p[2]], tree[to(p)[1]][to(p)[2]])
      BY <1>11, AlikeMore
    <3> QED BY <3>0, <3>2, <3>3, <3>4
  <2> QED BY <2>1, <2>2, <2>3
<1>18. ASSUME NEW i \in Ids, NEW m \in Names, \A j \in DOMAIN N : i # N[j], i # c \/ m # f.to
       PROVE  tree'[i][m] = b[i][m]
  <2>0. \A j \in DOMAIN M : i # M[j]
    BY <1>11, <1>18
  <2>1. i # d \/ m # n
    <3>1. CASE q = <<c, f.from>>
      BY <1>3, <1>18, <3>1 DEF to, Place
    <3>2. CASE q # <<c, f.from>>
      <4>1. to(q)[1] = M[q[1]]
        BY <3>2 DEF to, Place
      <4>2. q[1] \in DOMAIN M
        BY <1>4, <1>5, <3>2
      <4> QED BY <1>3, <2>0, <4>1, <4>2
    <3> QED BY <3>1, <3>2
  <2>2. tree'[i][m] = tree[i][m]
    BY <1>6, <1>18, <2>1
  <2> QED BY <1>1, <1>18, <2>0, <2>2
<1>19. ASSUME NEW i \in DOMAIN N PROVE \E p \in Q \ B : i \in Named(b, p[1], p[2])
  <2>1. CASE i = k
    <3>1. q \in Q
      BY <1>5, <1>15
    <3>2. q[1] # k
      BY <1>4, <1>5, <1>9, <1>10
    <3>3. q \notin B
      BY <3>2
    <3> QED BY <1>8, <2>1, <3>1, <3>3
  <2>2. CASE i # k
    <3>1. i \in DOMAIN M
      BY <1>11, <2>2
    <3>2. PICK p \in P \ A : i \in Named(b, p[1], p[2])
      BY <1>1, <3>1
    <3>3. p[1] # k
      BY <1>4, <1>9, <1>10, <3>2
    <3>4. p \in Q /\ p \notin B
      BY <1>15, <3>2, <3>3
    <3> QED BY <3>2, <3>4
  <2> QED BY <2>1, <2>2
<1>20. DOMAIN N \subseteq Below(b, c, f.from)
  BY <1>1, <1>9, <1>11
<1>21. CopyState(b, tree', c, f, N, B)
  <2> HIDE DEF B
  <2> QED BY <1>1, <1>12, <1>13, <1>17, <1>18, <1>19, <1>20 DEF CopyState, Q, go
<1>22. B = W
  BY DEF k
<1> HIDE DEF B
<1> QED BY <1>10, <1>21, <1>22 DEF k

-----------------------------------------------------------------------------
(* The name that a frame copies from, and the one that it copies to.       *)
Source(g)    == <<g.sd, g.sn>>
Target(g)    == <<g.dd, g.dn>>
Origin(b, g) == Head(b[g.sd][g.sn])

(* The names that a frame has yet to copy.                                 *)
Made(g)       == g.op = "copy" /\ g.at # "mkdir"
Left(g)       == IF g.at = "each" THEN {e.name : e \in g.todo} ELSE Names
Waiting(b, g) == IF Made(g) THEN {Origin(b, g).id} \X Left(g) ELSE {Source(g)}

(* A frame of the copy that f has asked for in the directory c.            *)
Placed(b, c, f, M, g) ==
  /\ Source(g) \in Places(M, c, f) /\ Target(g) = Place(M, c, f, Source(g))
  /\ Holds(b, g.sd, g.sn)
  /\ g.op \in {"file", "copy"}
  /\ g.op = "file" => Origin(b, g).type = "reg"
  /\ (g.op = "file" /\ g.at = "write") => Begins(g.data, Origin(b, g).data)
  /\ g.op = "copy" => Origin(b, g).type = "dir"
  /\ Made(g) => Origin(b, g).id \in DOMAIN M
  /\ (Made(g) /\ g.at # "src") => g.src = Origin(b, g).id
  /\ (Made(g) /\ g.at \in {"list", "each"}) => g.dst = M[Origin(b, g).id]
  /\ (Made(g) /\ g.at = "each") => g.todo \subseteq Listing(b, g.src)

(* The frames at the places K of the stack: no two of them wait for the    *)
(* same name.                                                              *)
Framed(b, p, c, f, M, K) ==
  /\ \A k \in K : Placed(b, c, f, M, p.stack[k])
  /\ \A j, k \in K : j # k => Waiting(b, p.stack[j]) \cap Waiting(b, p.stack[k]) = {}

(* What the frames at the places K wait for; all but the command's frame,  *)
(* which is the last, and those of them under the one on top.              *)
Awaited(b, p, K) == UNION {Waiting(b, p.stack[k]) : k \in K}

Inners(p) == 1 .. Len(p.stack) - 1
Outers(p) == 2 .. Len(p.stack) - 1

(* The copy is as far as the frames on the stack say.                      *)
Copying(b, t, p) ==
  \E M : /\ CopyState(b, t, p.cwd, Base(p), M, Awaited(b, p, Inners(p)))
         /\ Framed(b, p, p.cwd, Base(p), M, Inners(p))

-----------------------------------------------------------------------------
(* Frames that are at other places of another stack.                       *)
LEMMA FramedSame ==
  ASSUME NEW b, NEW p, NEW x, NEW c, NEW f, NEW M, NEW K, NEW L, NEW h \in [L -> K],
         Framed(b, p, c, f, M, K),
         \A k \in L : x.stack[k] = p.stack[h[k]],
         \A j, k \in L : h[j] = h[k] => j = k,
         \A j \in K : \E k \in L : h[k] = j
  PROVE  Framed(b, x, c, f, M, L) /\ Awaited(b, x, L) = Awaited(b, p, K)
<1>1. \A k \in L : h[k] \in K /\ Waiting(b, x.stack[k]) = Waiting(b, p.stack[h[k]])
  OBVIOUS
<1>2. Framed(b, x, c, f, M, L)
  BY <1>1 DEF Framed
<1>3. Awaited(b, x, L) = Awaited(b, p, K)
  <2> DEFINE w(k) == Waiting(b, x.stack[k])
             v(k) == Waiting(b, p.stack[k])
  <2>1. \A k \in L : h[k] \in K /\ w(k) = v(h[k])
    BY <1>1
  <2> HIDE DEF w, v
  <2>2. UNION {w(k) : k \in L} = UNION {v(k) : k \in K}
    <3>1. \A q \in UNION {w(k) : k \in L} : q \in UNION {v(k) : k \in K}
      BY <2>1
    <3>2. ASSUME NEW q \in UNION {v(k) : k \in K} PROVE q \in UNION {w(k) : k \in L}
      <4>1. PICK j \in K : q \in v(j)
        OBVIOUS
      <4>2. PICK k \in L : h[k] = j
        OBVIOUS
      <4> QED BY <2>1, <4>1, <4>2
    <3> QED BY <3>1, <3>2
  <2> QED BY <2>2 DEF Awaited, w, v
<1> QED BY <1>2, <1>3

LEMMA FramedOne ==
  ASSUME NEW b, NEW p, NEW c, NEW f, NEW M, NEW K, NEW i, i \notin K
  PROVE  /\ Framed(b, p, c, f, M, K \cup {i}) <=>
              /\ Framed(b, p, c, f, M, K) /\ Placed(b, c, f, M, p.stack[i])
              /\ Waiting(b, p.stack[i]) \cap Awaited(b, p, K) = {}
         /\ Awaited(b, p, K \cup {i}) = Waiting(b, p.stack[i]) \cup Awaited(b, p, K)
<1> DEFINE w(k) == Waiting(b, p.stack[k])
           placed(k) == Placed(b, c, f, M, p.stack[k])
<1>1. Awaited(b, p, K) = UNION {w(k) : k \in K} /\ Awaited(b, p, K \cup {i}) = UNION {w(k) : k \in K \cup {i}}
  BY DEF Awaited
<1>2. /\ Framed(b, p, c, f, M, K) <=> (\A k \in K : placed(k)) /\ \A j, k \in K : j # k => w(j) \cap w(k) = {}
      /\ Framed(b, p, c, f, M, K \cup {i}) <=>
           (\A k \in K \cup {i} : placed(k)) /\ \A j, k \in K \cup {i} : j # k => w(j) \cap w(k) = {}
  BY DEF Framed
<1> HIDE DEF w, placed
<1>3. UNION {w(k) : k \in K \cup {i}} = w(i) \cup UNION {w(k) : k \in K}
  OBVIOUS
<1>4. w(i) \cap UNION {w(k) : k \in K} = {} <=> \A k \in K : w(i) \cap w(k) = {}
  OBVIOUS
<1> QED BY <1>1, <1>2, <1>3, <1>4 DEF w, placed

LEMMA TopFramed ==
  ASSUME NEW b, NEW p \in ShellType, Len(p.stack) > 1, NEW c, NEW f, NEW M
  PROVE  /\ Framed(b, p, c, f, M, Inners(p)) <=>
              /\ Framed(b, p, c, f, M, Outers(p)) /\ Placed(b, c, f, M, p.stack[1])
              /\ Waiting(b, p.stack[1]) \cap Awaited(b, p, Outers(p)) = {}
         /\ Awaited(b, p, Inners(p)) = Waiting(b, p.stack[1]) \cup Awaited(b, p, Outers(p))
<1>1. Len(p.stack) \in Nat
  <2>1. p.stack \in Seq(FrameType)
    BY DEF ShellType
  <2> HIDE DEF FrameType
  <2> QED BY <2>1
<1>2. Inners(p) = Outers(p) \cup {1} /\ 1 \notin Outers(p)
  BY <1>1 DEF Inners, Outers
<1> DEFINE K == Outers(p)
<1> HIDE DEF K
<1>3. /\ Framed(b, p, c, f, M, K \cup {1}) <=>
           /\ Framed(b, p, c, f, M, K) /\ Placed(b, c, f, M, p.stack[1])
           /\ Waiting(b, p.stack[1]) \cap Awaited(b, p, K) = {}
      /\ Awaited(b, p, K \cup {1}) = Waiting(b, p.stack[1]) \cup Awaited(b, p, K)
  <2>1. 1 \notin K
    BY <1>2 DEF K
  <2> QED BY <2>1, FramedOne
<1> QED BY <1>2, <1>3 DEF K

LEMMA AtCopies ==
  ASSUME NEW b, NEW p \in ShellType, Len(p.stack) > 1, NEW c, NEW f, NEW M,
         Framed(b, p, c, f, M, Outers(p)),
         NEW g \in FrameType, g.op = Head(p.stack).op, Placed(b, c, f, M, g),
         Waiting(b, g) \cap Awaited(b, p, Outers(p)) = {}
  PROVE  LET x == At(p, g)
         IN  /\ Framed(b, x, c, f, M, Inners(x))
             /\ Awaited(b, x, Inners(x)) = Waiting(b, g) \cup Awaited(b, p, Outers(p))
<1> DEFINE x == At(p, g)
<1>0. p.stack # <<>>
  OBVIOUS
<1>1. x \in ShellType /\ Len(x.stack) = Len(p.stack) /\ x.stack[1] = g
      /\ \A k \in 2 .. Len(p.stack) : x.stack[k] = p.stack[k]
  BY <1>0, AtStack
<1>2. Len(p.stack) \in Nat
  BY <1>0, StackIs
<1> HIDE DEF x
<1>3. Outers(x) = Outers(p) /\ \A k \in Outers(p) : k \in 2 .. Len(p.stack)
  BY <1>1, <1>2 DEF Outers
<1> DEFINE h == [k \in Outers(x) |-> k]
<1>4. h \in [Outers(x) -> Outers(p)] /\ \A k \in Outers(x) : h[k] = k
  BY <1>3
<1>5. Framed(b, x, c, f, M, Outers(x)) /\ Awaited(b, x, Outers(x)) = Awaited(b, p, Outers(p))
  <2> HIDE DEF h
  <2>1. \A k \in Outers(x) : x.stack[k] = p.stack[h[k]]
    BY <1>1, <1>3, <1>4
  <2> QED BY <1>3, <1>4, <2>1, FramedSame
<1> QED BY <1>1, <1>5, TopFramed DEF x

LEMMA BackCopies ==
  ASSUME NEW b, NEW p \in ShellType, Len(p.stack) > 1, NEW c, NEW f, NEW M,
         Framed(b, p, c, f, M, Outers(p)), NEW r \in Int
  PROVE  LET x == Back(p, r)
         IN  /\ Framed(b, x, c, f, M, Inners(x))
             /\ Awaited(b, x, Inners(x)) = Awaited(b, p, Outers(p))
<1> DEFINE x == Back(p, r)
<1>0. p.stack # <<>>
  OBVIOUS
<1>1. Len(x.stack) = Len(p.stack) - 1 /\ \A k \in 1 .. Len(p.stack) - 1 : x.stack[k] = p.stack[k + 1]
  BY <1>0, BackStack
<1>2. Len(p.stack) \in Nat
  BY <1>0, StackIs
<1> HIDE DEF x
<1>3. /\ \A k \in Inners(x) : k + 1 \in Outers(p) /\ k \in 1 .. Len(p.stack) - 1
      /\ \A j \in Outers(p) : j - 1 \in Inners(x) /\ (j - 1) + 1 = j
      /\ \A j, k \in Inners(x) : j + 1 = k + 1 => j = k
  BY <1>1, <1>2 DEF Inners, Outers
<1> DEFINE h == [k \in Inners(x) |-> k + 1]
<1>4. h \in [Inners(x) -> Outers(p)] /\ \A k \in Inners(x) : h[k] = k + 1
  BY <1>3
<1> HIDE DEF h
<1>5. \A k \in Inners(x) : x.stack[k] = p.stack[h[k]]
  BY <1>1, <1>3, <1>4, SMTT(30)
<1>6. \A j \in Outers(p) : \E k \in Inners(x) : h[k] = j
  BY <1>3, <1>4
<1>7. \A j, k \in Inners(x) : h[j] = h[k] => j = k
  BY <1>3, <1>4
<1>8. Framed(b, x, c, f, M, Inners(x)) /\ Awaited(b, x, Inners(x)) = Awaited(b, p, Outers(p))
  BY <1>4, <1>5, <1>6, <1>7, FramedSame
<1> QED BY <1>8 DEF x

LEMMA IntoCopies ==
  ASSUME NEW b, NEW p \in ShellType, Len(p.stack) > 1, NEW c, NEW f, NEW M,
         Framed(b, p, c, f, M, Outers(p)),
         NEW g \in FrameType, g.op = Head(p.stack).op, Placed(b, c, f, M, g),
         NEW e \in FrameType, Placed(b, c, f, M, e),
         Waiting(b, g) \cap Awaited(b, p, Outers(p)) = {},
         Waiting(b, e) \cap Awaited(b, p, Outers(p)) = {}, Waiting(b, e) \cap Waiting(b, g) = {}
  PROVE  LET x == Into(p, g, e)
         IN  /\ Framed(b, x, c, f, M, Inners(x))
             /\ Awaited(b, x, Inners(x)) = Waiting(b, e) \cup Waiting(b, g) \cup Awaited(b, p, Outers(p))
<1> DEFINE x == Into(p, g, e)
           K == 3 .. Len(x.stack) - 1
<1>0. p.stack # <<>>
  OBVIOUS
<1>1. x \in ShellType /\ Len(x.stack) = Len(p.stack) + 1 /\ x.stack[1] = e /\ x.stack[2] = g
      /\ \A k \in 2 .. Len(p.stack) : x.stack[k + 1] = p.stack[k]
  BY <1>0, IntoStack
<1>2. Len(p.stack) \in Nat
  BY <1>0, StackIs
<1> HIDE DEF x
<1>3. /\ \A k \in K : k - 1 \in Outers(p) /\ k - 1 \in 2 .. Len(p.stack) /\ (k - 1) + 1 = k
      /\ \A j \in Outers(p) : j + 1 \in K /\ (j + 1) - 1 = j
      /\ \A j, k \in K : j - 1 = k - 1 => j = k
      /\ Outers(x) = K \cup {2} /\ 2 \notin K /\ Len(x.stack) > 1
  BY <1>1, <1>2 DEF Outers
<1> HIDE DEF K
<1> DEFINE h == [k \in K |-> k - 1]
<1>4. h \in [K -> Outers(p)] /\ \A k \in K : h[k] = k - 1
  BY <1>3
<1> HIDE DEF h
<1>5. \A k \in K : x.stack[k] = p.stack[h[k]]
  <2> SUFFICES ASSUME NEW k \in K PROVE x.stack[k] = p.stack[h[k]]
    OBVIOUS
  <2>1. x.stack[(k - 1) + 1] = p.stack[k - 1]
    BY <1>1, <1>3
  <2> QED BY <1>3, <1>4, <2>1
<1>6. \A j \in Outers(p) : \E k \in K : h[k] = j
  BY <1>3, <1>4
<1>7. \A j, k \in K : h[j] = h[k] => j = k
  BY <1>3, <1>4
<1>8. Framed(b, x, c, f, M, K) /\ Awaited(b, x, K) = Awaited(b, p, Outers(p))
  BY <1>4, <1>5, <1>6, <1>7, FramedSame, SMTT(30)
<1>9. /\ Framed(b, x, c, f, M, Outers(x))
      /\ Awaited(b, x, Outers(x)) = Waiting(b, g) \cup Awaited(b, p, Outers(p))
  <2>1. /\ Framed(b, x, c, f, M, K \cup {2}) <=>
             /\ Framed(b, x, c, f, M, K) /\ Placed(b, c, f, M, x.stack[2])
             /\ Waiting(b, x.stack[2]) \cap Awaited(b, x, K) = {}
        /\ Awaited(b, x, K \cup {2}) = Waiting(b, x.stack[2]) \cup Awaited(b, x, K)
    BY <1>3, FramedOne, ZenonT(30)
  <2> QED BY <1>1, <1>3, <1>8, <2>1
<1>10. Waiting(b, e) \cap Awaited(b, x, Outers(x)) = {}
  BY <1>9
<1> QED BY <1>1, <1>3, <1>9, <1>10, TopFramed DEF x

-----------------------------------------------------------------------------
(* With room on the disk, or none and that excused, a new name is written  *)
(* as a whole.                                                             *)
LEMMA WriteGoes ==
  ASSUME Excused, NEW s \in Shells, NEW d, NEW n, NEW type, NEW data, NEW good, NEW bad,
         Writing(s, d, n, type, data, good, bad), began'[s] # None,
         d \in Dirs(tree), ~Holds(tree, d, n)
  PROVE  \E i \in Ids \ Used(tree) :
           tree' = Push(tree, d, n, EntryOf(type, i, Len(data), data)) /\ Goes(s, good)
<1> DEFINE all   == WriteOutcomes(tree, d, n, type, data)
           whole == {Outcome(Push(tree, d, n, EntryOf(type, i, Len(data), data)), 0) :
                       i \in Ids \ Used(tree)}
           full  == {o \in all : o.code \in {0, -1}} \ whole
<1>1. \/ Calling(s, all \ full, good, bad)
      \/ \E o \in full : Remember(s, Excused)
  BY DEF Writing
<1>2. \A o \in all : o.code \in {0, -1}
  BY DEF WriteOutcomes, Stored, Outcome
<1>3. \A o \in whole : \E i \in Ids \ Used(tree) :
        o.tree = Push(tree, d, n, EntryOf(type, i, Len(data), data)) /\ o.code = 0
  BY DEF Outcome
<1>4. ~Remember(s, Excused)
  BY Remembered, ShellAssumption
<1>5. \A o \in all \ full : o \in whole
  <2> HIDE DEF all, whole
  <2> QED BY <1>2
<1> HIDE DEF full, all, whole
<1>6. \/ \E o \in all \ full : o.code = 0 /\ tree' = o.tree /\ Goes(s, good)
      \/ (\A o \in all \ full : o.code # 0) /\ (\E o \in all \ full : tree' = o.tree) /\ Goes(s, bad)
  BY <1>1, <1>4, CallEnds
<1> QED BY <1>3, <1>5, <1>6

LEMMA PlacedMore ==
  ASSUME NEW b, NEW c, NEW f, NEW M, NEW N, DOMAIN M \subseteq DOMAIN N, \A d \in DOMAIN M : N[d] = M[d],
         NEW g, Placed(b, c, f, M, g)
  PROVE  Placed(b, c, f, N, g)
<1> DEFINE q == Source(g)
<1>1. q \in Places(M, c, f) /\ Target(g) = Place(M, c, f, q)
  BY DEF Placed
<1>2. q = <<c, f.from>> \/ \E d \in DOMAIN M, n \in Names : q = <<d, n>>
  BY <1>1 DEF Places
<1> HIDE DEF q
<1>3. q \in Places(N, c, f)
  BY <1>2 DEF Places
<1>4. Place(N, c, f, q) = Place(M, c, f, q)
  BY <1>2 DEF Place
<1> QED BY <1>1, <1>3, <1>4 DEF Placed, q

LEMMA FramedMore ==
  ASSUME NEW b, NEW c, NEW f, NEW M, NEW N, DOMAIN M \subseteq DOMAIN N, \A d \in DOMAIN M : N[d] = M[d],
         NEW p, NEW K, Framed(b, p, c, f, M, K)
  PROVE  Framed(b, p, c, f, N, K)
BY PlacedMore DEF Framed

LEMMA WaitingPlaces ==
  ASSUME NEW b, NEW c, NEW f, NEW M, NEW g, Placed(b, c, f, M, g)
  PROVE  Waiting(b, g) \subseteq Places(M, c, f)
<1>1. CASE Made(g)
  <2>1. Left(g) \subseteq Names
    BY <1>1 DEF Placed, Left, Listing
  <2>2. Origin(b, g).id \in DOMAIN M
    BY <1>1 DEF Placed
  <2> QED BY <1>1, <2>1, <2>2 DEF Waiting, Places
<1>2. CASE ~Made(g)
  BY <1>2 DEF Waiting, Placed
<1> QED BY <1>1, <1>2

LEMMA AwaitedPlaces ==
  ASSUME NEW b, NEW c, NEW f, NEW M, NEW p, NEW K, Framed(b, p, c, f, M, K)
  PROVE  Awaited(b, p, K) \subseteq Places(M, c, f)
<1>1. \A k \in K : Waiting(b, p.stack[k]) \subseteq Places(M, c, f)
  BY WaitingPlaces DEF Framed
<1> QED BY <1>1 DEF Awaited

(* What a frame copies is there, and unchanged.                            *)
LEMMA PlacedFacts ==
  ASSUME StoreInv, NEW b, NEW c, NEW f, NEW M, NEW A, CopyState(b, tree, c, f, M, A),
         NEW g, Placed(b, c, f, M, g)
  PROVE  LET x == Origin(b, g)
         IN  /\ g.sd \in Dirs(b) /\ g.sd \in Dirs(tree) /\ g.sn \in Names /\ g.sd \in Ids
             /\ b[g.sd][g.sn] = <<x>> /\ tree[g.sd][g.sn] = <<x>>
             /\ x \in EntryType
             /\ g.dd \in Dirs(tree) /\ g.dn \in Names
             /\ x.type = "dir" => /\ x.id \in Dirs(b) /\ x.id \in Dirs(tree) /\ x.id \in Ids /\ x.id # c
                                  /\ x.id \in Named(b, g.sd, g.sn)
                                  /\ \A n \in Names : tree[x.id][n] = b[x.id][n]
<1> DEFINE q == Source(g)
           x == Origin(b, g)
<1>1. q \in Places(M, c, f) /\ Target(g) = Place(M, c, f, q) /\ Holds(b, g.sd, g.sn)
  BY DEF Placed
<1>2. Job(b, c, f) /\ DOMAIN M \subseteq Below(b, c, f.from) /\ Orderly(b) /\ c \notin Below(b, c, f.from)
  BY DEF CopyState, Job
<1>3. q[1] = g.sd /\ q[2] = g.sn
  BY DEF Source
<1>4. g.sd \in Ids /\ g.sn \in Names /\ g.sd \in Dirs(b) /\ Named(b, g.sd, g.sn) \subseteq Below(b, c, f.from)
  <2> HIDE DEF q
  <2> QED BY <1>1, <1>2, <1>3, PlacesAre
<1>5. Dirs(b) \subseteq Dirs(tree) /\ Place(M, c, f, q)[1] \in Dirs(tree) /\ Place(M, c, f, q)[2] \in Names
      /\ tree[g.sd][g.sn] = b[g.sd][g.sn]
      /\ \A d \in Dirs(b) : \A i \in DOMAIN M : M[i] # d
  <2> HIDE DEF q
  <2> QED BY <1>1, <1>4, CopyFacts
<1>6. g.dd \in Dirs(tree) /\ g.dn \in Names
  <2> HIDE DEF q
  <2>1. Place(M, c, f, q) = <<g.dd, g.dn>>
    BY <1>1 DEF Target
  <2> QED BY <1>5, <2>1
<1>7. /\ b[g.sd][g.sn] = <<x>> /\ x \in EntryType /\ x.id \in Ids
      /\ Named(b, g.sd, g.sn) = IF x.type = "dir" THEN {x.id} ELSE {}
      /\ x.type = "dir" => x.id \in Dirs(b)
  <2> DEFINE d == g.sd
             n == g.sn
  <2>1. x = Head(b[d][n])
    BY DEF Origin
  <2> HIDE DEF d, n, x
  <2>2. d \in Ids /\ n \in Names /\ Holds(b, d, n)
    BY <1>1, <1>4 DEF d, n
  <2>3. /\ b[d][n] = <<x>> /\ x \in EntryType /\ x.id \in Ids
        /\ Named(b, d, n) = IF x.type = "dir" THEN {x.id} ELSE {}
        /\ x.type = "dir" => x.id \in Dirs(b)
    BY <1>2, <2>1, <2>2, OrderlyEntry
  <2> QED BY <2>3 DEF d, n
<1> HIDE DEF q, x
<1>8. ASSUME x.type = "dir"
      PROVE  x.id # c /\ \A n \in Names : tree[x.id][n] = b[x.id][n]
  <2>1. x.id \in Below(b, c, f.from) /\ x.id # c /\ x.id \in Dirs(b) /\ x.id \in Ids
    BY <1>2, <1>4, <1>7, <1>8
  <2>2. \A i \in DOMAIN M : x.id # M[i]
    BY <1>5, <2>1
  <2>3. \A d \in Ids, n \in Names :
          ((\A i \in DOMAIN M : d # M[i]) /\ (d # c \/ n # f.to)) => tree[d][n] = b[d][n]
    BY DEF CopyState
  <2> QED BY <2>1, <2>2, <2>3
<1> QED BY <1>4, <1>5, <1>6, <1>7, <1>8 DEF x

-----------------------------------------------------------------------------
(* s is in the middle of a copy.                                           *)
Amid(s, b, M) ==
  LET p == sh[s]
  IN  /\ Busy(s) /\ Len(p.stack) > 1
      /\ CopyState(b, tree, p.cwd, Base(p), M, Awaited(b, p, Inners(p)))
      /\ Framed(b, p, p.cwd, Base(p), M, Inners(p))

(* What is waited for above the frame on top.                              *)
Others(s, b) == Awaited(b, sh[s], Outers(sh[s]))

LEMMA AmidFacts ==
  ASSUME TypesOK, NEW s \in Shells, NEW b, NEW M, Amid(s, b, M)
  PROVE  LET p == sh[s]
             g == Top(s)
         IN  /\ StoreInv /\ Sized /\ p \in ShellType /\ g = Head(p.stack) /\ g \in FrameType
             /\ Placed(b, p.cwd, Base(p), M, g)
             /\ Waiting(b, g) \cap Others(s, b) = {}
             /\ CopyState(b, tree, p.cwd, Base(p), M, Waiting(b, g) \cup Others(s, b))
             /\ Framed(b, p, p.cwd, Base(p), M, Outers(p))
             /\ Others(s, b) \subseteq Places(M, p.cwd, Base(p))
<1> DEFINE p == sh[s]
           g == Top(s)
           c == p.cwd
           f == Base(p)
<1>1. StoreInv /\ Sized /\ p \in ShellType /\ p.stack # <<>> /\ Len(p.stack) > 1
  BY DEF TypesOK, Amid, Busy
<1>2. g = Head(p.stack) /\ g = p.stack[1] /\ g \in FrameType
  BY <1>1, StackIs DEF Top
<1>3. CopyState(b, tree, c, f, M, Awaited(b, p, Inners(p))) /\ Framed(b, p, c, f, M, Inners(p))
  BY DEF Amid
<1> HIDE DEF p, c, f, g
<1>4. /\ Framed(b, p, c, f, M, Outers(p)) /\ Placed(b, c, f, M, g)
      /\ Waiting(b, g) \cap Awaited(b, p, Outers(p)) = {}
      /\ Awaited(b, p, Inners(p)) = Waiting(b, g) \cup Awaited(b, p, Outers(p))
  BY <1>1, <1>2, <1>3, TopFramed
<1>5. Awaited(b, p, Outers(p)) \subseteq Places(M, c, f)
  BY <1>4, AwaitedPlaces
<1> QED BY <1>1, <1>2, <1>3, <1>4, <1>5 DEF Others, p, c, f, g

LEMMA CopyAt ==
  ASSUME TypesOK, NEW s \in Shells, NEW b, NEW M, Amid(s, b, M),
         NEW g \in FrameType, g.op = Top(s).op, Goes(s, At(sh[s], g)), NEW N,
         CopyState(b, tree', sh[s].cwd, Base(sh[s]), N, Waiting(b, g) \cup Others(s, b)),
         Framed(b, sh[s], sh[s].cwd, Base(sh[s]), N, Outers(sh[s])),
         Placed(b, sh[s].cwd, Base(sh[s]), N, g), Waiting(b, g) \cap Others(s, b) = {}
  PROVE  Copying(b, tree', sh'[s])
<1> DEFINE p == sh[s]
           x == At(p, g)
<1>1. p \in ShellType /\ Len(p.stack) > 1 /\ p.stack # <<>> /\ Top(s) = Head(p.stack)
  BY AmidFacts DEF Amid, Busy
<1>2. sh'[s] = x
  BY DEF Goes, TypesOK
<1>3. x.cwd = p.cwd /\ Base(x) = Base(p)
  BY <1>1, AtStack
<1>4. /\ Framed(b, x, p.cwd, Base(p), N, Inners(x))
      /\ Awaited(b, x, Inners(x)) = Waiting(b, g) \cup Others(s, b)
  BY <1>1, AtCopies DEF Others
<1> QED BY <1>2, <1>3, <1>4 DEF Copying

LEMMA CopyBack ==
  ASSUME TypesOK, NEW s \in Shells, NEW b, NEW M, Amid(s, b, M), Goes(s, Back(sh[s], 0)),
         CopyState(b, tree', sh[s].cwd, Base(sh[s]), M, Others(s, b))
  PROVE  Copying(b, tree', sh'[s])
<1> DEFINE p == sh[s]
           x == Back(p, 0)
<1>1. p \in ShellType /\ Len(p.stack) > 1 /\ p.stack # <<>>
      /\ Framed(b, p, p.cwd, Base(p), M, Outers(p))
  BY AmidFacts DEF Amid, Busy
<1>2. sh'[s] = x
  BY DEF Goes, TypesOK
<1>3. x.cwd = p.cwd /\ Base(x) = Base(p)
  BY <1>1, BackStack
<1>4. /\ Framed(b, x, p.cwd, Base(p), M, Inners(x))
      /\ Awaited(b, x, Inners(x)) = Others(s, b)
  BY <1>1, BackCopies DEF Others
<1> QED BY <1>2, <1>3, <1>4 DEF Copying

-----------------------------------------------------------------------------
LEMMA FileGoes ==
  ASSUME TypesOK, Excused, LinesFit, NEW s \in Shells, NEW b, NEW M, Amid(s, b, M),
         CopyFile(s), began'[s] # None
  PROVE  Copying(b, tree', sh'[s])
<1> DEFINE p == sh[s]
           g == Top(s)
           c == p.cwd
           f == Base(p)
           x == Origin(b, g)
           R == Others(s, b)
<1>1. /\ StoreInv /\ Sized /\ p \in ShellType /\ g = Head(p.stack) /\ g \in FrameType
      /\ Placed(b, c, f, M, g)
      /\ Waiting(b, g) \cap R = {}
      /\ CopyState(b, tree, c, f, M, Waiting(b, g) \cup R)
      /\ Framed(b, p, c, f, M, Outers(p))
  BY AmidFacts
<1>2. g.op = "file" /\ g \in FileFrames /\ ~Made(g) /\ Waiting(b, g) = {Source(g)} /\ x.type = "reg"
      /\ Source(g) \in Places(M, c, f) /\ Target(g) = Place(M, c, f, Source(g)) /\ Holds(b, g.sd, g.sn)
  <2>1. g.op = "file"
    BY DEF CopyFile
  <2> QED BY <1>1, <2>1, FrameKinds DEF Made, Waiting, Placed
<1>3. /\ g.sd \in Dirs(tree) /\ g.sn \in Names /\ tree[g.sd][g.sn] = <<x>> /\ x \in EntryType
      /\ g.dd \in Dirs(tree) /\ g.dn \in Names
  <2> DEFINE A == Waiting(b, g) \cup R
  <2>1. StoreInv /\ Placed(b, c, f, M, g) /\ CopyState(b, tree, c, f, M, A)
    BY <1>1
  <2> HIDE DEF A, R, f, c, g, p
  <2> QED BY <2>1, PlacedFacts
<1> HIDE DEF R, f, c, g, p
<1>4. ASSUME g.at = "read",
             LET code == ReadCode(tree, g.sd, g.sn, Room)
                 data == IF code = 0 THEN Head(tree[g.sd][g.sn]).data ELSE <<>>
             IN  Looking(s, code, At(p, [g EXCEPT !.at = "write", !.data = Buffer(data)]), Back(p, -1))
      PROVE  Copying(b, tree', sh'[s])
  <2>1. Holds(tree, g.sd, g.sn) /\ Head(tree[g.sd][g.sn]) = x
    <3>1. <<x>> # <<>> /\ Head(<<x>>) = x
      OBVIOUS
    <3> HIDE DEF x
    <3> QED BY <1>3, <3>1 DEF Holds
  <2> HIDE DEF x
  <2>2. Fits(x)
    BY <1>1, <1>3, <2>1, FitsHead
  <2>3. x.data \in Seq(Cells) /\ Len(x.data) <= Room /\ ~(x.size > Room)
    <3>1. x.data \in Seq(Cells) /\ x.size \in Nat /\ Len(x.data) <= x.size /\ x.size <= Room
      BY <1>3, <2>2 DEF EntryType, Fits
    <3>2. Len(x.data) \in Nat /\ Room \in Nat
      BY <3>1, ShellAssumption
    <3> QED BY <3>1, <3>2
  <2>4. ReadCode(tree, g.sd, g.sn, Room) = 0
    BY <1>2, <1>3, <2>1, <2>3 DEF ReadCode, x
  <2> DEFINE buf == Buffer(x.data)
             h == [g EXCEPT !.at = "write", !.data = buf]
  <2>5. buf \in Buffers /\ Begins(buf, x.data)
    BY <2>3, BufferIs
  <2> HIDE DEF buf
  <2>6. Looking(s, 0, At(p, h), Back(p, -1))
    BY <1>4, <2>1, <2>4 DEF buf
  <2>7. /\ h \in FileFrames /\ h.op = "file" /\ h.at = "write" /\ h.data = buf
        /\ h.sd = g.sd /\ h.sn = g.sn /\ h.dd = g.dd /\ h.dn = g.dn
    BY <1>2, <2>5 DEF FileFrames
  <2> HIDE DEF h
  <2>8. tree' = tree /\ Goes(s, At(p, h))
    BY <2>6, LookCases, LookEnds
  <2>9. Source(h) = Source(g) /\ Target(h) = Target(g) /\ Origin(b, h) = x /\ ~Made(h)
        /\ Waiting(b, h) = Waiting(b, g)
    <3>1. Source(h) = Source(g) /\ Target(h) = Target(g) /\ Origin(b, h) = x /\ ~Made(h)
      BY <2>7 DEF Source, Target, Origin, Made, x
    <3> QED BY <1>2, <3>1 DEF Waiting
  <2>10. Placed(b, c, f, M, h)
    BY <1>2, <2>5, <2>7, <2>9 DEF Placed
  <2>11. h \in FrameType /\ h.op = g.op
    BY <1>2, <2>7 DEF FrameType
  <2>12. CopyState(b, tree', c, f, M, Waiting(b, h) \cup R)
    BY <1>1, <2>8, <2>9
  <2> QED BY <1>1, <2>8, <2>9, <2>10, <2>11, <2>12, CopyAt DEF p, g, c, f, R
<1>5. ASSUME g.at = "write", Writing(s, g.dd, g.dn, "reg", g.data, Back(p, 0), Back(p, -1))
      PROVE  Copying(b, tree', sh'[s])
  <2>1. ~Holds(tree, g.dd, g.dn)
    <3> DEFINE q == Source(g)
    <3>1. q \in Waiting(b, g) \cup R /\ q \in Places(M, c, f)
      BY <1>2
    <3>2. Place(M, c, f, q)[1] = g.dd /\ Place(M, c, f, q)[2] = g.dn
      <4>1. Place(M, c, f, q) = <<g.dd, g.dn>>
        BY <1>2 DEF Target
      <4> HIDE DEF q
      <4> QED BY <4>1
    <3> HIDE DEF q
    <3>3. tree[Place(M, c, f, q)[1]][Place(M, c, f, q)[2]] = <<>>
      BY <1>1, <3>1 DEF CopyState
    <3> QED BY <3>2, <3>3 DEF Holds
  <2>2. PICK i \in Ids \ Used(tree) :
          tree' = Push(tree, g.dd, g.dn, EntryOf("reg", i, Len(g.data), g.data)) /\ Goes(s, Back(p, 0))
    BY <1>3, <1>5, <2>1, WriteGoes
  <2> DEFINE e == EntryOf("reg", i, Len(g.data), g.data)
             q == Source(g)
  <2>3. /\ e \in EntryType /\ e.id \notin Used(tree) /\ e.type = "reg" /\ e.data = g.data
    <3>1. g.data \in Seq(Cells)
      BY <1>2 DEF FileFrames, Buffers
    <3>2. Len(g.data) \in Nat
      BY <3>1
    <3> QED BY <3>1, <3>2 DEF EntryOf, EntryType
  <2>4. Begins(e.data, x.data)
    BY <1>1, <1>2, <1>5, <2>3 DEF Placed
  <2>5. tree' = Push(tree, g.dd, g.dn, e)
    BY <2>2
  <2> HIDE DEF e
  <2>6. q \in Waiting(b, g) \cup R /\ q[1] = g.sd /\ q[2] = g.sn /\ <<g.dd, g.dn>> = Place(M, c, f, q)
    BY <1>2 DEF Source, Target
  <2>7. (Waiting(b, g) \cup R) \ {q} = R
    BY <1>1, <1>2
  <2> HIDE DEF q
  <2>8. Holds(b, q[1], q[2]) /\ Head(b[q[1]][q[2]]) = x /\ q \in Places(M, c, f)
    BY <1>2, <2>6 DEF Origin, q
  <2> HIDE DEF x
  <2> DEFINE A == Waiting(b, g) \cup R
  <2>9. CopyState(b, tree, c, f, M, A) /\ q \in A
    BY <1>1, <2>6
  <2> HIDE DEF A
  <2>10. CopyState(b, tree', c, f, M, A \ {q})
    BY <1>1, <1>2, <2>3, <2>4, <2>5, <2>6, <2>8, <2>9, CopyFileAdds
  <2>11. CopyState(b, tree', c, f, M, R)
    BY <2>7, <2>10 DEF A
  <2> QED BY <2>2, <2>11, CopyBack DEF p, c, f, R
<1> QED BY <1>4, <1>5 DEF CopyFile, p, g

(* The directory that a frame has made is the copy of the one it copies.   *)
LEMMA CopyFound ==
  ASSUME StoreInv, NEW b, NEW c, NEW f, NEW M, NEW A, CopyState(b, tree, c, f, M, A),
         NEW g, Placed(b, c, f, M, g), Made(g)
  PROVE  LET i == Origin(b, g).id
         IN  /\ InodeNamed(g.sd, g.sn) = i /\ i # None
             /\ InodeNamed(g.dd, g.dn) = M[i] /\ M[i] # None /\ M[i] \in Inodes /\ i \in Inodes
<1> DEFINE x == Origin(b, g)
           q == Source(g)
<1>1. /\ x.type = "dir" /\ x.id \in DOMAIN M /\ q \in Places(M, c, f) /\ Target(g) = Place(M, c, f, q)
      /\ Holds(b, g.sd, g.sn)
  BY DEF Placed, Made
<1>2. /\ g.sd \in Dirs(b) /\ g.sd \in Dirs(tree) /\ g.sn \in Names /\ g.sd \in Ids
      /\ b[g.sd][g.sn] = <<x>> /\ tree[g.sd][g.sn] = <<x>> /\ x \in EntryType
      /\ g.dd \in Dirs(tree) /\ g.dn \in Names /\ x.id \in Ids
  BY <1>1, PlacedFacts
<1>3. Orderly(b) /\ Job(b, c, f) /\ DOMAIN M \subseteq Below(b, c, f.from) /\ M[x.id] \in Dirs(tree)
  BY <1>1 DEF CopyState, Job
<1>4. x.id # None /\ \A i \in Ids : i # None
  BY <1>2, ShellAssumption
<1>5. q[1] = g.sd /\ q[2] = g.sn /\ Place(M, c, f, q)[1] = g.dd /\ Place(M, c, f, q)[2] = g.dn
  <2>1. q[1] = g.sd /\ q[2] = g.sn /\ Place(M, c, f, q) = <<g.dd, g.dn>>
    BY <1>1 DEF Source, Target
  <2> HIDE DEF q
  <2> QED BY <2>1
<1>6. Head(<<x>>) = x /\ <<x>> # <<>>
  OBVIOUS
<1> HIDE DEF x, q
<1>7. InodeNamed(g.sd, g.sn) = x.id
  BY <1>2, <1>6 DEF InodeNamed, Holds
<1>8. q \notin A
  <2>1. PICK r \in Places(M, c, f) \ A : x.id \in Named(b, r[1], r[2])
    BY <1>1 DEF CopyState
  <2>2. r = <<r[1], r[2]>> /\ r[1] \in Ids /\ r[2] \in Names /\ q = <<q[1], q[2]>>
    BY <1>1, <1>3, <2>1, PlacesAre
  <2>3. Holds(b, r[1], r[2])
    BY <1>3, <2>1, <2>2, OrderlyNone
  <2>4. Head(b[r[1]][r[2]]).id = x.id
    BY <1>3, <2>1, <2>2, <2>3, OrderlyEntry
  <2>5. Head(b[g.sd][g.sn]).id = x.id
    BY <1>2, <1>6
  <2>6. r[1] = g.sd /\ r[2] = g.sn
    BY <1>1, <1>2, <1>3, <2>2, <2>3, <2>4, <2>5 DEF Orderly
  <2> QED BY <1>5, <2>1, <2>2, <2>6
<1>9. Alike(M, b[q[1]][q[2]], tree[Place(M, c, f, q)[1]][Place(M, c, f, q)[2]])
  BY <1>1, <1>8 DEF CopyState
<1>10. Alike(M, <<x>>, tree[g.dd][g.dn])
  BY <1>2, <1>5, <1>9
<1>11. Len(tree[g.dd][g.dn]) = 1 /\ Head(tree[g.dd][g.dn]).id = M[x.id]
  <2>1. Len(<<x>>) = 1
    OBVIOUS
  <2> QED BY <1>1, <1>6, <1>10, <2>1 DEF Alike
<1>12. Holds(tree, g.dd, g.dn)
  <2>1. Len(<<>>) = 0
    OBVIOUS
  <2> QED BY <1>11, <2>1 DEF Holds
<1>13. InodeNamed(g.dd, g.dn) = M[x.id]
  BY <1>2, <1>11, <1>12 DEF InodeNamed
<1>14. M[x.id] \in Ids
  BY <1>3, DirsAreIds DEF StoreInv, StoreTypeOK
<1> QED BY <1>2, <1>4, <1>7, <1>13, <1>14 DEF Inodes, x

-----------------------------------------------------------------------------
(* The directory is made, and its copy known from then on.                 *)
LEMMA MkdirGoes ==
  ASSUME TypesOK, Excused, NEW s \in Shells, NEW b, NEW M, Amid(s, b, M), began'[s] # None,
         Top(s).op = "copy", Top(s).at = "mkdir",
         Writing(s, Top(s).dd, Top(s).dn, "dir", <<>>, At(sh[s], [Top(s) EXCEPT !.at = "src"]),
                 Back(sh[s], -1))
  PROVE  Copying(b, tree', sh'[s])
<1> DEFINE p == sh[s]
           g == Top(s)
           c == p.cwd
           f == Base(p)
           x == Origin(b, g)
           R == Others(s, b)
           q == Source(g)
           h == [g EXCEPT !.at = "src"]
<1>1. /\ StoreInv /\ p \in ShellType /\ g = Head(p.stack) /\ g \in FrameType
      /\ Placed(b, c, f, M, g)
      /\ Waiting(b, g) \cap R = {}
      /\ CopyState(b, tree, c, f, M, Waiting(b, g) \cup R)
      /\ Framed(b, p, c, f, M, Outers(p)) /\ R \subseteq Places(M, c, f)
  BY AmidFacts
<1>2. g.op = "copy" /\ g.at = "mkdir" /\ Writing(s, g.dd, g.dn, "dir", <<>>, At(p, h), Back(p, -1))
  OBVIOUS
<1>3. /\ g \in CopyFrames /\ ~Made(g) /\ Waiting(b, g) = {q} /\ x.type = "dir"
      /\ q \in Places(M, c, f) /\ Target(g) = Place(M, c, f, q) /\ Holds(b, g.sd, g.sn)
  BY <1>1, <1>2, FrameKinds DEF Made, Waiting, Placed
<1>4. /\ g.dd \in Dirs(tree) /\ g.dn \in Names /\ x \in EntryType /\ x.id \in Ids /\ x.id # c
  BY <1>1, <1>3, PlacedFacts
<1>5. /\ h \in CopyFrames /\ h.op = "copy" /\ h.at = "src"
      /\ h.sd = g.sd /\ h.sn = g.sn /\ h.dd = g.dd /\ h.dn = g.dn
  BY <1>2, <1>3 DEF CopyFrames
<1> HIDE DEF R, f, c, g, p, h
<1>6. q[1] = g.sd /\ q[2] = g.sn /\ <<g.dd, g.dn>> = Place(M, c, f, q)
  BY <1>3 DEF Source, Target
<1>7. Holds(b, q[1], q[2]) /\ x = Head(b[q[1]][q[2]])
  BY <1>3, <1>6 DEF Origin
<1> HIDE DEF q, x
<1>8. ~Holds(tree, g.dd, g.dn)
  <2>1. tree[Place(M, c, f, q)[1]][Place(M, c, f, q)[2]] = <<>>
    BY <1>1, <1>3 DEF CopyState
  <2>2. Place(M, c, f, q)[1] = g.dd /\ Place(M, c, f, q)[2] = g.dn
    BY <1>6
  <2> QED BY <2>1, <2>2 DEF Holds
<1>9. PICK i \in Ids \ Used(tree) :
        tree' = Push(tree, g.dd, g.dn, EntryOf("dir", i, Len(<<>>), <<>>)) /\ Goes(s, At(p, h))
  BY <1>2, <1>4, <1>8, WriteGoes
<1> DEFINE e == EntryOf("dir", i, Len(<<>>), <<>>)
           N == [d \in DOMAIN M \cup {x.id} |-> IF d = x.id THEN e.id ELSE M[d]]
           A == Waiting(b, g) \cup R
           B == {x.id} \X Names
<1>10. e \in EntryType /\ e.id \notin Used(tree) /\ e.type = "dir"
  BY DEF EntryOf, EntryType
<1>11. tree' = Push(tree, g.dd, g.dn, e)
  BY <1>9
<1> HIDE DEF e
<1>12. x.id \notin DOMAIN M /\ CopyState(b, tree', c, f, N, (A \ {q}) \cup B)
  <2>1. q \in A /\ CopyState(b, tree, c, f, M, A)
    BY <1>1, <1>3
  <2> HIDE DEF A
  <2>2. q \in Places(M, c, f) /\ Holds(b, q[1], q[2]) /\ x.type = "dir"
    BY <1>3, <1>7
  <2>3. DOMAIN N = DOMAIN M \cup {x.id} /\ N[x.id] = e.id /\ \A d \in DOMAIN M \ {x.id} : N[d] = M[d]
    OBVIOUS
  <2> HIDE DEF N
  <2> DEFINE d == g.dd
             n == g.dn
             W == (A \ {q}) \cup B
  <2>4. W = (A \ {q}) \cup ({x.id} \X Names)
    OBVIOUS
  <2> HIDE DEF d, n, B, W
  <2>5. NewCopy(b, c, f, M, A, q, x, e, N, W)
    BY <1>7, <1>10, <2>1, <2>2, <2>3, <2>4 DEF NewCopy
  <2>6. <<d, n>> = Place(M, c, f, q) /\ tree' = Push(tree, d, n, e)
    BY <1>6, <1>11 DEF d, n
  <2>7. x.id \notin DOMAIN M /\ CopyState(b, tree', c, f, N, W)
    BY <1>1, <2>5, <2>6, CopyDirAdds
  <2> QED BY <2>7 DEF W
<1>13. A \ {q} = R
  BY <1>1, <1>3
<1>14. DOMAIN M \subseteq DOMAIN N /\ x.id \in DOMAIN N /\ \A d \in DOMAIN M : N[d] = M[d]
  BY <1>12
<1> HIDE DEF A, N
<1>15. Source(h) = q /\ Target(h) = Target(g) /\ Origin(b, h) = x /\ Made(h) /\ Left(h) = Names
  BY <1>5 DEF Source, Target, Origin, Made, Left, q, x
<1>16. Waiting(b, h) = B
  BY <1>15 DEF Waiting
<1>17. R \cap B = {}
  <2> SUFFICES ASSUME NEW r \in R, r \in B PROVE FALSE
    OBVIOUS
  <2>1. r[1] = x.id
    <3>1. PICK n \in Names : r = <<x.id, n>>
      OBVIOUS
    <3> QED BY <3>1
  <2>2. r[1] = c \/ r[1] \in DOMAIN M
    <3>1. r = <<c, f.from>> \/ \E d \in DOMAIN M, n \in Names : r = <<d, n>>
      BY <1>1 DEF Places
    <3> QED BY <3>1
  <2> QED BY <1>4, <1>12, <2>1, <2>2
<1> HIDE DEF B
<1>18. Placed(b, c, f, N, h)
  <2>1. Placed(b, c, f, N, g)
    BY <1>1, <1>14, PlacedMore
  <2>2. q \in Places(N, c, f) /\ Target(h) = Place(N, c, f, q)
    BY <1>15, <2>1 DEF Placed, q
  <2> QED BY <1>3, <1>5, <1>14, <1>15, <2>2 DEF Placed
<1>19. Framed(b, p, c, f, N, Outers(p))
  BY <1>1, <1>14, FramedMore
<1>20. CopyState(b, tree', c, f, N, Waiting(b, h) \cup R)
  <2>1. (A \ {q}) \cup B = Waiting(b, h) \cup R
    BY <1>13, <1>16
  <2> QED BY <1>12, <2>1
<1>21. h \in FrameType /\ h.op = g.op /\ Waiting(b, h) \cap R = {}
  BY <1>2, <1>5, <1>16, <1>17 DEF FrameType
<1> QED BY <1>9, <1>18, <1>19, <1>20, <1>21, CopyAt DEF p, g, c, f, R

(* Frame h is g after it has found something out: it waits for the same    *)
(* names but for some that nothing is under.                               *)
Learnt(b, M, g, h) ==
  LET i == Origin(b, g).id
  IN  /\ h \in CopyFrames /\ h.at # "mkdir"
      /\ h.sd = g.sd /\ h.sn = g.sn /\ h.dd = g.dd /\ h.dn = g.dn
      /\ h.at # "src" => h.src = i
      /\ h.at \in {"list", "each"} => h.dst = M[i]
      /\ h.at = "each" => h.todo \subseteq Listing(b, h.src)
      /\ Left(h) \subseteq Left(g) /\ \A n \in Left(g) \ Left(h) : b[i][n] = <<>>

LEMMA CopyLearns ==
  ASSUME TypesOK, NEW s \in Shells, NEW b, NEW M, Amid(s, b, M), Made(Top(s)), tree' = tree,
         NEW h, Learnt(b, M, Top(s), h), Goes(s, At(sh[s], h))
  PROVE  Copying(b, tree', sh'[s])
<1> DEFINE p == sh[s]
           g == Top(s)
           c == p.cwd
           f == Base(p)
           x == Origin(b, g)
           R == Others(s, b)
<1>1. /\ StoreInv /\ p \in ShellType
      /\ Placed(b, c, f, M, g)
      /\ Waiting(b, g) \cap R = {}
      /\ CopyState(b, tree, c, f, M, Waiting(b, g) \cup R)
      /\ Framed(b, p, c, f, M, Outers(p))
  BY AmidFacts
<1>2. g.op = "copy" /\ h.op = "copy" /\ Made(h) /\ h \in FrameType /\ Made(g)
  BY DEF Made, CopyFrames, FrameType, Learnt
<1>3. /\ h.sd = g.sd /\ h.sn = g.sn /\ h.dd = g.dd /\ h.dn = g.dn
      /\ h.at # "src" => h.src = x.id
      /\ h.at \in {"list", "each"} => h.dst = M[x.id]
      /\ h.at = "each" => h.todo \subseteq Listing(b, h.src)
      /\ Left(h) \subseteq Left(g) /\ \A n \in Left(g) \ Left(h) : b[x.id][n] = <<>>
  BY DEF Learnt
<1> HIDE DEF R, f, c, g, p
<1>4. Source(h) = Source(g) /\ Target(h) = Target(g) /\ Origin(b, h) = x
  BY <1>3 DEF Source, Target, Origin
<1> HIDE DEF x
<1>5. Waiting(b, h) = {x.id} \X Left(h) /\ Waiting(b, g) = {x.id} \X Left(g)
  BY <1>2, <1>4 DEF Waiting, x
<1>6. Waiting(b, h) \subseteq Waiting(b, g)
  BY <1>3, <1>5
<1>7. \A q \in (Waiting(b, g) \cup R) \ (Waiting(b, h) \cup R) : b[q[1]][q[2]] = <<>>
  <2> SUFFICES ASSUME NEW q \in Waiting(b, g), q \notin Waiting(b, h) PROVE b[q[1]][q[2]] = <<>>
    OBVIOUS
  <2>1. PICK n \in Left(g) : q = <<x.id, n>>
    BY <1>5
  <2>2. n \notin Left(h)
    BY <1>5, <2>1
  <2> QED BY <1>3, <2>1, <2>2
<1>8. CopyState(b, tree', c, f, M, Waiting(b, h) \cup R)
  <2> DEFINE A == Waiting(b, g) \cup R
             B == Waiting(b, h) \cup R
  <2>1. B \subseteq A /\ CopyState(b, tree, c, f, M, A) /\ \A q \in A \ B : b[q[1]][q[2]] = <<>>
    BY <1>1, <1>6, <1>7
  <2> HIDE DEF A, B
  <2>2. CopyState(b, tree, c, f, M, B)
    BY <2>1, CopyFewer
  <2> QED BY <2>2 DEF B
<1>9. Placed(b, c, f, M, h)
  BY <1>1, <1>2, <1>3, <1>4 DEF Placed, x
<1>10. Waiting(b, h) \cap R = {}
  BY <1>1, <1>6
<1> QED BY <1>1, <1>2, <1>8, <1>9, <1>10, CopyAt DEF p, g, c, f, R

-----------------------------------------------------------------------------
LEMMA DirGoes ==
  ASSUME TypesOK, Excused, NEW s \in Shells, NEW b, NEW M, Amid(s, b, M),
         CopyDir(s), began'[s] # None
  PROVE  Copying(b, tree', sh'[s])
<1> DEFINE p == sh[s]
           g == Top(s)
           c == p.cwd
           f == Base(p)
           i == Origin(b, g).id
<1>1. /\ StoreInv /\ g \in FrameType /\ Placed(b, c, f, M, g)
      /\ CopyState(b, tree, c, f, M, Waiting(b, g) \cup Others(s, b))
  BY AmidFacts
<1>2. g.op = "copy" /\ g \in CopyFrames
  <2>1. g.op = "copy"
    BY DEF CopyDir
  <2> QED BY <1>1, <2>1, FrameKinds
<1>3. CASE g.at = "mkdir" /\ Writing(s, g.dd, g.dn, "dir", <<>>, At(p, [g EXCEPT !.at = "src"]), Back(p, -1))
  BY <1>2, <1>3, MkdirGoes
<1>4. ASSUME g.at # "mkdir"
      PROVE  /\ Made(g) /\ InodeNamed(g.sd, g.sn) = i /\ i # None /\ i \in Inodes
             /\ InodeNamed(g.dd, g.dn) = M[i] /\ M[i] # None /\ M[i] \in Inodes
             /\ g.sd \in Dirs(tree) /\ g.dd \in Dirs(tree)
             /\ i \in Dirs(tree) /\ i \in Ids /\ \A n \in Names : tree[i][n] = b[i][n]
             /\ g.at # "src" => g.src = i
             /\ g.at \in {"list", "each"} => g.dst = M[i]
  <2>1. Made(g)
    BY <1>2, <1>4 DEF Made
  <2>2. Origin(b, g).type = "dir"
    BY <1>1, <1>2 DEF Placed
  <2>3. /\ InodeNamed(g.sd, g.sn) = i /\ i # None /\ i \in Inodes
        /\ InodeNamed(g.dd, g.dn) = M[i] /\ M[i] # None /\ M[i] \in Inodes
    BY <1>1, <2>1, CopyFound
  <2>4. /\ g.sd \in Dirs(tree) /\ g.dd \in Dirs(tree)
        /\ i \in Dirs(tree) /\ i \in Ids /\ \A n \in Names : tree[i][n] = b[i][n]
    BY <1>1, <2>2, PlacedFacts
  <2>5. g.at # "src" => g.src = i
    BY <1>1, <2>1 DEF Placed
  <2>6. g.at \in {"list", "each"} => g.dst = M[i]
    BY <1>1, <2>1 DEF Placed
  <2> QED BY <2>1, <2>3, <2>4, <2>5, <2>6
<1>5. CASE g.at = "src" /\ Finding(s, g.sd, g.sn,
             At(p, [g EXCEPT !.at = "dst", !.src = InodeNamed(g.sd, g.sn)]), Back(p, -1))
  <2> DEFINE h == [g EXCEPT !.at = "dst", !.src = InodeNamed(g.sd, g.sn)]
  <2>1. Finding(s, g.sd, g.sn, At(p, h), Back(p, -1))
    BY <1>5
  <2>2. /\ h \in CopyFrames /\ h.at = "dst" /\ h.src = i
        /\ h.sd = g.sd /\ h.sn = g.sn /\ h.dd = g.dd /\ h.dn = g.dn
    BY <1>2, <1>4, <1>5 DEF CopyFrames
  <2>3. tree' = tree
    BY <2>1, FindCases
  <2>4. Goes(s, At(p, h))
    <3> HIDE DEF h
    <3>1. Goes(s, IF InodeNamed(g.sd, g.sn) = None THEN Back(p, -1) ELSE At(p, h))
      BY <1>4, <1>5, <2>1, FindEnds
    <3> QED BY <1>4, <1>5, <3>1
  <2> HIDE DEF h
  <2>5. Learnt(b, M, g, h)
    BY <1>5, <2>2 DEF Learnt, Left
  <2> QED BY <1>4, <1>5, <2>3, <2>4, <2>5, CopyLearns
<1>6. CASE g.at = "dst" /\ Finding(s, g.dd, g.dn,
             At(p, [g EXCEPT !.at = "list", !.dst = InodeNamed(g.dd, g.dn)]), Back(p, -1))
  <2> DEFINE h == [g EXCEPT !.at = "list", !.dst = InodeNamed(g.dd, g.dn)]
  <2>1. Finding(s, g.dd, g.dn, At(p, h), Back(p, -1))
    BY <1>6
  <2>2. /\ h \in CopyFrames /\ h.at = "list" /\ h.src = i /\ h.dst = M[i]
        /\ h.sd = g.sd /\ h.sn = g.sn /\ h.dd = g.dd /\ h.dn = g.dn
    BY <1>2, <1>4, <1>6 DEF CopyFrames
  <2>3. tree' = tree
    BY <2>1, FindCases
  <2>4. Goes(s, At(p, h))
    <3> HIDE DEF h
    <3>1. Goes(s, IF InodeNamed(g.dd, g.dn) = None THEN Back(p, -1) ELSE At(p, h))
      BY <1>4, <1>6, <2>1, FindEnds
    <3> QED BY <1>4, <1>6, <3>1
  <2> HIDE DEF h
  <2>5. Learnt(b, M, g, h)
    BY <1>6, <2>2 DEF Learnt, Left
  <2> QED BY <1>4, <1>6, <2>3, <2>4, <2>5, CopyLearns
<1>7. CASE g.at = "list" /\ Looking(s, ListCode(tree, g.src),
             At(p, [g EXCEPT !.at = "each", !.todo = Listing(tree, g.src)]), Back(p, -1))
  <2> DEFINE h == [g EXCEPT !.at = "each", !.todo = Listing(tree, g.src)]
  <2>0. g.src = i /\ ListCode(tree, g.src) = 0
    BY <1>4, <1>7 DEF ListCode
  <2>1. Looking(s, 0, At(p, h), Back(p, -1))
    BY <1>7, <2>0
  <2>2. /\ h \in CopyFrames /\ h.at = "each" /\ h.src = i /\ h.dst = M[i] /\ h.todo = Listing(tree, i)
        /\ h.sd = g.sd /\ h.sn = g.sn /\ h.dd = g.dd /\ h.dn = g.dn
    <3>1. Listing(tree, g.src) \subseteq Todo
      BY <1>1, <2>0, ListingType
    <3> QED BY <1>2, <1>4, <1>7, <2>0, <3>1 DEF CopyFrames
  <2> HIDE DEF h
  <2>3. tree' = tree /\ Goes(s, At(p, h))
    BY <2>1, LookCases, LookEnds
  <2>4. Listing(tree, i) \subseteq Listing(b, i)
    BY <1>4, <1>7 DEF Listing
  <2>5. \A n \in Names \ Left(h) : b[i][n] = <<>>
    <3> SUFFICES ASSUME NEW n \in Names, tree[i][n] # <<>> PROVE n \in Left(h)
      BY <1>4, <1>7
    <3>1. 1 \in DOMAIN tree[i][n]
      <4>1. tree[i][n] \in Seq(EntryType)
        BY <1>1, <1>4, <1>7 DEF StoreInv, StoreTypeOK
      <4>2. \A q \in Seq(EntryType) : q # <<>> => 1 \in DOMAIN q
        OBVIOUS
      <4> QED BY <4>1, <4>2
    <3> DEFINE e == [name |-> n, nth |-> 1, type |-> tree[i][n][1].type]
    <3>2. e \in Listing(tree, i) /\ e.name = n
      BY <3>1 DEF Listing
    <3> HIDE DEF e
    <3> QED BY <2>2, <3>2 DEF Left
  <2>6. Left(h) \subseteq Names /\ Left(g) = Names
    <3>1. \A e \in Listing(tree, i) : e.name \in Names
      BY DEF Listing
    <3> QED BY <1>7, <2>2, <3>1 DEF Left
  <2>7. Learnt(b, M, g, h)
    BY <2>2, <2>4, <2>5, <2>6 DEF Learnt
  <2> QED BY <1>4, <1>7, <2>3, <2>7, CopyLearns
<1> QED BY <1>3, <1>5, <1>6, <1>7 DEF CopyDir

-----------------------------------------------------------------------------
LEMMA CopyInto ==
  ASSUME TypesOK, NEW s \in Shells, NEW b, NEW M, Amid(s, b, M), tree' = tree,
         NEW h \in FrameType, h.op = Top(s).op, NEW e \in FrameType, Goes(s, Into(sh[s], h, e)),
         Placed(b, sh[s].cwd, Base(sh[s]), M, h), Placed(b, sh[s].cwd, Base(sh[s]), M, e),
         Waiting(b, e) \cup Waiting(b, h) = Waiting(b, Top(s)), Waiting(b, e) \cap Waiting(b, h) = {}
  PROVE  Copying(b, tree', sh'[s])
<1> DEFINE p == sh[s]
           x == Into(p, h, e)
           c == p.cwd
           f == Base(p)
           g == Top(s)
           R == Others(s, b)
<1>1. /\ p \in ShellType /\ Len(p.stack) > 1 /\ p.stack # <<>> /\ g = Head(p.stack)
      /\ Waiting(b, g) \cap R = {}
      /\ CopyState(b, tree, c, f, M, Waiting(b, g) \cup R)
      /\ Framed(b, p, c, f, M, Outers(p))
  BY AmidFacts DEF Amid, Busy
<1>2. sh'[s] = x
  BY DEF Goes, TypesOK
<1>3. x.cwd = c /\ Base(x) = f
  BY <1>1, IntoStack
<1>4. R = Awaited(b, p, Outers(p)) /\ Waiting(b, h) \cap R = {} /\ Waiting(b, e) \cap R = {}
  BY <1>1 DEF Others
<1>5. /\ Framed(b, x, c, f, M, Inners(x))
      /\ Awaited(b, x, Inners(x)) = Waiting(b, e) \cup Waiting(b, h) \cup R
  <2> HIDE DEF R, c, f
  <2>1. Framed(b, p, c, f, M, Outers(p)) /\ Placed(b, c, f, M, h) /\ Placed(b, c, f, M, e)
    BY <1>1 DEF c, f
  <2>2. /\ h.op = Head(p.stack).op
        /\ Waiting(b, h) \cap Awaited(b, p, Outers(p)) = {}
        /\ Waiting(b, e) \cap Awaited(b, p, Outers(p)) = {}
    BY <1>1, <1>4
  <2> HIDE DEF p
  <2> QED BY <1>1, <1>4, <2>1, <2>2, IntoCopies
<1>6. Awaited(b, x, Inners(x)) = Waiting(b, g) \cup R
  BY <1>5
<1> HIDE DEF R, g, x
<1>7. CopyState(b, tree', c, f, M, Awaited(b, x, Inners(x)))
  BY <1>1, <1>6
<1> QED BY <1>2, <1>3, <1>5, <1>7 DEF Copying

LEMMA ListingIs ==
  ASSUME NEW t, NEW d, NEW e \in Listing(t, d)
  PROVE  \E n \in Names : \E k \in DOMAIN t[d][n] : e = [name |-> n, nth |-> k, type |-> t[d][n][k].type]
<1> DEFINE at(n) == {[name |-> n, nth |-> k, type |-> t[d][n][k].type] : k \in DOMAIN t[d][n]}
<1>1. e \in UNION {at(n) : n \in Names}
  BY DEF Listing
<1>2. PICK n \in Names : e \in at(n)
  <2> HIDE DEF at
  <2> QED BY <1>1
<1> QED BY <1>2

LEMMA EachGoes ==
  ASSUME TypesOK, NEW s \in Shells, NEW b, NEW M, Amid(s, b, M), CopyEach(s)
  PROVE  Copying(b, tree', sh'[s])
<1> DEFINE p == sh[s]
           g == Top(s)
           c == p.cwd
           f == Base(p)
           i == Origin(b, g).id
<1>1. /\ StoreInv /\ g \in FrameType /\ Placed(b, c, f, M, g)
      /\ CopyState(b, tree, c, f, M, Waiting(b, g) \cup Others(s, b))
  BY AmidFacts
<1>2. g.op = "copy" /\ g.at = "each" /\ g \in CopyFrames /\ Made(g)
  <2>1. g.op = "copy" /\ g.at = "each"
    BY DEF CopyEach
  <2> QED BY <1>1, <2>1, FrameKinds DEF Made
<1>3. /\ i \in DOMAIN M /\ g.src = i /\ g.dst = M[i] /\ g.todo \subseteq Listing(b, i)
      /\ Origin(b, g).type = "dir"
  BY <1>1, <1>2 DEF Placed
<1>4. i \in Ids /\ i # c /\ Orderly(b)
  <2>1. Orderly(b)
    BY <1>1 DEF CopyState, Job
  <2> QED BY <1>1, <1>3, <2>1, PlacedFacts
<1>5. Left(g) = {e.name : e \in g.todo} /\ Waiting(b, g) = {i} \X Left(g)
  BY <1>2 DEF Left, Waiting
<1>6. CASE g.todo = {} /\ Going(s, Back(p, 0))
  <2>1. Waiting(b, g) = {}
    BY <1>5, <1>6
  <2>2. tree' = tree /\ Goes(s, Back(p, 0))
    BY <1>6, GoCases
  <2>3. CopyState(b, tree', c, f, M, Others(s, b))
    <3> DEFINE R == Others(s, b)
    <3>1. Waiting(b, g) \cup R = R
      BY <2>1
    <3> HIDE DEF R
    <3> QED BY <1>1, <2>2, <3>1 DEF R
  <2> QED BY <2>2, <2>3, CopyBack
<1>7. ASSUME NEW e \in g.todo, Going(s, Into(p, Later(g, e), Child(g, e)))
      PROVE  Copying(b, tree', sh'[s])
  <2> DEFINE h == Later(g, e)
             d == Child(g, e)
             n == e.name
             y == Head(b[i][n])
             q == <<i, n>>
  <2>1. tree' = tree /\ Goes(s, Into(p, h, d))
    BY <1>7, GoCases
  <2>2. PICK m \in Names : \E k \in DOMAIN b[i][m] : e = [name |-> m, nth |-> k, type |-> b[i][m][k].type]
    BY <1>3, ListingIs
  <2>0. PICK k \in DOMAIN b[i][m] : e = [name |-> m, nth |-> k, type |-> b[i][m][k].type]
    BY <2>2
  <2>3. n = m /\ n \in Names /\ Holds(b, i, n)
    <3>1. DOMAIN <<>> = {}
      OBVIOUS
    <3> QED BY <2>0, <3>1 DEF Holds
  <2>4. b[i][n] = <<y>> /\ y \in EntryType
    <3> HIDE DEF n
    <3> QED BY <1>4, <2>3, OrderlyEntry
  <2>5. e.type = y.type /\ e = [name |-> n, nth |-> 1, type |-> y.type] /\ y.type \in {"reg", "dir"}
    <3>1. DOMAIN <<y>> = {1} /\ <<y>>[1] = y
      OBVIOUS
    <3> HIDE DEF y
    <3>2. k = 1 /\ b[i][m][k] = y
      BY <2>0, <2>3, <2>4, <3>1
    <3> QED BY <2>0, <2>3, <2>4, <3>2 DEF EntryType
  <2> HIDE DEF i
  <2>6. /\ h \in CopyFrames /\ h.op = "copy" /\ h.at = "each" /\ h.todo = g.todo \ {e}
        /\ h.sd = g.sd /\ h.sn = g.sn /\ h.dd = g.dd /\ h.dn = g.dn /\ h.src = i /\ h.dst = M[i]
    BY <1>2, <1>3 DEF Later, CopyFrames
  <2>7. /\ Source(h) = Source(g) /\ Target(h) = Target(g) /\ Origin(b, h) = Origin(b, g) /\ Made(h)
        /\ Left(h) = {x.name : x \in g.todo \ {e}} /\ Waiting(b, h) = {i} \X Left(h)
    <3> HIDE DEF h
    <3>1. Origin(b, h) = Origin(b, g) /\ Made(h) /\ Left(h) = {x.name : x \in g.todo \ {e}}
      BY <2>6 DEF Origin, Made, Left
    <3>2. Source(h) = Source(g) /\ Target(h) = Target(g)
      BY <2>6 DEF Source, Target
    <3> QED BY <3>1, <3>2 DEF Waiting, i
  <2>8. /\ d \in FrameType /\ d.op = (IF y.type = "dir" THEN "copy" ELSE "file") /\ ~Made(d)
        /\ d.sd = i /\ d.sn = n /\ d.dd = M[i] /\ d.dn = n /\ (d.op = "file" => d.at = "read")
    <3>1. g.src \in Inodes /\ g.dst \in Inodes /\ n \in Names /\ None \in Inodes
      BY <1>2, <2>3 DEF CopyFrames, Inodes
    <3> HIDE DEF n, y
    <3>2. CASE y.type = "dir"
      <4>1. d = CopyFrame(i, n, M[i], n)
        BY <1>3, <2>5, <3>2 DEF Child, n
      <4>2. CopyFrame(i, n, M[i], n) \in CopyFrames
        BY <1>3, <3>1 DEF CopyFrame, CopyFrames
      <4> QED BY <3>2, <4>1, <4>2 DEF CopyFrame, Made, FrameType
    <3>3. CASE y.type # "dir"
      <4>1. d = FileFrame(i, n, M[i], n)
        BY <1>3, <2>5, <3>3 DEF Child, n
      <4>2. FileFrame(i, n, M[i], n) \in FileFrames
        BY <1>3, <3>1, NoData DEF FileFrame, FileFrames
      <4> QED BY <3>3, <4>1, <4>2 DEF FileFrame, Made, FrameType
    <3> QED BY <3>2, <3>3
  <2> HIDE DEF h, d
  <2>9. Source(d) = q /\ Target(d) = <<M[i], n>> /\ Origin(b, d) = y /\ Waiting(b, d) = {q}
    <3>1. Source(d) = q /\ Target(d) = <<M[i], n>> /\ Origin(b, d) = y
      BY <2>8 DEF Source, Target, Origin
    <3> QED BY <2>8, <3>1 DEF Waiting
  <2>10. q \in Places(M, c, f) /\ Place(M, c, f, q) = <<M[i], n>>
    <3>1. q # <<c, f.from>> /\ q[1] = i /\ q[2] = n
      BY <1>4 DEF i
    <3>2. q \in (DOMAIN M) \X Names
      BY <1>3, <2>3
    <3> HIDE DEF q, n
    <3> QED BY <3>1, <3>2 DEF Places, Place
  <2>11. Placed(b, c, f, M, d)
    <3> HIDE DEF q, y, n
    <3> QED BY <2>3, <2>5, <2>8, <2>9, <2>10 DEF Placed
  <2>12. Placed(b, c, f, M, h)
    BY <1>1, <1>3, <2>6, <2>7 DEF Placed, i
  <2>13. n \notin Left(h)
    <3> SUFFICES ASSUME NEW x \in g.todo, x # e, x.name = n PROVE FALSE
      BY <2>7
    <3>0. PICK l \in Names : \E j \in DOMAIN b[i][l] : x = [name |-> l, nth |-> j, type |-> b[i][l][j].type]
      BY <1>3, ListingIs
    <3>1. PICK j \in DOMAIN b[i][l] : x = [name |-> l, nth |-> j, type |-> b[i][l][j].type]
      BY <3>0
    <3>2. l = n
      BY <3>1
    <3>3. DOMAIN <<y>> = {1} /\ <<y>>[1] = y
      OBVIOUS
    <3> HIDE DEF y, n
    <3>4. j = 1 /\ b[i][l][j] = y
      BY <2>4, <3>1, <3>2, <3>3
    <3> QED BY <2>5, <3>1, <3>2, <3>4
  <2>14. Left(g) = Left(h) \cup {n}
    BY <1>5, <2>7
  <2>15. Waiting(b, d) \cup Waiting(b, h) = Waiting(b, g) /\ Waiting(b, d) \cap Waiting(b, h) = {}
    <3> DEFINE L == Left(h)
    <3>1. Waiting(b, h) = {i} \X L /\ Waiting(b, g) = {i} \X (L \cup {n}) /\ Waiting(b, d) = {q} /\ n \notin L
      BY <1>5, <2>7, <2>9, <2>13, <2>14
    <3> HIDE DEF L, n
    <3>2. {q} \cup ({i} \X L) = {i} \X (L \cup {n})
      OBVIOUS
    <3>3. q \notin {i} \X L
      BY <3>1
    <3> QED BY <3>1, <3>2, <3>3
  <2>16. h \in FrameType /\ h.op = g.op
    BY <1>2, <2>6 DEF FrameType
  <2> HIDE DEF q, y, n
  <2> QED BY <2>1, <2>8, <2>11, <2>12, <2>15, <2>16, CopyInto
<1> QED BY <1>6, <1>7 DEF CopyEach

-----------------------------------------------------------------------------
(* cp or mv has not changed anything yet.                                  *)
Ready(b, t, p) == t = b /\ Len(p.stack) = 1 /\ Orderly(b) /\ p.cwd \in Dirs(b)

(* While p runs cp or mv and nobody else has changed the tree b that it    *)
(* began with.                                                             *)
CopyInv(b, t, p) ==
  (p.stack # <<>> /\ Base(p).op \in {"cp", "mv"} /\ b # None) =>
    LET f == Base(p)
        e == Head(b[p.cwd][f.from])
    IN  /\ f.at \in {"source", "dest", "kind"} => Ready(b, t, p)
        /\ f.at \in {"dest", "kind"} => Holds(b, p.cwd, f.from) /\ f.src = e.id
        /\ (f.op = "mv" /\ f.at \in {"kind", "copied", "delete"}) => ~Holds(b, p.cwd, f.to)
        /\ (f.op = "mv" /\ f.at \in {"copied", "delete"}) => f.dir = (e.type = "dir")
        /\ (f.at \in {"copied", "delete"} /\ ~Holds(b, p.cwd, f.to)) => Copying(b, t, p)
        /\ f.at = "delete" => Len(p.stack) = 1

(* The names a base frame has been given, which no step changes.           *)
LEMMA StateSame ==
  ASSUME NEW b, NEW t, NEW c, NEW f, NEW g, NEW M, NEW A, CopyState(b, t, c, f, M, A),
         g.from = f.from, g.to = f.to
  PROVE  CopyState(b, t, c, g, M, A)
<1>1. Job(b, c, g)
  BY DEF CopyState, Job
<1>2. Places(M, c, g) = Places(M, c, f) /\ \A q : Place(M, c, g, q) = Place(M, c, f, q)
  BY DEF Places, Place
<1> QED BY <1>1, <1>2 DEF CopyState

LEMMA NotEmpty ==
  ASSUME NEW p \in ShellType, Len(p.stack) = 1
  PROVE  p.stack # <<>>
OBVIOUS

(* A shell that is alone with its command.                                 *)
LEMMA BaseAt ==
  ASSUME NEW p \in ShellType, Len(p.stack) = 1, NEW g \in FrameType, g.op = Head(p.stack).op
  PROVE  /\ Base(p) = Head(p.stack)
         /\ At(p, g).cwd = p.cwd /\ Len(At(p, g).stack) = 1 /\ Base(At(p, g)) = g
<1>1. p.stack # <<>>
  OBVIOUS
<1>2. At(p, g).cwd = p.cwd /\ Len(At(p, g).stack) = 1 /\ At(p, g).stack[1] = g
  BY <1>1, AtStack
<1>3. Head(p.stack) = p.stack[1]
  BY <1>1, StackIs
<1> QED BY <1>2, <1>3 DEF Base

LEMMA BaseInto ==
  ASSUME NEW p \in ShellType, Len(p.stack) = 1, NEW f \in FrameType, f.op = Head(p.stack).op,
         NEW g \in FrameType
  PROVE  LET x == Into(p, f, g)
         IN  x \in ShellType /\ x.cwd = p.cwd /\ Len(x.stack) = 2 /\ x.stack[1] = g /\ x.stack[2] = f
<1>1. p.stack # <<>>
  OBVIOUS
<1>2. LET x == Into(p, f, g)
      IN  /\ x \in ShellType /\ x.cwd = p.cwd
          /\ Len(x.stack) = Len(p.stack) + 1 /\ x.stack[1] = g /\ x.stack[2] = f
          /\ \A k \in 2 .. Len(p.stack) : x.stack[k + 1] = p.stack[k]
          /\ x.stack # <<>> /\ Base(x).op = Base(p).op
          /\ Len(p.stack) > 1 => Base(x) = Base(p)
  BY <1>1, IntoStack, ZenonT(30)
<1>3. Len(p.stack) + 1 = 2
  OBVIOUS
<1> QED BY <1>2, <1>3

(* The copy that cp or mv asks for.                                        *)
LEMMA CopyStarts ==
  ASSUME TypesOK, NEW s \in Shells, NEW b, Ready(b, tree, sh[s]), b = tree,
         NEW g \in FrameType, g.op = Top(s).op, g.from \in Names, g.to \in Names,
         Holds(b, sh[s].cwd, g.from), ~Holds(b, sh[s].cwd, g.to),
         NEW dir \in BOOLEAN, dir = (Head(b[sh[s].cwd][g.from]).type = "dir"),
         NEW f, f.from = g.from, f.to = g.to
  PROVE  Copying(b, tree, Into(sh[s], g, CopyOf(sh[s], f, dir)))
<1> DEFINE p == sh[s]
           c == p.cwd
           e == CopyOf(p, f, dir)
           x == Into(p, g, e)
           q == <<c, g.from>>
           y == Head(b[c][g.from])
<1>1. p \in ShellType /\ Len(p.stack) = 1 /\ p.stack # <<>> /\ StoreInv /\ Orderly(b) /\ c \in Dirs(b)
      /\ c \in Ids
  <2>1. p \in ShellType /\ Len(p.stack) = 1 /\ StoreInv /\ Orderly(b) /\ c \in Dirs(b)
    BY DEF TypesOK, Ready
  <2>2. c \in Ids
    BY <2>1 DEF ShellType
  <2>3. p.stack # <<>>
    BY <2>1, NotEmpty
  <2> HIDE DEF p
  <2> QED BY <2>1, <2>2, <2>3 DEF c
<1>2. g.op = Head(p.stack).op
  BY DEF Top
<1>3. e \in FrameType /\ e.op \in Called
  BY <1>1, CopyOfType
<1>4. /\ e.op = (IF dir THEN "copy" ELSE "file") /\ ~Made(e)
      /\ e.sd = c /\ e.sn = g.from /\ e.dd = c /\ e.dn = g.to /\ (e.op = "file" => e.at = "read")
  BY DEF CopyOf, CopyFrame, FileFrame, Made
<1> HIDE DEF e
<1>5. x \in ShellType /\ x.cwd = c /\ Len(x.stack) = 2 /\ x.stack[1] = e /\ x.stack[2] = g
  BY <1>1, <1>2, <1>3, BaseInto
<1> HIDE DEF x
<1>6. Base(x) = g /\ Inners(x) = {1}
  BY <1>5 DEF Base, Inners
<1>7. Source(e) = q /\ Target(e) = <<c, g.to>> /\ Origin(b, e) = y
  BY <1>4 DEF Source, Target, Origin
<1>8. Waiting(b, e) = {q}
  BY <1>4, <1>7 DEF Waiting
<1>9. q \in Places(<<>>, c, g) /\ Place(<<>>, c, g, q) = <<c, g.to>>
  BY DEF Places, Place
<1>10. y \in EntryType
  <2> DEFINE n == g.from
  <2>1. n \in Names /\ Holds(b, c, n)
    OBVIOUS
  <2> HIDE DEF n
  <2>2. Head(b[c][n]) \in EntryType
    BY <1>1, <2>1, OrderlyEntry
  <2> QED BY <2>2 DEF n
<1>11. Placed(b, c, g, <<>>, e)
  <2>1. y.type # "dir" => y.type = "reg"
    BY <1>10 DEF EntryType
  <2> HIDE DEF y, q
  <2>2. e.op = "copy" => y.type = "dir"
    BY <1>4 DEF y
  <2>3. e.op = "file" => y.type = "reg" /\ e.at = "read"
    BY <1>4, <2>1 DEF y
  <2> QED BY <1>4, <1>7, <1>9, <2>2, <2>3 DEF Placed
<1>12. Awaited(b, x, Inners(x)) = {q}
  BY <1>5, <1>6, <1>8 DEF Awaited
<1>13. Framed(b, x, c, g, <<>>, Inners(x))
  BY <1>5, <1>6, <1>11 DEF Framed
<1>14. Job(b, c, g)
  <2>1. c \notin Below(b, c, g.from)
    BY <1>1, NotBelow DEF Orderly
  <2> QED BY <1>1, <2>1 DEF Job
<1>15. CopyState(b, tree, c, g, <<>>, {q})
  BY <1>14, CopyBegins
<1>16. Copying(b, tree, x)
  <2> HIDE DEF p, c, q
  <2> QED BY <1>5, <1>6, <1>12, <1>13, <1>15 DEF Copying
<1> QED BY <1>16 DEF x, e

-----------------------------------------------------------------------------
LEMMA GoesOnce ==
  ASSUME TypesOK, NEW s \in Shells, NEW x, NEW y, Goes(s, x), Goes(s, y)
  PROVE  x = y
<1>1. sh'[s] = x /\ sh'[s] = y
  BY DEF Goes, TypesOK
<1> QED BY <1>1

LEMMA BackEnds ==
  ASSUME NEW p \in ShellType, Len(p.stack) = 1, NEW r \in Int
  PROVE  Back(p, r).stack = <<>>
<1>1. p.stack # <<>> /\ ~(Len(p.stack) > 1)
  BY NotEmpty
<1> QED BY <1>1, BackStack

(* Where a name leads to, and whether that is a directory.                 *)
LEMMA NamedOne ==
  ASSUME StoreInv, NEW d \in Dirs(tree), NEW n \in Names
  PROVE  /\ InodeNamed(d, n) = None <=> ~Holds(tree, d, n)
         /\ Holds(tree, d, n) => InodeNamed(d, n) = Head(tree[d][n]).id
<1>1. ASSUME Holds(tree, d, n) PROVE Head(tree[d][n]).id # None /\ InodeNamed(d, n) = Head(tree[d][n]).id
  <2>1. Head(tree[d][n]).id \in Ids
    BY <1>1, FoundIs
  <2> QED BY <1>1, <2>1, ShellAssumption DEF InodeNamed
<1>2. ASSUME ~Holds(tree, d, n) PROVE InodeNamed(d, n) = None
  BY <1>2 DEF InodeNamed
<1> QED BY <1>1, <1>2

LEMMA KindIs ==
  ASSUME StoreInv, Orderly(tree), NEW d \in Dirs(tree), d \in Ids, NEW n \in Names, Holds(tree, d, n)
  PROVE  ListCode(tree, Head(tree[d][n]).id) = 0 <=> Head(tree[d][n]).type = "dir"
<1> DEFINE e == Head(tree[d][n])
<1>1. e.type = "dir" => e.id \in Dirs(tree)
  BY OrderlyEntry
<1>2. e.id \in Dirs(tree) => e.id \in Named(tree, d, n)
  BY FoundIs
<1>3. Named(tree, d, n) = IF e.type = "dir" THEN {e.id} ELSE {}
  BY OrderlyEntry
<1> HIDE DEF e
<1>4. e.id \in Dirs(tree) <=> e.type = "dir"
  BY <1>1, <1>2, <1>3
<1>5. 0 # -1
  OBVIOUS
<1> QED BY <1>4, <1>5 DEF ListCode, e

(* Looking at what a name stands for, a command learns what it is.         *)
LEMMA LookTells ==
  ASSUME NEW s \in Shells, NEW code, NEW good, NEW bad, Looking(s, code, good, bad), began'[s] # None
  PROVE  tree' = tree /\ Goes(s, IF code = 0 THEN good ELSE bad)
<1>1. tree' = tree /\ ((code = 0 /\ Goes(s, good)) \/ Goes(s, bad))
  BY LookCases
<1>2. code = 0 => Goes(s, good)
  BY LookEnds
<1> QED BY <1>1, <1>2

LEMMA FindTells ==
  ASSUME StoreInv, NEW s \in Shells, NEW d \in Dirs(tree), NEW n \in Names, NEW found, NEW lost,
         Finding(s, d, n, found, lost), began'[s] # None
  PROVE  tree' = tree /\ Goes(s, IF Holds(tree, d, n) THEN found ELSE lost)
<1>1. tree' = tree
  BY FindCases
<1>2. Goes(s, IF InodeNamed(d, n) = None THEN lost ELSE found)
  BY FindEnds
<1> QED BY <1>1, <1>2, NamedOne

-----------------------------------------------------------------------------
(* A step of cp itself.                                                    *)
LEMMA CpGoes ==
  ASSUME TypesOK, NEW s \in Shells, Len(sh[s].stack) = 1, CpStep(s),
         NEW b, b # None, began'[s] # None, CopyInv(b, tree, sh[s]),
         NEW x, Goes(s, x), x.stack # <<>>
  PROVE  CopyInv(b, tree', x)
<1> DEFINE p == sh[s]
           f == Top(s)
           c == p.cwd
           e == Head(b[c][f.from])
<1>1. /\ StoreInv /\ p \in ShellType /\ p.stack # <<>> /\ f = Head(p.stack) /\ f \in FrameType
      /\ f = Base(p) /\ f.op = "cp" /\ c \in Ids
  <2>1. StoreInv /\ p \in ShellType /\ p.stack # <<>>
    BY NotEmpty DEF TypesOK
  <2>2. f = Head(p.stack) /\ f.op = "cp"
    BY DEF Top, CpStep
  <2> HIDE DEF p, f
  <2> QED BY <2>1, <2>2, StackIs, BaseAt DEF ShellType, c, p
<1>2. f \in CpFrames /\ f.from \in Names /\ f.to \in Names
  <2>1. f \in CpFrames
    BY <1>1, FrameKinds
  <2> QED BY <2>1 DEF CpFrames
<1>3. /\ f.at \in {"source", "dest", "kind"} => Ready(b, tree, p)
      /\ f.at \in {"dest", "kind"} => Holds(b, c, f.from) /\ f.src = e.id
  BY <1>1 DEF CopyInv
<1> HIDE DEF p, f
<1>4. ASSUME NEW r \in Int, Goes(s, Back(p, r)) PROVE FALSE
  <2>1. x = Back(p, r)
    BY <1>4, GoesOnce
  <2> QED BY <1>1, <2>1, BackEnds DEF p
<1>5. CASE /\ f.at = "source"
           /\ Finding(s, c, f.from,
                      IF InodeNamed(c, f.from) = Bin THEN Back(p, -1)
                      ELSE At(p, [f EXCEPT !.at = "kind", !.src = InodeNamed(c, f.from)]),
                      Back(p, -1))
  <2> DEFINE i == InodeNamed(c, f.from)
             g == [f EXCEPT !.at = "kind", !.src = i]
             found == IF i = Bin THEN Back(p, -1) ELSE At(p, g)
  <2>1. tree = b /\ Len(p.stack) = 1 /\ Orderly(b) /\ c \in Dirs(b)
    BY <1>3, <1>5 DEF Ready
  <2>2. tree' = tree /\ Goes(s, IF Holds(tree, c, f.from) THEN found ELSE Back(p, -1))
    <3>1. Finding(s, c, f.from, found, Back(p, -1))
      BY <1>5
    <3> HIDE DEF found, c
    <3> QED BY <1>1, <1>2, <2>1, <3>1, FindTells
  <2>3. Holds(tree, c, f.from) /\ Goes(s, At(p, g))
    BY <1>4, <2>2
  <2>4. i = Head(tree[c][f.from]).id /\ i \in Inodes
    <3> HIDE DEF c
    <3> QED BY <1>1, <1>2, <2>1, <2>3, NamedOne, InodeNamedType
  <2> HIDE DEF i
  <2>5. g \in CpFrames /\ g.op = "cp" /\ g.at = "kind" /\ g.src = i /\ g.from = f.from
    BY <1>1, <1>2, <2>4 DEF CpFrames
  <2> HIDE DEF g
  <2>6. g \in FrameType /\ g.op = Head(p.stack).op
    BY <1>1, <2>5 DEF FrameType
  <2>7. x = At(p, g)
    BY <2>3, GoesOnce
  <2>8. x.cwd = c /\ Len(x.stack) = 1 /\ Base(x) = g
    BY <1>1, <2>1, <2>6, <2>7, BaseAt
  <2>9. Holds(b, c, g.from) /\ g.src = Head(b[c][g.from]).id
    BY <2>1, <2>3, <2>4, <2>5
  <2>10. Ready(b, tree', x)
    BY <2>1, <2>2, <2>8 DEF Ready
  <2> QED BY <2>5, <2>8, <2>9, <2>10 DEF CopyInv
<1>6. CASE /\ f.at = "kind"
           /\ Looking(s, ListCode(tree, f.src),
                      IF f.rec THEN Into(p, [f EXCEPT !.at = "copied"], CopyOf(p, f, TRUE)) ELSE Back(p, -1),
                      Into(p, [f EXCEPT !.at = "copied"], CopyOf(p, f, FALSE)))
  <2> DEFINE g == [f EXCEPT !.at = "copied"]
             dir == e.type = "dir"
  <2>1. tree = b /\ Len(p.stack) = 1 /\ Orderly(b) /\ c \in Dirs(b) /\ Holds(b, c, f.from) /\ f.src = e.id
    BY <1>3, <1>6 DEF Ready
  <2>2. ListCode(tree, f.src) = 0 <=> dir
    <3> DEFINE n == f.from
    <3>1. n \in Names /\ Holds(tree, c, n) /\ c \in Dirs(tree) /\ Orderly(tree)
      BY <1>2, <2>1
    <3> HIDE DEF c, n
    <3>2. ListCode(tree, Head(tree[c][n]).id) = 0 <=> Head(tree[c][n]).type = "dir"
      BY <1>1, <3>1, KindIs
    <3> QED BY <2>1, <3>2 DEF n
  <2>3. tree' = tree /\ Goes(s, IF ListCode(tree, f.src) = 0
                               THEN IF f.rec THEN Into(p, g, CopyOf(p, f, TRUE)) ELSE Back(p, -1)
                               ELSE Into(p, g, CopyOf(p, f, FALSE)))
    <3> DEFINE good == IF f.rec THEN Into(p, g, CopyOf(p, f, TRUE)) ELSE Back(p, -1)
               bad == Into(p, g, CopyOf(p, f, FALSE))
    <3>1. Looking(s, ListCode(tree, f.src), good, bad)
      BY <1>6
    <3> HIDE DEF good, bad
    <3>2. tree' = tree /\ Goes(s, IF ListCode(tree, f.src) = 0 THEN good ELSE bad)
      BY <3>1, LookTells
    <3> QED BY <3>2 DEF good, bad
  <2>4. dir \in BOOLEAN /\ Goes(s, Into(p, g, CopyOf(p, f, dir)))
    <3>1. CASE dir
      <4>1. dir = TRUE
        BY <3>1
      <4> HIDE DEF g, dir
      <4>2. Goes(s, IF f.rec THEN Into(p, g, CopyOf(p, f, TRUE)) ELSE Back(p, -1))
        BY <2>2, <2>3, <3>1
      <4>3. -1 \in Int
        OBVIOUS
      <4>4. ~Goes(s, Back(p, -1))
        BY <1>4, <4>3
      <4> QED BY <4>1, <4>2, <4>4
    <3>2. CASE ~dir
      <4>1. dir = FALSE
        BY <3>2
      <4> HIDE DEF g, dir
      <4> QED BY <2>2, <2>3, <4>1
    <3> QED BY <3>1, <3>2
  <2> HIDE DEF dir
  <2>5. g \in CpFrames /\ g.op = "cp" /\ g.at = "copied" /\ g.from = f.from /\ g.to = f.to
    BY <1>1, <1>2 DEF CpFrames
  <2> HIDE DEF g
  <2>6. g \in FrameType /\ g.op = Head(p.stack).op /\ g.from \in Names /\ g.to \in Names
    BY <1>1, <1>2, <2>5 DEF FrameType
  <2>7. CopyOf(p, f, dir) \in FrameType
    BY <1>1, <1>2, <2>4, CopyOfType DEF c
  <2>8. x = Into(p, g, CopyOf(p, f, dir))
    BY <2>4, GoesOnce
  <2>9. x.cwd = c /\ Len(x.stack) = 2 /\ x.stack[2] = g
    BY <1>1, <2>1, <2>6, <2>7, <2>8, BaseInto DEF c
  <2>10. Base(x) = g
    BY <2>9 DEF Base
  <2>11. ASSUME ~Holds(b, c, g.to) PROVE Copying(b, tree', x)
    <3>1. Ready(b, tree, p) /\ g.op = Top(s).op /\ dir = (Head(b[c][g.from]).type = "dir")
      BY <1>1, <2>1, <2>5 DEF Ready, f, dir
    <3>2. Copying(b, tree, Into(p, g, CopyOf(p, f, dir)))
      BY <2>1, <2>4, <2>5, <2>6, <2>11, <3>1, CopyStarts DEF p, c
    <3> QED BY <2>3, <2>8, <3>2
  <2> QED BY <2>5, <2>9, <2>10, <2>11 DEF CopyInv
<1>7. CASE f.at = "copied" /\ Going(s, Back(p, p.result))
  <2>1. Goes(s, Back(p, p.result)) /\ p.result \in Int
    BY <1>1, <1>7, GoCases DEF ShellType
  <2> QED BY <1>4, <2>1
<1> QED BY <1>5, <1>6, <1>7 DEF CpStep, p, f, c

-----------------------------------------------------------------------------
(* The base frame is another one with the same names.                      *)
LEMMA CopyingSame ==
  ASSUME NEW b, NEW t, NEW p \in ShellType, Len(p.stack) = 1, Copying(b, t, p),
         NEW x \in ShellType, Len(x.stack) = 1, x.cwd = p.cwd,
         Base(x).from = Base(p).from, Base(x).to = Base(p).to
  PROVE  Copying(b, t, x)
<1>1. PICK M : /\ CopyState(b, t, p.cwd, Base(p), M, Awaited(b, p, Inners(p)))
               /\ Framed(b, p, p.cwd, Base(p), M, Inners(p))
  BY DEF Copying
<1>2. Inners(p) = {} /\ Inners(x) = {}
  BY DEF Inners
<1>3. Awaited(b, p, Inners(p)) = {} /\ Awaited(b, x, Inners(x)) = {}
  BY <1>2 DEF Awaited
<1>4. CopyState(b, t, p.cwd, Base(x), M, {})
  BY <1>1, <1>3, StateSame
<1>5. Framed(b, x, p.cwd, Base(x), M, Inners(x))
  BY <1>2 DEF Framed
<1> QED BY <1>3, <1>4, <1>5 DEF Copying

(* A step of mv itself.                                                    *)
LEMMA MvGoes ==
  ASSUME TypesOK, NEW s \in Shells, Len(sh[s].stack) = 1, MvStep(s),
         NEW b, b # None, began'[s] # None, CopyInv(b, tree, sh[s]),
         NEW x, Goes(s, x), x.stack # <<>>
  PROVE  CopyInv(b, tree', x)
<1> DEFINE p == sh[s]
           f == Top(s)
           c == p.cwd
           e == Head(b[c][f.from])
<1>1. /\ StoreInv /\ p \in ShellType /\ p.stack # <<>> /\ f = Head(p.stack) /\ f \in FrameType
      /\ f = Base(p) /\ f.op = "mv" /\ c \in Ids
  <2>1. StoreInv /\ p \in ShellType /\ p.stack # <<>>
    BY NotEmpty DEF TypesOK
  <2>2. f = Head(p.stack) /\ f.op = "mv"
    BY DEF Top, MvStep
  <2> HIDE DEF p, f
  <2> QED BY <2>1, <2>2, StackIs, BaseAt DEF ShellType, c, p
<1>2. f \in MvFrames /\ f.from \in Names /\ f.to \in Names
  <2>1. f \in MvFrames
    BY <1>1, FrameKinds
  <2> QED BY <2>1 DEF MvFrames
<1>3. /\ f.at \in {"source", "dest", "kind"} => Ready(b, tree, p)
      /\ f.at \in {"dest", "kind"} => Holds(b, c, f.from) /\ f.src = e.id
      /\ f.at \in {"kind", "copied", "delete"} => ~Holds(b, c, f.to)
      /\ f.at \in {"copied", "delete"} => f.dir = (e.type = "dir") /\ Copying(b, tree, p)
  BY <1>1 DEF CopyInv
<1> HIDE DEF p, f
<1>4. ASSUME NEW r \in Int, Goes(s, Back(p, r)) PROVE FALSE
  <2>1. x = Back(p, r)
    BY <1>4, GoesOnce
  <2> QED BY <1>1, <2>1, BackEnds DEF p
<1>0. -1 \in Int /\ 0 \in Int /\ Len(p.stack) = 1
  BY DEF p
<1>5. ASSUME NEW g \in MvFrames, g.from = f.from, g.to = f.to, Goes(s, At(p, g))
      PROVE  /\ x.cwd = c /\ Len(x.stack) = 1 /\ Base(x) = g /\ g.op = "mv"
             /\ x = At(p, g) /\ x \in ShellType
  <2>1. g \in FrameType /\ g.op = "mv" /\ g.op = Head(p.stack).op
    BY <1>1 DEF FrameType, MvFrames
  <2>2. x = At(p, g)
    BY <1>5, GoesOnce
  <2>3. x \in ShellType
    BY <1>1, <2>1, <2>2, AtStack
  <2> QED BY <1>0, <1>1, <2>1, <2>2, <2>3, BaseAt DEF c
<1>6. CASE /\ f.at = "source"
           /\ Finding(s, c, f.from,
                      At(p, [f EXCEPT !.at = "dest", !.src = InodeNamed(c, f.from)]), Back(p, -1))
  <2> DEFINE i == InodeNamed(c, f.from)
             g == [f EXCEPT !.at = "dest", !.src = i]
             found == At(p, g)
  <2>1. tree = b /\ Orderly(b) /\ c \in Dirs(b)
    BY <1>3, <1>6 DEF Ready, c
  <2>2. tree' = tree /\ Goes(s, IF Holds(tree, c, f.from) THEN found ELSE Back(p, -1))
    <3>1. Finding(s, c, f.from, found, Back(p, -1))
      BY <1>6
    <3> HIDE DEF found, c
    <3> QED BY <1>1, <1>2, <2>1, <3>1, FindTells
  <2>3. Holds(tree, c, f.from) /\ Goes(s, At(p, g))
    BY <1>0, <1>4, <2>2
  <2>4. i = Head(tree[c][f.from]).id /\ i \in Inodes
    <3> HIDE DEF c
    <3> QED BY <1>1, <1>2, <2>1, <2>3, NamedOne, InodeNamedType
  <2> HIDE DEF i
  <2>5. g \in MvFrames /\ g.at = "dest" /\ g.src = i /\ g.from = f.from /\ g.to = f.to
    BY <1>2, <2>4 DEF MvFrames
  <2> HIDE DEF g
  <2>6. x.cwd = c /\ Len(x.stack) = 1 /\ Base(x) = g /\ g.op = "mv"
    BY <1>5, <2>3, <2>5
  <2>7. Holds(b, c, g.from) /\ g.src = Head(b[c][g.from]).id
    BY <2>1, <2>3, <2>4, <2>5
  <2>8. Ready(b, tree', x)
    BY <2>1, <2>2, <2>6 DEF Ready
  <2> QED BY <2>5, <2>6, <2>7, <2>8 DEF CopyInv
<1>7. CASE /\ f.at = "dest"
           /\ Finding(s, c, f.to, Back(p, -1),
                      IF f.src = Bin THEN Back(p, -1) ELSE At(p, [f EXCEPT !.at = "kind"]))
  <2> DEFINE g == [f EXCEPT !.at = "kind"]
             lost == IF f.src = Bin THEN Back(p, -1) ELSE At(p, g)
  <2>1. tree = b /\ Orderly(b) /\ c \in Dirs(b) /\ Holds(b, c, f.from) /\ f.src = e.id
    BY <1>3, <1>7 DEF Ready, c
  <2>2. tree' = tree /\ Goes(s, IF Holds(tree, c, f.to) THEN Back(p, -1) ELSE lost)
    <3>1. Finding(s, c, f.to, Back(p, -1), lost)
      BY <1>7
    <3> HIDE DEF lost, c
    <3> QED BY <1>1, <1>2, <2>1, <3>1, FindTells
  <2>3. ~Holds(tree, c, f.to) /\ Goes(s, At(p, g))
    BY <1>0, <1>4, <2>2
  <2>5. g \in MvFrames /\ g.at = "kind" /\ g.src = f.src /\ g.from = f.from /\ g.to = f.to
    BY <1>2 DEF MvFrames
  <2> HIDE DEF g
  <2>6. x.cwd = c /\ Len(x.stack) = 1 /\ Base(x) = g /\ g.op = "mv"
    BY <1>5, <2>3, <2>5
  <2>7. Holds(b, c, g.from) /\ g.src = Head(b[c][g.from]).id /\ ~Holds(b, c, g.to)
    BY <2>1, <2>3, <2>5
  <2>8. Ready(b, tree', x)
    BY <2>1, <2>2, <2>6 DEF Ready
  <2> QED BY <2>5, <2>6, <2>7, <2>8 DEF CopyInv
<1>8. CASE /\ f.at = "kind"
           /\ Looking(s, ListCode(tree, f.src),
                      Into(p, [f EXCEPT !.at = "copied", !.dir = TRUE], CopyOf(p, f, TRUE)),
                      Into(p, [f EXCEPT !.at = "copied", !.dir = FALSE], CopyOf(p, f, FALSE)))
  <2> DEFINE as(d) == [f EXCEPT !.at = "copied", !.dir = d]
             dir == e.type = "dir"
  <2>1. tree = b /\ Orderly(b) /\ c \in Dirs(b) /\ Holds(b, c, f.from) /\ f.src = e.id
        /\ ~Holds(b, c, f.to) /\ Ready(b, tree, p)
    BY <1>3, <1>8 DEF Ready, c
  <2>2. ListCode(tree, f.src) = 0 <=> dir
    <3> DEFINE n == f.from
    <3>1. n \in Names /\ Holds(tree, c, n) /\ c \in Dirs(tree) /\ Orderly(tree)
      BY <1>2, <2>1
    <3> HIDE DEF c, n
    <3>2. ListCode(tree, Head(tree[c][n]).id) = 0 <=> Head(tree[c][n]).type = "dir"
      BY <1>1, <3>1, KindIs
    <3> QED BY <2>1, <3>2 DEF n
  <2>3. tree' = tree /\ Goes(s, IF ListCode(tree, f.src) = 0
                               THEN Into(p, as(TRUE), CopyOf(p, f, TRUE))
                               ELSE Into(p, as(FALSE), CopyOf(p, f, FALSE)))
    <3> DEFINE good == Into(p, as(TRUE), CopyOf(p, f, TRUE))
               bad == Into(p, as(FALSE), CopyOf(p, f, FALSE))
    <3>1. Looking(s, ListCode(tree, f.src), good, bad)
      BY <1>8
    <3> HIDE DEF good, bad
    <3>2. tree' = tree /\ Goes(s, IF ListCode(tree, f.src) = 0 THEN good ELSE bad)
      BY <3>1, LookTells
    <3> QED BY <3>2 DEF good, bad
  <2>4. dir \in BOOLEAN /\ Goes(s, Into(p, as(dir), CopyOf(p, f, dir)))
    <3>1. CASE dir
      <4>1. dir = TRUE
        BY <3>1
      <4> HIDE DEF as, dir
      <4> QED BY <2>2, <2>3, <4>1
    <3>2. CASE ~dir
      <4>1. dir = FALSE
        BY <3>2
      <4> HIDE DEF as, dir
      <4> QED BY <2>2, <2>3, <4>1
    <3> QED BY <3>1, <3>2
  <2> HIDE DEF dir
  <2> DEFINE g == as(dir)
  <2>5. /\ g \in MvFrames /\ g.op = "mv" /\ g.at = "copied" /\ g.from = f.from /\ g.to = f.to
        /\ g.dir = dir
    BY <1>1, <1>2, <2>4 DEF MvFrames
  <2> HIDE DEF as
  <2>51. Goes(s, Into(p, g, CopyOf(p, f, dir)))
    BY <2>4
  <2> HIDE DEF g
  <2>6. g \in FrameType /\ g.op = Head(p.stack).op /\ g.from \in Names /\ g.to \in Names
    BY <1>1, <1>2, <2>5 DEF FrameType
  <2>7. CopyOf(p, f, dir) \in FrameType
    BY <1>1, <1>2, <2>4, CopyOfType DEF c
  <2>8. x = Into(p, g, CopyOf(p, f, dir))
    BY <2>51, GoesOnce
  <2>9. x.cwd = c /\ Len(x.stack) = 2 /\ x.stack[2] = g
    BY <1>0, <1>1, <2>6, <2>7, <2>8, BaseInto DEF c
  <2>10. Base(x) = g
    BY <2>9 DEF Base
  <2>11. Copying(b, tree', x)
    <3>1. g.op = Top(s).op /\ dir = (Head(b[c][g.from]).type = "dir")
      BY <1>1, <2>5 DEF f, dir
    <3>2. Copying(b, tree, Into(p, g, CopyOf(p, f, dir)))
      BY <2>1, <2>4, <2>5, <2>6, <3>1, CopyStarts DEF p, c
    <3> QED BY <2>3, <2>8, <3>2
  <2> QED BY <2>1, <2>5, <2>9, <2>10, <2>11 DEF CopyInv, dir
<1>9. ASSUME Goes(s, At(p, [f EXCEPT !.at = "done"])) PROVE CopyInv(b, tree', x)
  <2> DEFINE g == [f EXCEPT !.at = "done"]
  <2>1. g \in MvFrames /\ g.at = "done" /\ g.from = f.from /\ g.to = f.to
    BY <1>2 DEF MvFrames
  <2> HIDE DEF g
  <2>2. Base(x) = g
    BY <1>5, <1>9, <2>1 DEF g
  <2> QED BY <2>1, <2>2 DEF CopyInv
<1>10. CASE /\ f.at = "delete"
            /\ Deleting(s, c, f.from, "reg", At(p, [f EXCEPT !.at = "done"]), Back(p, -1))
  <2> DEFINE y == At(p, [f EXCEPT !.at = "done"])
  <2>1. Deleting(s, c, f.from, "reg", y, Back(p, -1))
    BY <1>10
  <2> HIDE DEF y
  <2>2. Goes(s, y) \/ Goes(s, Back(p, -1))
    BY <2>1, CallCases DEF Deleting
  <2> QED BY <1>0, <1>4, <1>9, <2>2 DEF y
<1>11. CASE f.at = "copied" /\ Going(s, MvCopied(p, f))
  <2>1. tree' = tree /\ Goes(s, MvCopied(p, f))
    BY <1>11, GoCases
  <2>2. CASE p.result # 0
    BY <1>0, <1>4, <2>1, <2>2 DEF MvCopied
  <2>3. CASE p.result = 0 /\ f.dir
    <3> DEFINE g == [f EXCEPT !.at = "done"]
               r == RemoveFrame(c, f.from)
    <3>1. g \in MvFrames /\ g.at = "done"
      BY <1>2 DEF MvFrames
    <3>2. r \in FrameType
      BY <1>1, <1>2 DEF RemoveFrame, RemoveFrames, Inodes, FrameType
    <3>3. Goes(s, Into(p, g, r))
      BY <2>1, <2>3 DEF MvCopied
    <3> HIDE DEF g, r
    <3>4. g \in FrameType /\ g.op = Head(p.stack).op
      BY <1>1, <3>1 DEF FrameType, MvFrames
    <3>5. x = Into(p, g, r)
      BY <3>3, GoesOnce
    <3>6. Len(x.stack) = 2 /\ x.stack[2] = g
      BY <1>0, <1>1, <3>2, <3>4, <3>5, BaseInto
    <3>7. Base(x) = g
      BY <3>6 DEF Base
    <3> QED BY <3>1, <3>7 DEF CopyInv
  <2>4. CASE p.result = 0 /\ ~f.dir
    <3> DEFINE g == [f EXCEPT !.at = "delete"]
    <3>1. g \in MvFrames /\ g.at = "delete" /\ g.from = f.from /\ g.to = f.to /\ g.dir = f.dir
      BY <1>2 DEF MvFrames
    <3>2. Goes(s, At(p, g))
      BY <2>1, <2>4 DEF MvCopied
    <3> HIDE DEF g
    <3>3. x.cwd = c /\ Len(x.stack) = 1 /\ Base(x) = g /\ g.op = "mv" /\ x \in ShellType
      BY <1>5, <3>1, <3>2
    <3>4. ~Holds(b, c, f.to) /\ f.dir = (e.type = "dir") /\ Copying(b, tree, p)
      BY <1>3, <1>11
    <3>5. Copying(b, tree', x)
      BY <1>0, <1>1, <2>1, <3>1, <3>3, <3>4, CopyingSame DEF c
    <3> QED BY <3>1, <3>3, <3>4, <3>5 DEF CopyInv
  <2> QED BY <2>2, <2>3, <2>4
<1>12. CASE f.at = "done" /\ Going(s, Back(p, 0))
  BY <1>0, <1>4, <1>12, GoCases
<1> QED BY <1>6, <1>7, <1>8, <1>10, <1>11, <1>12 DEF MvStep, p, f, c

-----------------------------------------------------------------------------
(* A step of a function that cp or mv has called.                          *)
LEMMA CopyGoes ==
  ASSUME TypesOK, Excused, LinesFit, NEW s \in Shells, Busy(s), Step(s), Len(sh[s].stack) > 1,
         NEW b, Copying(b, tree, sh[s]), began'[s] # None
  PROVE  Copying(b, tree', sh'[s])
<1> DEFINE p == sh[s]
<1>1. PICK M : /\ CopyState(b, tree, p.cwd, Base(p), M, Awaited(b, p, Inners(p)))
               /\ Framed(b, p, p.cwd, Base(p), M, Inners(p))
  BY DEF Copying
<1>2. Amid(s, b, M)
  BY <1>1 DEF Amid
<1>3. Top(s).op \in {"file", "copy"}
  <2>1. Placed(b, p.cwd, Base(p), M, Top(s))
    BY <1>2, AmidFacts
  <2> QED BY <2>1 DEF Placed
<1>4. CopyFile(s) \/ CopyDir(s) \/ CopyEach(s)
  BY <1>3 DEF Step, Remove, RemoveEach, RmStep, RmrStep, CpStep, MvStep, CdStep
<1> QED BY <1>2, <1>4, FileGoes, DirGoes, EachGoes

(* A step of a shell that runs cp or mv.                                   *)
LEMMA OwnCopies ==
  ASSUME TypesOK, Excused, LinesFit, NEW s \in Shells, Busy(s), Step(s), Inner(sh[s]),
         NEW b, b # None, began'[s] # None, CopyInv(b, tree, sh[s]),
         NEW x, Goes(s, x), Follows(s, x)
  PROVE  CopyInv(b, tree', x)
<1> DEFINE p == sh[s]
           m == Len(p.stack)
<1> SUFFICES ASSUME x.stack # <<>>, Base(x).op \in {"cp", "mv"} PROVE CopyInv(b, tree', x)
  BY DEF CopyInv
<1>1. p \in ShellType /\ p.stack # <<>> /\ Base(p).op = Base(x).op /\ sh'[s] = x
  BY DEF TypesOK, Busy, Follows, Goes
<1>2. m \in Nat \ {0} /\ Top(s) = p.stack[1]
  BY <1>1, StackIs DEF Top
<1>3. CASE m = 1
  <2>1. Top(s).op \in {"cp", "mv"}
    BY <1>1, <1>2, <1>3 DEF Base
  <2>2. CpStep(s) \/ MvStep(s)
    BY <2>1 DEF Step, CopyFile, CopyDir, CopyEach, Remove, RemoveEach, RmStep, RmrStep, CdStep
  <2> QED BY <1>3, <2>2, CpGoes, MvGoes
<1>4. CASE m > 1
  <2> DEFINE f == Base(p)
             c == p.cwd
  <2>1. x.cwd = c /\ Base(x) = f
    BY <1>4 DEF Follows
  <2>2. /\ f.at \in {"source", "dest", "kind"} => Ready(b, tree, p)
        /\ (f.op = "mv" /\ f.at \in {"kind", "copied", "delete"}) => ~Holds(b, c, f.to)
        /\ (f.op = "mv" /\ f.at \in {"copied", "delete"}) => f.dir = (Head(b[c][f.from]).type = "dir")
        /\ (f.at \in {"copied", "delete"} /\ ~Holds(b, c, f.to)) => Copying(b, tree, p)
        /\ f.at = "delete" => m = 1
    BY <1>1 DEF CopyInv
  <2>3. f.at \notin {"source", "dest", "kind", "delete"}
    <3>0. \A k \in Nat \ {0} : k > 1 => k # 1
      OBVIOUS
    <3>1. m # 1
      BY <1>2, <1>4, <3>0, Zenon
    <3> QED BY <2>2, <3>1 DEF Ready
  <2>4. (f.at = "copied" /\ ~Holds(b, c, f.to)) => Copying(b, tree', x)
    BY <1>1, <1>4, <2>2, CopyGoes
  <2> HIDE DEF f, c
  <2> QED BY <2>1, <2>2, <2>3, <2>4 DEF CopyInv
<1>5. \A k \in Nat \ {0} : k = 1 \/ k > 1
  OBVIOUS
<1> QED BY <1>2, <1>3, <1>4, <1>5, Zenon

-----------------------------------------------------------------------------
(* The inductive invariant.                                                *)
CopiesInv == RemoveInv /\ \A s \in Shells : CopyInv(began[s], tree, sh[s])

LEMMA StartCopies ==
  ASSUME CopiesInv, NEW s \in Shells, Start(s)
  PROVE  \A z \in Shells : CopyInv(began'[z], tree', sh'[z])
<1> DEFINE p == sh[s]
<1>1. PICK line \in Lines[s] :
        /\ line[1] \in {"cd", "rm", "rmr", "cp", "cpr", "mv"}
        /\ Frames(line, p.cwd) # <<>>
        /\ sh' = [sh EXCEPT ![s].stack = Frames(line, p.cwd)]
        /\ began' = [began EXCEPT ![s] =
             IF line[1] \in {"rmr", "cp", "cpr", "mv"} /\ Single(tree) /\ p.cwd \in Dirs(tree)
             THEN tree ELSE None]
        /\ tree' = tree
  BY DEF Start
<1>2. sh \in [Shells -> ShellType] /\ StoreInv /\ p.cwd \in Ids /\ p \in ShellType /\ DOMAIN began = Shells
  BY DEF CopiesInv, RemoveInv, IInv, TypesOK, ShellType
<1> DEFINE st == Frames(line, p.cwd)
           x  == [p EXCEPT !.stack = st]
<1>3. line[1] # "rmr" => Len(st) = 1
  BY <1>1, <1>2, FramesAre
<1>4. line[1] \in {"cp", "cpr", "mv"} => st[1].at = "source"
  BY DEF Frames
<1>5. /\ line[1] = "cd" => st[1].op = "cd"
      /\ (line[1] = "rm" /\ st # <<>>) => st[1].op = "rm"
      /\ (line[1] = "rmr" /\ st # <<>>) => st[2].op = "rmr" /\ Len(st) = 2
  BY DEF Frames
<1>6. sh' = [sh EXCEPT ![s] = x]
  BY <1>1
<1>61. st # <<>>
  BY <1>1
<1> HIDE DEF st
<1>7. x.cwd = p.cwd /\ x.stack = st
  BY <1>2 DEF ShellType
<1> HIDE DEF x
<1>8. sh'[s] = x /\ \A z \in Shells \ {s} : sh'[z] = sh[z]
  BY <1>2, <1>6
<1>9. CopyInv(began'[s], tree, x)
  <2> SUFFICES ASSUME Base(x).op \in {"cp", "mv"}, began'[s] # None PROVE CopyInv(began'[s], tree, x)
    BY DEF CopyInv
  <2>1. line[1] \in {"cp", "cpr", "mv"}
    BY <1>1, <1>3, <1>5, <1>61, <1>7 DEF Base
  <2>2. Len(x.stack) = 1 /\ Base(x).at = "source"
    BY <1>3, <1>4, <1>7, <2>1 DEF Base
  <2>3. began'[s] = tree /\ Single(tree) /\ p.cwd \in Dirs(tree)
    BY <1>1, <1>2
  <2>4. Ready(tree, tree, x)
    BY <1>2, <1>7, <2>2, <2>3, TreeOrderly DEF Ready
  <2> QED BY <2>2, <2>3, <2>4 DEF CopyInv
<1>10. ASSUME NEW z \in Shells, z # s PROVE CopyInv(began'[z], tree', sh'[z])
  <2>1. sh'[z] = sh[z] /\ tree' = tree /\ began'[z] = began[z]
    BY <1>1, <1>8, <1>10
  <2> QED BY <2>1 DEF CopiesInv
<1> QED BY <1>1, <1>8, <1>9, <1>10

(* What another shell, or a shell that is not busy, is left with.          *)
LEMMA CopiesOn ==
  ASSUME CopiesInv, NEW s \in Shells, Histories(s), NEW z \in Shells,
         sh'[z] = sh[z], z # s \/ sh[z].stack = <<>>
  PROVE  CopyInv(began'[z], tree', sh'[z])
<1>1. CASE sh[z].stack = <<>>
  BY <1>1 DEF CopyInv
<1>2. CASE began'[z] = None
  BY <1>2 DEF CopyInv
<1>3. CASE began'[z] # None /\ z # s
  <2>1. tree' = tree /\ began'[z] = began[z]
    BY <1>3 DEF Histories
  <2> QED BY <2>1 DEF CopiesInv
<1> QED BY <1>1, <1>2, <1>3

LEMMA StepCopies ==
  ASSUME CopiesInv, Excused, LinesFit, NEW s \in Shells, Step(s)
  PROVE  \A z \in Shells : CopyInv(began'[z], tree', sh'[z])
<1>1. TypesOK /\ sh \in [Shells -> ShellType] /\ Busy(s) /\ Inner(sh[s])
  BY DEF CopiesInv, RemoveInv, IInv, TypesOK, Step
<1>2. PICK x : Follows(s, x) /\ Goes(s, x)
  BY <1>1, StepMoves DEF Moves
<1>3. sh'[s] = x /\ \A z \in Shells \ {s} : sh'[z] = sh[z]
  BY <1>1, <1>2 DEF Goes
<1>4. Histories(s)
  BY StepEnds
<1>5. CopyInv(began'[s], tree', x)
  <2>1. CASE began'[s] = None
    BY <2>1 DEF CopyInv
  <2>2. CASE began'[s] # None
    <3>1. began'[s] = began[s] /\ CopyInv(began[s], tree, sh[s])
      BY <1>4, <2>2 DEF Histories, CopiesInv
    <3> DEFINE b == began[s]
    <3> HIDE DEF b
    <3>2. CopyInv(b, tree', x)
      BY <1>1, <1>2, <2>2, <3>1, OwnCopies DEF b
    <3> QED BY <3>1, <3>2 DEF b
  <2> QED BY <2>1, <2>2
<1> QED BY <1>3, <1>4, <1>5, CopiesOn

LEMMA CopiesKept ==
  ASSUME CopiesInv, Excused, LinesFit, [ShellNext]_vars
  PROVE  CopiesInv'
<1>1. RemoveInv'
  BY RemoveKept DEF CopiesInv
<1>2. \A z \in Shells : CopyInv(began'[z], tree', sh'[z])
  <2>1. ASSUME NEW s \in Shells, Start(s) PROVE \A z \in Shells : CopyInv(began'[z], tree', sh'[z])
    BY <2>1, StartCopies
  <2>2. ASSUME NEW s \in Shells, Create(s) PROVE \A z \in Shells : CopyInv(began'[z], tree', sh'[z])
    <3>1. sh' = sh /\ sh[s].stack = <<>>
      BY <2>2, CreateKeeps DEF CopiesInv, RemoveInv, IInv, Create, Busy
    <3>2. Histories(s)
      BY <2>2, StepEnds
    <3> QED BY <3>1, <3>2, CopiesOn
  <2>3. ASSUME NEW s \in Shells, Step(s) PROVE \A z \in Shells : CopyInv(began'[z], tree', sh'[z])
    BY <2>3, StepCopies
  <2>4. CASE UNCHANGED vars
    BY <2>4 DEF vars, CopiesInv
  <2> QED BY <2>1, <2>2, <2>3, <2>4 DEF ShellNext
<1> QED BY <1>1, <1>2 DEF CopiesInv

(* cp, told the truth and left alone, makes a whole copy under a new name  *)
(* and changes nothing else, for any tree and any depth of it, where the   *)
(* lines that shells are given fit the buffer that cp reads a file into    *)
(* (cp.c:57-166, 233-243).                                                 *)
THEOREM CpCopiesAll == (Excused /\ LinesFit) => (ShellSpec => []CopyExact)
<1> SUFFICES ASSUME Excused, LinesFit PROVE ShellSpec => []CopyExact
  OBVIOUS
<1>1. ShellInit => CopiesInv
  <2> SUFFICES ASSUME ShellInit PROVE CopiesInv
    OBVIOUS
  <2>1. \A s \in Shells : sh[s].stack = <<>>
    BY DEF ShellInit
  <2> QED BY <2>1, RemoveBegins DEF CopiesInv, CopyInv
<1>2. CopiesInv /\ [ShellNext]_vars => CopiesInv'
  BY CopiesKept
<1>3. CopiesInv => CopyExact
  <2> SUFFICES ASSUME CopiesInv, NEW s \in Shells, Ending(s, "cp"), Top(s).at = "copied",
                      ~Holds(began[s], sh[s].cwd, Top(s).to)
               PROVE  LET d == sh[s].cwd
                          f == Top(s)
                      IN  /\ Holds(tree, d, f.to)
                          /\ Copied(began[s], Head(began[s][d][f.from]), tree, Head(tree[d][f.to]))
                          /\ OthersSame(began[s], tree, d, {f.to})
    BY DEF CopyExact
  <2> DEFINE p == sh[s]
             b == began[s]
             f == Top(s)
  <2>1. p \in ShellType /\ p.stack # <<>> /\ f.op = "cp" /\ b # None /\ Inner(p) /\ StoreInv
    BY DEF CopiesInv, RemoveInv, IInv, TypesOK, Ending, Busy
  <2>2. Len(p.stack) \in Nat \ {0} /\ f = p.stack[1]
    BY <2>1, StackIs DEF Top
  <2>3. Len(p.stack) = 1
    <3> SUFFICES ASSUME Len(p.stack) # 1 PROVE FALSE
      OBVIOUS
    <3>0. \A k \in Nat \ {0} : k # 1 => 1 \in 1 .. k - 1
      OBVIOUS
    <3>1. 1 \in 1 .. Len(p.stack) - 1
      BY <2>2, <3>0, Zenon
    <3> QED BY <2>1, <2>2, <3>1 DEF Inner, Called
  <2>4. Base(p) = f
    BY <2>2, <2>3 DEF Base
  <2>5. Copying(b, tree, p)
    BY <2>1, <2>4 DEF CopiesInv, CopyInv
  <2>6. Inners(p) = {}
    BY <2>3 DEF Inners
  <2>7. Awaited(b, p, Inners(p)) = {}
    BY <2>6 DEF Awaited
  <2>8. PICK M : CopyState(b, tree, p.cwd, f, M, {})
    BY <2>4, <2>5, <2>7 DEF Copying
  <2> HIDE DEF p, b, f
  <2>9. /\ Holds(tree, p.cwd, f.to)
        /\ Copied(b, Head(b[p.cwd][f.from]), tree, Head(tree[p.cwd][f.to]))
        /\ OthersSame(b, tree, p.cwd, {f.to})
    BY <2>1, <2>8, CopyEnds
  <2> QED BY <2>9 DEF p, b, f
<1> QED BY <1>1, <1>2, <1>3, PTL DEF ShellSpec
-----------------------------------------------------------------------------
(* All has been copied, and nothing is gone but what there was under the   *)
(* name that is moved.                                                     *)
Moved(b, t, c, f) ==
  \E M : /\ Whole(b, t, c, f, M)
         /\ \A d \in Ids \ Below(b, c, f.from), n \in Names :
              ((\A i \in DOMAIN M : d # M[i]) /\ (d # c \/ n \notin {f.from, f.to})) => t[d][n] = b[d][n]

(* mv has made its copy: it is removing the source, or has removed it.     *)
MvInv(b, t, p) ==
  (p.stack # <<>> /\ Base(p).op = "mv" /\ Base(p).at = "done" /\ b # None) =>
    /\ Moved(b, t, p.cwd, Base(p))
    /\ Single(t) /\ Cleared(t, p)
    /\ Erasing(t, p, Below(b, p.cwd, Base(p).from))

(* The copy is out of the way of the removal.                              *)
LEMMA MovedOn ==
  ASSUME NEW b, NEW t, NEW u, NEW c, NEW f, Moved(b, t, c, f),
         \A d \in Ids, n \in Names :
           u[d][n] # t[d][n] => d \in Below(b, c, f.from) \/ (d = c /\ n = f.from)
  PROVE  Moved(b, u, c, f)
<1> DEFINE R == Below(b, c, f.from)
<1>1. PICK M : /\ Whole(b, t, c, f, M)
               /\ \A d \in Ids \ R, n \in Names :
                    ((\A i \in DOMAIN M : d # M[i]) /\ (d # c \/ n \notin {f.from, f.to})) =>
                      t[d][n] = b[d][n]
  BY DEF Moved
<1>2. /\ Job(b, c, f) /\ DOMAIN M \subseteq R /\ \A d \in DOMAIN M : M[d] \in Ids \ Used(b)
      /\ c \in Dirs(b) /\ c \notin R /\ f.to \in Names
  BY <1>1 DEF Whole, Job
<1>3. c \in Ids /\ Dirs(b) \subseteq Used(b) /\ f.from # f.to /\ R \subseteq Dirs(b)
  BY <1>2, JobFacts
<1>4. ASSUME NEW q \in Places(M, c, f)
      PROVE  LET r == Place(M, c, f, q)
             IN  r[1] \in Ids \ R /\ r[2] \in Names /\ (r[1] # c \/ r[2] # f.from)
  <2> HIDE DEF R
  <2>1. CASE q = <<c, f.from>>
    <3>1. Place(M, c, f, q) = <<c, f.to>>
      BY <2>1 DEF Place
    <3> QED BY <1>2, <1>3, <3>1
  <2>2. CASE q # <<c, f.from>>
    <3>1. Place(M, c, f, q) = <<M[q[1]], q[2]>>
      BY <2>2 DEF Place
    <3>2. q[1] \in DOMAIN M /\ q[2] \in Names
      BY <2>2 DEF Places
    <3> QED BY <1>2, <1>3, <3>1, <3>2
  <2> QED BY <2>1, <2>2
<1> HIDE DEF R
<1>5. \A q \in Places(M, c, f) :
        LET r == Place(M, c, f, q) IN u[r[1]][r[2]] = t[r[1]][r[2]]
  BY <1>4 DEF R
<1>6. Whole(b, u, c, f, M)
  BY <1>1, <1>5 DEF Whole
<1>7. \A d \in Ids \ R, n \in Names :
        ((\A i \in DOMAIN M : d # M[i]) /\ (d # c \/ n \notin {f.from, f.to})) => u[d][n] = b[d][n]
  BY <1>1 DEF R
<1> QED BY <1>6, <1>7 DEF Moved, R

(* When the copy is made, the source is all there.                         *)
LEMMA MoveBegins ==
  ASSUME StoreInv, NEW b, NEW c, NEW f, NEW M, CopyState(b, tree, c, f, M, {})
  PROVE  /\ Moved(b, tree, c, f) /\ Single(tree) /\ c \in Dirs(tree) /\ c \in Ids
         /\ Holds(tree, c, f.from) /\ tree[c][f.from] = b[c][f.from]
         /\ Below(b, c, f.from) \in SUBSET Ids /\ Closed(tree, Below(b, c, f.from))
         /\ Named(tree, c, f.from) \subseteq Below(b, c, f.from)
<1> DEFINE R == Below(b, c, f.from)
<1>1. /\ Job(b, c, f)
      /\ \A d \in Ids, n \in Names :
           ((\A i \in DOMAIN M : d # M[i]) /\ (d # c \/ n # f.to)) => tree[d][n] = b[d][n]
      /\ f.from \in Names /\ Holds(b, c, f.from) /\ c \in Dirs(b) /\ c \notin R
  BY DEF CopyState, Job
<1>2. /\ c \in Ids /\ Dirs(b) \subseteq Ids /\ Named(b, c, f.from) \subseteq R /\ Closed(b, R)
      /\ R \subseteq Dirs(b)
  BY <1>1, JobFacts
<1>3. /\ \A d \in Dirs(b) : \A i \in DOMAIN M : M[i] # d
      /\ \A d \in Ids, n \in Names : Holds(b, d, n) => tree[d][n] = b[d][n]
      /\ Dirs(b) \subseteq Dirs(tree)
  BY CopyFacts
<1>4. Whole(b, tree, c, f, M) /\ Single(tree)
  BY CopyEnds
<1> HIDE DEF R
<1>5. tree[c][f.from] = b[c][f.from] /\ Holds(tree, c, f.from)
  BY <1>1, <1>2, <1>3 DEF Holds
<1>6. \A d \in R, n \in Names : tree[d][n] = b[d][n]
  BY <1>1, <1>2, <1>3
<1>7. \A d, n : tree[d][n] = b[d][n] => Named(tree, d, n) = Named(b, d, n)
  BY DEF Named, EntriesAt
<1>8. Closed(tree, R)
  BY <1>2, <1>6, <1>7 DEF Closed
<1>9. Named(tree, c, f.from) \subseteq R
  BY <1>2, <1>5, <1>7
<1>10. \A d \in Ids \ R, n \in Names :
         ((\A i \in DOMAIN M : d # M[i]) /\ (d # c \/ n \notin {f.from, f.to})) => tree[d][n] = b[d][n]
  BY <1>1
<1>11. Moved(b, tree, c, f)
  BY <1>4, <1>10 DEF Moved, R
<1> QED BY <1>1, <1>2, <1>3, <1>4, <1>5, <1>8, <1>9, <1>11 DEF R

(* The base frame is another one with the same names.                      *)
LEMMA MovedSame ==
  ASSUME NEW b, NEW t, NEW c, NEW f, NEW g, Moved(b, t, c, f), g.from = f.from, g.to = f.to
  PROVE  Moved(b, t, c, g)
<1>1. Job(b, c, f) => Job(b, c, g)
  BY DEF Job
<1>2. \A M : Places(M, c, g) = Places(M, c, f) /\ \A q : Place(M, c, g, q) = Place(M, c, f, q)
  BY DEF Places, Place
<1>3. \A M : Whole(b, t, c, f, M) => Whole(b, t, c, g, M)
  BY <1>1, <1>2 DEF Whole
<1> QED BY <1>3 DEF Moved
(* mv has made its copy and begins with the removal, or has deleted a      *)
(* file.                                                                   *)
LEMMA MvDone ==
  ASSUME TypesOK, NEW s \in Shells, Len(sh[s].stack) = 1, Busy(s), Step(s),
         NEW b, b # None, began'[s] # None, CopyInv(b, tree, sh[s]),
         NEW x, Goes(s, x), x \in ShellType, x.stack # <<>>, Base(sh[s]).op = "mv", Base(x).at = "done"
  PROVE  MvInv(b, tree', x)
<1> DEFINE p == sh[s]
           f == Top(s)
           c == p.cwd
           g == [f EXCEPT !.at = "done"]
           R == Below(b, c, f.from)
<1>0. -1 \in Int /\ 0 \in Int /\ Len(p.stack) = 1
  BY DEF p
<1>1. /\ StoreInv /\ p \in ShellType /\ p.stack # <<>> /\ f = Head(p.stack) /\ f \in FrameType
      /\ f = Base(p) /\ f.op = "mv" /\ c \in Ids
  <2>1. StoreInv /\ p \in ShellType /\ p.stack # <<>>
    BY NotEmpty DEF TypesOK
  <2>2. f = Head(p.stack)
    BY DEF Top
  <2>3. Base(p) = p.stack[1] /\ Base(p).op = "mv"
    BY DEF Base
  <2> HIDE DEF p, f
  <2> QED BY <2>1, <2>2, <2>3, StackIs DEF ShellType, c
<1>2. f \in MvFrames /\ f.from \in Names /\ f.to \in Names
  <2>1. f \in MvFrames
    BY <1>1, FrameKinds
  <2> QED BY <2>1 DEF MvFrames
<1>3. MvStep(s)
  BY <1>1 DEF Step, CopyFile, CopyDir, CopyEach, Remove, RemoveEach, RmStep, RmrStep, CpStep, CdStep, f
<1>4. f.at \in {"copied", "delete"} =>
        f.dir = (Head(b[c][f.from]).type = "dir") /\ Copying(b, tree, p)
  BY <1>1 DEF CopyInv
<1>5. Moves(s)
  BY StepMoves
<1>6. /\ g \in MvFrames /\ g.at = "done" /\ g.from = f.from /\ g.to = f.to
      /\ g \in FrameType /\ g.op = "mv" /\ g.op = f.op
  <2>1. g \in MvFrames /\ g.at = "done" /\ g.from = f.from /\ g.to = f.to
    BY <1>2 DEF MvFrames
  <2> HIDE DEF g
  <2> QED BY <1>1, <2>1 DEF MvFrames, FrameType
<1> HIDE DEF p, f
<1>7. ASSUME NEW r \in Int, Goes(s, Back(p, r)) PROVE FALSE
  <2>1. x = Back(p, r)
    BY <1>7, GoesOnce
  <2> QED BY <1>0, <1>1, <2>1, BackEnds
<1>8. ASSUME NEW h \in FrameType, h.op = "mv", h.at # "done", Goes(s, At(p, h)) PROVE FALSE
  <2>1. x = At(p, h)
    BY <1>8, GoesOnce
  <2>2. Base(x) = h
    BY <1>0, <1>1, <1>8, <2>1, BaseAt
  <2> QED BY <1>8, <2>2
<1>9. ASSUME NEW h \in FrameType, h.op = "mv", h.at # "done", NEW k \in FrameType, Goes(s, Into(p, h, k))
      PROVE  FALSE
  <2>1. x = Into(p, h, k)
    BY <1>9, GoesOnce
  <2>2. Len(x.stack) = 2 /\ x.stack[2] = h
    BY <1>0, <1>1, <1>9, <2>1, BaseInto
  <2> QED BY <1>9, <2>2 DEF Base
<1>10. ASSUME f.at \in {"copied", "delete"}
       PROVE  /\ Moved(b, tree, c, f) /\ Single(tree) /\ c \in Dirs(tree) /\ c \in Ids
              /\ Holds(tree, c, f.from) /\ tree[c][f.from] = b[c][f.from]
              /\ R \in SUBSET Ids /\ Closed(tree, R)
              /\ Named(tree, c, f.from) \subseteq R
  <2>1. PICK M : CopyState(b, tree, c, f, M, Awaited(b, p, Inners(p)))
    BY <1>1, <1>4, <1>10 DEF Copying, c
  <2>2. Awaited(b, p, Inners(p)) = {}
    BY <1>0 DEF Awaited, Inners
  <2>3. CopyState(b, tree, c, f, M, {})
    BY <2>1, <2>2
  <2> HIDE DEF c
  <2> QED BY <1>1, <2>3, MoveBegins
<1>11. ASSUME NEW h \in MvFrames, h.at # "done" PROVE h \in FrameType /\ h.op = "mv" /\ h.at # "done"
  BY <1>11 DEF FrameType, MvFrames
<1>12. CASE /\ f.at = "source"
            /\ Finding(s, c, f.from,
                       At(p, [f EXCEPT !.at = "dest", !.src = InodeNamed(c, f.from)]), Back(p, -1))
  <2> DEFINE i == InodeNamed(c, f.from)
             h == [f EXCEPT !.at = "dest", !.src = i]
             found == At(p, h)
  <2>1. i \in Inodes
    BY <1>1, <1>2, InodeNamedType
  <2> HIDE DEF i
  <2>2. h \in MvFrames /\ h.at # "done"
    BY <1>2, <2>1 DEF MvFrames
  <2>3. Finding(s, c, f.from, found, Back(p, -1))
    BY <1>12 DEF i
  <2> HIDE DEF found
  <2>4. Goes(s, found) \/ Goes(s, Back(p, -1))
    BY <2>3, FindCases
  <2> HIDE DEF h
  <2> QED BY <1>0, <1>7, <1>8, <1>11, <2>2, <2>4 DEF found
<1>13. CASE /\ f.at = "dest"
            /\ Finding(s, c, f.to, Back(p, -1),
                       IF f.src = Bin THEN Back(p, -1) ELSE At(p, [f EXCEPT !.at = "kind"]))
  <2> DEFINE h == [f EXCEPT !.at = "kind"]
             lost == IF f.src = Bin THEN Back(p, -1) ELSE At(p, h)
  <2>2. h \in MvFrames /\ h.at # "done"
    BY <1>2 DEF MvFrames
  <2>3. Finding(s, c, f.to, Back(p, -1), lost)
    BY <1>13
  <2> HIDE DEF lost
  <2>4. Goes(s, Back(p, -1)) \/ Goes(s, lost)
    BY <2>3, FindCases
  <2> HIDE DEF h
  <2> QED BY <1>0, <1>7, <1>8, <1>11, <2>2, <2>4 DEF lost
<1>14. CASE /\ f.at = "kind"
            /\ Looking(s, ListCode(tree, f.src),
                       Into(p, [f EXCEPT !.at = "copied", !.dir = TRUE], CopyOf(p, f, TRUE)),
                       Into(p, [f EXCEPT !.at = "copied", !.dir = FALSE], CopyOf(p, f, FALSE)))
  <2> DEFINE as(d) == [f EXCEPT !.at = "copied", !.dir = d]
             good == Into(p, as(TRUE), CopyOf(p, f, TRUE))
             bad == Into(p, as(FALSE), CopyOf(p, f, FALSE))
  <2>1. \A d \in BOOLEAN : as(d) \in MvFrames /\ as(d).at # "done"
    BY <1>2 DEF MvFrames
  <2>2. \A d \in BOOLEAN : CopyOf(p, f, d) \in FrameType
    BY <1>1, <1>2, CopyOfType
  <2>3. Looking(s, ListCode(tree, f.src), good, bad)
    BY <1>14
  <2> HIDE DEF good, bad
  <2>4. Goes(s, good) \/ Goes(s, bad)
    BY <2>3, LookCases
  <2> HIDE DEF as
  <2> QED BY <1>9, <1>11, <2>1, <2>2, <2>4 DEF good, bad
<1>15. CASE /\ f.at = "delete"
            /\ Deleting(s, c, f.from, "reg", At(p, g), Back(p, -1))
  <2> DEFINE y == At(p, g)
  <2>1. Deleting(s, c, f.from, "reg", y, Back(p, -1))
    BY <1>15
  <2>2. y \in ShellType /\ y.cwd = c /\ Len(y.stack) = 1 /\ Base(y) = g
    <3> HIDE DEF g
    <3>1. g.op = Head(p.stack).op
      BY <1>1, <1>6
    <3>2. y \in ShellType
      BY <1>1, <1>6, <3>1, AtStack
    <3> QED BY <1>0, <1>1, <1>6, <3>1, <3>2, BaseAt
  <2>20. /\ Moved(b, tree, c, f) /\ Single(tree) /\ c \in Dirs(tree) /\ c \in Ids
         /\ Holds(tree, c, f.from) /\ R \in SUBSET Ids /\ Closed(tree, R)
         /\ Named(tree, c, f.from) \subseteq R
    BY <1>10, <1>15
  <2> HIDE DEF y, g, R, c
  <2>3. /\ Head(tree[c][f.from]).type = "reg" /\ tree' = Pop(tree, c, f.from) /\ Goes(s, y)
    BY <1>0, <1>2, <1>7, <2>1, <2>20, DeleteEnds
  <2>4. x = y
    BY <2>3, GoesOnce
  <2>5. /\ ~Holds(tree', c, f.from) /\ Single(tree') /\ Dirs(tree') \subseteq Dirs(tree)
        /\ \A d \in Ids, m \in Names : d # c \/ m # f.from => tree'[d][m] = tree[d][m]
    BY <1>1, <1>2, <2>3, <2>20, PopIs
  <2>6. Goal(x) = f.from
    BY <1>6, <2>2, <2>4 DEF Goal
  <2>30. /\ ~(Len(x.stack) > 1)
         /\ \A k \in 1 .. Len(x.stack) - 1 : FALSE
         /\ \A k \in 2 .. Len(x.stack) - 1 : FALSE
    <3>1. Len(x.stack) = 1
      BY <2>2, <2>4
    <3>2. ~(1 > 1) /\ (\A k \in 1 .. 1 - 1 : FALSE) /\ \A k \in 2 .. 1 - 1 : FALSE
      OBVIOUS
    <3> QED BY <3>1, <3>2, Zenon
  <2>7. Moved(b, tree', c, g)
    <3>1. Moved(b, tree', c, f)
      BY <2>5, <2>20, MovedOn
    <3> QED BY <1>6, <3>1, MovedSame
  <2>8. Cleared(tree', x)
    BY <2>2, <2>4, <2>5, <2>6, <2>30 DEF Cleared
  <2>9. Erasing(tree', x, R)
    <3>1. Erasing(tree, x, R)
      BY <2>2, <2>4, <2>6, <2>20, <2>30 DEF Erasing
    <3>2. TreeStep
      BY <1>5 DEF Moves
    <3>3. x.cwd \in Ids /\ Goal(x) \in Names
      BY <1>2, <2>2, <2>4, <2>6, <2>20
    <3> QED BY <1>1, <2>5, <2>20, <3>1, <3>2, <3>3, ErasingOn
  <2>10. Below(b, x.cwd, Base(x).from) = R
    BY <1>6, <2>2, <2>4 DEF R
  <2> QED BY <2>2, <2>4, <2>5, <2>7, <2>8, <2>9, <2>10 DEF MvInv
<1>16. CASE f.at = "copied" /\ Going(s, MvCopied(p, f))
  <2>1. tree' = tree /\ Goes(s, MvCopied(p, f))
    BY <1>16, GoCases
  <2>2. CASE p.result # 0
    BY <1>0, <1>7, <2>1, <2>2 DEF MvCopied
  <2>3. CASE p.result = 0 /\ ~f.dir
    <3> DEFINE h == [f EXCEPT !.at = "delete"]
    <3>1. h \in MvFrames /\ h.at # "done"
      BY <1>2 DEF MvFrames
    <3>2. Goes(s, At(p, h))
      BY <2>1, <2>3 DEF MvCopied
    <3> HIDE DEF h
    <3> QED BY <1>8, <1>11, <3>1, <3>2
  <2>4. CASE p.result = 0 /\ f.dir
    <3> DEFINE r == RemoveFrame(c, f.from)
    <3>1. r \in FrameType /\ r.op = "remove" /\ r.at = "file" /\ r.d = c /\ r.n = f.from
      BY <1>1, <1>2 DEF RemoveFrame, RemoveFrames, Inodes, FrameType
    <3>2. Goes(s, Into(p, g, r))
      BY <2>1, <2>4 DEF MvCopied
    <3> HIDE DEF g, r
    <3>3. x = Into(p, g, r)
      BY <3>2, GoesOnce
    <3>4. x.cwd = c /\ Len(x.stack) = 2 /\ x.stack[1] = r /\ x.stack[2] = g
      BY <1>0, <1>1, <1>6, <3>1, <3>3, BaseInto
    <3>5. Base(x) = g
      BY <3>4 DEF Base
    <3>6. /\ Moved(b, tree, c, f) /\ Single(tree) /\ c \in Dirs(tree) /\ c \in Ids
          /\ R \in SUBSET Ids /\ Closed(tree, R) /\ Named(tree, c, f.from) \subseteq R
      BY <1>10, <1>16
    <3>7. Goal(x) = f.from
      BY <1>6, <3>5 DEF Goal
    <3> HIDE DEF c, R
    <3>8. Opened(tree, r)
      BY <3>1, <3>6 DEF Opened
    <3>9. Cleared(tree, x)
      BY <3>1, <3>4, <3>7, <3>8 DEF Cleared
    <3>10. \A k \in 1 .. Len(x.stack) - 1 : RemovesIn(tree, x, R, x.stack[k])
      <4>1. \A k \in 1 .. Len(x.stack) - 1 : k = 1
        BY <3>4
      <4>2. RemovesIn(tree, x, R, r)
        BY <3>1, <3>4, <3>7 DEF RemovesIn
      <4> QED BY <3>4, <4>1, <4>2
    <3>11. Erasing(tree, x, R)
      BY <3>4, <3>6, <3>7, <3>10 DEF Erasing
    <3>12. Moved(b, tree, c, g)
      BY <1>6, <3>6, MovedSame
    <3>13. Below(b, x.cwd, Base(x).from) = R
      BY <1>6, <3>4, <3>5 DEF R
    <3> QED BY <2>1, <3>4, <3>5, <3>6, <3>9, <3>11, <3>12, <3>13 DEF MvInv
  <2> QED BY <2>2, <2>3, <2>4
<1>17. CASE f.at = "done" /\ Going(s, Back(p, 0))
  BY <1>0, <1>7, <1>17, GoCases
<1> QED BY <1>3, <1>12, <1>13, <1>14, <1>15, <1>16, <1>17 DEF MvStep, p, f
(* A step of the removal that mv has called.                               *)
LEMMA MvErases ==
  ASSUME TypesOK, NEW s \in Shells, Busy(s), Step(s), Len(sh[s].stack) > 1,
         NEW b, b # None, began'[s] # None, MvInv(b, tree, sh[s]),
         Base(sh[s]).op = "mv", Base(sh[s]).at = "done",
         NEW x, Goes(s, x), x \in ShellType
  PROVE  MvInv(b, tree', x)
<1> DEFINE p == sh[s]
           f == Base(p)
           c == p.cwd
           R == Below(b, c, f.from)
<1>1. /\ p \in ShellType /\ p.stack # <<>> /\ StoreInv /\ c \in Ids
      /\ Moved(b, tree, c, f) /\ Single(tree) /\ Cleared(tree, p) /\ Erasing(tree, p, R)
  BY DEF TypesOK, Busy, MvInv, ShellType
<1>2. Len(p.stack) \in Nat \ {0} /\ Top(s) = p.stack[1] /\ 1 \in 1 .. Len(p.stack) - 1
  <2>1. Len(p.stack) \in Nat \ {0} /\ Top(s) = p.stack[1]
    BY <1>1, StackIs DEF Top
  <2>2. \A k \in Nat \ {0} : k > 1 => 1 \in 1 .. k - 1
    OBVIOUS
  <2> QED BY <2>1, <2>2, Zenon
<1>3. f \in MvFrames
  BY <1>1, StackIs, FrameKinds
<1>4. Goal(p) = f.from /\ f.from \in Names
  BY <1>3 DEF Goal, MvFrames
<1>5. \A k \in 1 .. Len(p.stack) - 1 : RemovesIn(tree, p, R, p.stack[k]) /\ p.stack[k] \in RemoveFrames
  BY <1>1, RemovesType DEF Erasing
<1>6. RemovesIn(tree, p, R, Top(s))
  BY <1>2, <1>5
<1>7. Remove(s) \/ RemoveEach(s)
  BY <1>6 DEF RemovesIn, Step, CopyFile, CopyDir, CopyEach, RmStep, RmrStep, CpStep, MvStep, CdStep
<1>8. R \in SUBSET Ids
  <2>1. PICK M : Whole(b, tree, c, f, M)
    BY <1>1 DEF Moved
  <2>2. Job(b, c, f)
    BY <2>1 DEF Whole
  <2> HIDE DEF f, c
  <2> QED BY <2>2, JobFacts DEF R
<1>9. GoesOn(p, x)
  <2>1. \E y : Goes(s, y) /\ GoesOn(p, y)
    BY <1>1, <1>4, <1>5, <1>7, RemoveGoes
  <2> QED BY <2>1, GoesOnce
<1>10. Inside(Top(s).d, Top(s).n) /\ Erasing(tree, x, R)
  <2> HIDE DEF R
  <2>1. Inside(Top(s).d, Top(s).n) /\ \E y : Goes(s, y) /\ Erasing(tree, y, R)
    BY <1>1, <1>4, <1>6, <1>7, RmInner
  <2> QED BY <2>1, GoesOnce
<1>11. Moved(b, tree', c, f)
  <2>1. \A d \in Ids, n \in Names : tree'[d][n] # tree[d][n] => d \in R \/ (d = c /\ n = f.from)
    BY <1>4, <1>6, <1>10 DEF Inside, RemovesIn
  <2> HIDE DEF f, c
  <2> QED BY <1>1, <2>1, MovedOn DEF R
<1> SUFFICES ASSUME x.stack # <<>> PROVE MvInv(b, tree', x)
  BY DEF MvInv
<1>12. x.cwd = c /\ Base(x) = f /\ Cleared(tree', x) /\ Single(tree') /\ Dirs(tree') \subseteq Dirs(tree)
  BY <1>9 DEF GoesOn
<1>13. Goal(x) = f.from
  BY <1>12 DEF Goal
<1>14. Erasing(tree', x, R)
  <2>1. TreeStep
    BY StepMoves DEF Moves
  <2> HIDE DEF R
  <2> QED BY <1>1, <1>4, <1>8, <1>10, <1>12, <1>13, <2>1, ErasingOn
<1> HIDE DEF f, c, p
<1> QED BY <1>11, <1>12, <1>14 DEF MvInv, R

(* A step of a shell that runs mv.                                         *)
LEMMA OwnMoves ==
  ASSUME TypesOK, NEW s \in Shells, Busy(s), Step(s), Inner(sh[s]),
         NEW b, b # None, began'[s] # None, CopyInv(b, tree, sh[s]), MvInv(b, tree, sh[s]),
         NEW x, Goes(s, x), Follows(s, x)
  PROVE  MvInv(b, tree', x)
<1> DEFINE p == sh[s]
           m == Len(p.stack)
<1> SUFFICES ASSUME x.stack # <<>>, Base(x).op = "mv", Base(x).at = "done" PROVE MvInv(b, tree', x)
  BY DEF MvInv
<1>1. p \in ShellType /\ p.stack # <<>> /\ Base(p).op = "mv" /\ x \in ShellType
  BY DEF TypesOK, Busy, Follows
<1>2. m \in Nat \ {0}
  BY <1>1, StackIs
<1>3. CASE m = 1
  BY <1>1, <1>3, MvDone
<1>4. CASE m > 1
  <2>1. Base(x) = Base(p)
    BY <1>4 DEF Follows
  <2> QED BY <1>1, <1>4, <2>1, MvErases
<1>5. \A k \in Nat \ {0} : k = 1 \/ k > 1
  OBVIOUS
<1> QED BY <1>2, <1>3, <1>4, <1>5, Zenon

-----------------------------------------------------------------------------
(* The inductive invariant.                                                *)
MovesInv == CopiesInv /\ \A s \in Shells : MvInv(began[s], tree, sh[s])

(* A command does not begin with mv's removal.                             *)
LEMMA StartMoves ==
  ASSUME MovesInv, NEW s \in Shells, Start(s)
  PROVE  \A z \in Shells : MvInv(began'[z], tree', sh'[z])
<1> DEFINE p == sh[s]
<1>1. PICK line \in Lines[s] :
        /\ line[1] \in {"cd", "rm", "rmr", "cp", "cpr", "mv"}
        /\ Frames(line, p.cwd) # <<>>
        /\ sh' = [sh EXCEPT ![s].stack = Frames(line, p.cwd)]
        /\ \E y : began' = [began EXCEPT ![s] = y]
        /\ tree' = tree
  BY DEF Start
<1>2. sh \in [Shells -> ShellType] /\ p.cwd \in Ids /\ p \in ShellType /\ DOMAIN began = Shells
  BY DEF MovesInv, CopiesInv, RemoveInv, IInv, TypesOK, ShellType
<1> DEFINE st == Frames(line, p.cwd)
           x  == [p EXCEPT !.stack = st]
<1>3. line[1] # "rmr" => Len(st) = 1
  BY <1>1, <1>2, FramesAre
<1>4. line[1] = "mv" => st[1].at = "source"
  BY DEF Frames
<1>5. /\ line[1] = "cd" => st[1].op = "cd"
      /\ line[1] \in {"cp", "cpr"} => st[1].op = "cp"
      /\ (line[1] = "rm" /\ st # <<>>) => st[1].op = "rm"
      /\ (line[1] = "rmr" /\ st # <<>>) => st[2].op = "rmr" /\ Len(st) = 2
  BY DEF Frames
<1>6. sh' = [sh EXCEPT ![s] = x] /\ st # <<>>
  BY <1>1
<1> HIDE DEF st
<1>7. x.cwd = p.cwd /\ x.stack = st
  BY <1>2 DEF ShellType
<1> HIDE DEF x
<1>8. sh'[s] = x /\ \A z \in Shells \ {s} : sh'[z] = sh[z]
  BY <1>2, <1>6
<1>9. Base(x).op # "mv" \/ Base(x).at # "done"
  BY <1>1, <1>3, <1>4, <1>5, <1>6, <1>7 DEF Base
<1>10. ASSUME NEW z \in Shells, z # s PROVE MvInv(began'[z], tree', sh'[z])
  <2>1. sh'[z] = sh[z] /\ tree' = tree /\ began'[z] = began[z]
    BY <1>1, <1>2, <1>8, <1>10
  <2> QED BY <2>1 DEF MovesInv
<1> QED BY <1>8, <1>9, <1>10 DEF MvInv

(* What another shell, or a shell that is not busy, is left with.          *)
LEMMA MovesOn ==
  ASSUME MovesInv, NEW s \in Shells, Histories(s), NEW z \in Shells,
         sh'[z] = sh[z], z # s \/ sh[z].stack = <<>>
  PROVE  MvInv(began'[z], tree', sh'[z])
<1>1. CASE sh[z].stack = <<>>
  BY <1>1 DEF MvInv
<1>2. CASE began'[z] = None
  BY <1>2 DEF MvInv
<1>3. CASE began'[z] # None /\ z # s
  <2>1. tree' = tree /\ began'[z] = began[z]
    BY <1>3 DEF Histories
  <2> QED BY <2>1 DEF MovesInv
<1> QED BY <1>1, <1>2, <1>3

LEMMA StepMakesMoves ==
  ASSUME MovesInv, NEW s \in Shells, Step(s)
  PROVE  \A z \in Shells : MvInv(began'[z], tree', sh'[z])
<1>1. TypesOK /\ sh \in [Shells -> ShellType] /\ Busy(s) /\ Inner(sh[s])
  BY DEF MovesInv, CopiesInv, RemoveInv, IInv, TypesOK, Step
<1>2. PICK x : Follows(s, x) /\ Goes(s, x)
  BY <1>1, StepMoves DEF Moves
<1>3. sh'[s] = x /\ \A z \in Shells \ {s} : sh'[z] = sh[z]
  BY <1>1, <1>2 DEF Goes
<1>4. Histories(s)
  BY StepEnds
<1>5. MvInv(began'[s], tree', x)
  <2>1. CASE began'[s] = None
    BY <2>1 DEF MvInv
  <2>2. CASE began'[s] # None
    <3> DEFINE b == began[s]
    <3>1. began'[s] = b /\ CopyInv(b, tree, sh[s]) /\ MvInv(b, tree, sh[s])
      BY <1>4, <2>2 DEF Histories, MovesInv, CopiesInv
    <3> HIDE DEF b
    <3>2. MvInv(b, tree', x)
      BY <1>1, <1>2, <2>2, <3>1, OwnMoves
    <3> QED BY <3>1, <3>2
  <2> QED BY <2>1, <2>2
<1> QED BY <1>3, <1>4, <1>5, MovesOn

LEMMA MovesKept ==
  ASSUME MovesInv, Excused, LinesFit, [ShellNext]_vars
  PROVE  MovesInv'
<1>1. CopiesInv'
  BY CopiesKept DEF MovesInv
<1>2. \A z \in Shells : MvInv(began'[z], tree', sh'[z])
  <2>1. ASSUME NEW s \in Shells, Start(s) PROVE \A z \in Shells : MvInv(began'[z], tree', sh'[z])
    BY <2>1, StartMoves
  <2>2. ASSUME NEW s \in Shells, Create(s) PROVE \A z \in Shells : MvInv(began'[z], tree', sh'[z])
    <3>1. sh' = sh /\ sh[s].stack = <<>>
      BY <2>2, CreateKeeps DEF MovesInv, CopiesInv, RemoveInv, IInv, Create, Busy
    <3>2. Histories(s)
      BY <2>2, StepEnds
    <3> QED BY <3>1, <3>2, MovesOn
  <2>3. ASSUME NEW s \in Shells, Step(s) PROVE \A z \in Shells : MvInv(began'[z], tree', sh'[z])
    BY <2>3, StepMakesMoves
  <2>4. CASE UNCHANGED vars
    BY <2>4 DEF vars, MovesInv
  <2> QED BY <2>1, <2>2, <2>3, <2>4 DEF ShellNext
<1> QED BY <1>1, <1>2 DEF MovesInv

(* What mv has done when it says so.                                       *)
LEMMA MoveEnds ==
  ASSUME StoreInv, NEW b, NEW c, NEW f, Moved(b, tree, c, f)
  PROVE  /\ Len(tree[c][f.to]) = 1
         /\ Copied(b, Head(b[c][f.from]), tree, Head(tree[c][f.to]))
         /\ OthersSame(b, tree, c, {f.from, f.to})
<1> DEFINE R == Below(b, c, f.from)
<1>1. PICK M : /\ Whole(b, tree, c, f, M)
               /\ \A d \in Ids \ R, n \in Names :
                    ((\A i \in DOMAIN M : d # M[i]) /\ (d # c \/ n \notin {f.from, f.to})) =>
                      tree[d][n] = b[d][n]
  BY DEF Moved
<1> HIDE DEF R
<1>2. /\ Len(tree[c][f.to]) = 1
      /\ Copied(b, Head(b[c][f.from]), tree, Head(tree[c][f.to]))
      /\ \A d \in Dirs(b) : \A i \in DOMAIN M : M[i] # d
  BY <1>1, WholeIs
<1>3. /\ Job(b, c, f) /\ Orderly(b) /\ f.from \in Names /\ f.to \in Names /\ ~Holds(b, c, f.to)
  BY <1>1 DEF Whole, Job
<1>4. c \in Ids /\ Dirs(b) \subseteq Ids
  BY <1>3, JobFacts
<1>5. Named(b, c, f.to) = {}
  <2> DEFINE n == f.to
  <2>1. n \in Names /\ ~Holds(b, c, n)
    BY <1>3
  <2> HIDE DEF n
  <2>2. Named(b, c, n) = {}
    BY <1>3, <1>4, <2>1, OrderlyNone
  <2> QED BY <2>2 DEF n
<1>6. UNION {Named(b, c, y) : y \in {f.from, f.to}} = Named(b, c, f.from)
  BY <1>5
<1>7. Reach(b, UNION {Named(b, c, y) : y \in {f.from, f.to}}) = R
  BY <1>6 DEF R, Below
<1>8. OthersSame(b, tree, c, {f.from, f.to})
  BY <1>1, <1>2, <1>4, <1>7 DEF OthersSame
<1> QED BY <1>2, <1>8

(* mv, told the truth and left alone, has all of the source under its new  *)
(* name and nothing under the old one, and changes nothing else, for any   *)
(* tree and any depth of it, where the lines that shells are given fit the *)
(* buffer that cp reads a file into (mv.c:68-105).                         *)
THEOREM MvMovesAll == (Excused /\ LinesFit) => (ShellSpec => []MoveExact)
<1> SUFFICES ASSUME Excused, LinesFit PROVE ShellSpec => []MoveExact
  OBVIOUS
<1>1. ShellInit => MovesInv
  <2> SUFFICES ASSUME ShellInit PROVE MovesInv
    OBVIOUS
  <2>1. \A s \in Shells : sh[s].stack = <<>>
    BY DEF ShellInit
  <2> QED BY <2>1, RemoveBegins DEF MovesInv, CopiesInv, CopyInv, MvInv
<1>2. MovesInv /\ [ShellNext]_vars => MovesInv'
  BY MovesKept
<1>3. MovesInv => MoveExact
  <2> SUFFICES ASSUME MovesInv, NEW s \in Shells, Ending(s, "mv"), Top(s).at = "done"
               PROVE  LET d == sh[s].cwd
                          f == Top(s)
                      IN  /\ tree[d][f.from] = <<>>
                          /\ Len(tree[d][f.to]) = 1
                          /\ Copied(began[s], Head(began[s][d][f.from]), tree, Head(tree[d][f.to]))
                          /\ OthersSame(began[s], tree, d, {f.from, f.to})
    BY DEF MoveExact
  <2> DEFINE p == sh[s]
             b == began[s]
             f == Top(s)
             c == p.cwd
  <2>1. p \in ShellType /\ p.stack # <<>> /\ f.op = "mv" /\ b # None /\ Inner(p) /\ StoreInv
    BY DEF MovesInv, CopiesInv, RemoveInv, IInv, TypesOK, Ending, Busy
  <2>2. Len(p.stack) \in Nat \ {0} /\ f = p.stack[1]
    BY <2>1, StackIs DEF Top
  <2>3. Len(p.stack) = 1
    <3> SUFFICES ASSUME Len(p.stack) # 1 PROVE FALSE
      OBVIOUS
    <3>0. \A k \in Nat \ {0} : k # 1 => 1 \in 1 .. k - 1
      OBVIOUS
    <3>1. 1 \in 1 .. Len(p.stack) - 1
      BY <2>2, <3>0, Zenon
    <3> QED BY <2>1, <2>2, <3>1 DEF Inner, Called
  <2>4. Base(p) = f
    BY <2>2, <2>3 DEF Base
  <2>5. Moved(b, tree, c, f) /\ Cleared(tree, p)
    BY <2>1, <2>4 DEF MovesInv, MvInv
  <2>6. Goal(p) = f.from
    BY <2>1, <2>4 DEF Goal
  <2>7. tree[c][f.from] = <<>>
    BY <2>3, <2>5, <2>6 DEF Cleared, Holds
  <2> HIDE DEF p, b, f, c
  <2>8. /\ Len(tree[c][f.to]) = 1
        /\ Copied(b, Head(b[c][f.from]), tree, Head(tree[c][f.to]))
        /\ OthersSame(b, tree, c, {f.from, f.to})
    BY <2>1, <2>5, MoveEnds
  <2> QED BY <2>7, <2>8 DEF p, b, f, c
<1> QED BY <1>1, <1>2, <1>3, PTL DEF ShellSpec
=============================================================================
