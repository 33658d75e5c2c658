----------------------------- MODULE ShellProofs -----------------------------
(***************************************************************************)
(* Whatever is written to a FileStore and deleted from it, by whomever and *)
(* in whatever order, its directories are a tree.                          *)
(*                                                                         *)
(* For any number of shells and any lines: what rm -r may touch while      *)
(* other shells change the file system between its system calls, and that  *)
(* it removes all that it was asked to when they do not.                   *)
(***************************************************************************)
EXTENDS Shells, TLAPS

StoreInv == StoreTypeOK /\ OneEntry /\ DeadIsEmpty /\ Rooted

(* What it takes to be an entry, and a directory.                          *)
LEMMA EntryIs ==
  ASSUME NEW t, NEW e
  PROVE  e \in Entries(t) <=>
           \E d \in Ids, n \in Names : \E k \in DOMAIN t[d][n] : e = t[d][n][k]
<1>1. ASSUME NEW d, NEW n
      PROVE  e \in EntriesAt(t, d, n) <=> \E k \in DOMAIN t[d][n] : e = t[d][n][k]
  BY DEF EntriesAt
<1>2. ASSUME NEW d
      PROVE  e \in EntriesIn(t, d) <=> \E n \in Names : e \in EntriesAt(t, d, n)
  BY DEF EntriesIn
<1>3. e \in Entries(t) <=> \E d \in Ids : e \in EntriesIn(t, d)
  BY DEF Entries
<1> QED BY <1>1, <1>2, <1>3

LEMMA DirIs ==
  ASSUME NEW t, NEW i
  PROVE  i \in Dirs(t) <=>
           i = RootId \/ \E d \in Ids, n \in Names : \E k \in DOMAIN t[d][n] :
                           t[d][n][k].type = "dir" /\ t[d][n][k].id = i
  BY EntryIs DEF Dirs

LEMMA UsedIs ==
  ASSUME NEW t, NEW i
  PROVE  i \in Used(t) <=>
           i = RootId \/ \E d \in Ids, n \in Names : \E k \in DOMAIN t[d][n] : t[d][n][k].id = i
  BY EntryIs DEF Used

(* The entries of a well-typed tree are entries.                           *)
LEMMA Typed ==
  ASSUME NEW t \in [Ids -> [Names -> Seq(EntryType)]], NEW d \in Ids, NEW n \in Names
  PROVE  /\ DOMAIN t[d][n] = 1 .. Len(t[d][n]) /\ Len(t[d][n]) \in Nat
         /\ \A k \in DOMAIN t[d][n] : t[d][n][k] \in EntryType /\ t[d][n][k].id \in Ids
<1>1. t[d][n] \in Seq(EntryType)
  OBVIOUS
<1>2. \A e \in EntryType : e.id \in Ids
  BY DEF EntryType
<1> HIDE DEF EntryType
<1> QED BY <1>1, <1>2

LEMMA DirsAreIds ==
  ASSUME NEW t \in [Ids -> [Names -> Seq(EntryType)]]
  PROVE  Dirs(t) \subseteq Ids
  BY Typed, DirIs, StoreAssumption

(* A new entry with a number of its own keeps the invariant.               *)
LEMMA Pushed ==
  ASSUME StoreInv, NEW d \in Dirs(tree), NEW n \in Names, NEW e \in EntryType,
         e.id \notin Used(tree), tree' = Push(tree, d, n, e)
  PROVE  StoreInv'
<1> DEFINE s == tree[d][n]
           Type == [Ids -> [Names -> Seq(EntryType)]]
<1>1. tree \in Type /\ d \in Ids
  BY DirsAreIds DEF StoreInv, StoreTypeOK
<1>2. s \in Seq(EntryType) /\ <<e>> \o s \in Seq(EntryType)
  BY <1>1
<1>3. /\ tree' \in Type
      /\ tree'[d][n] = <<e>> \o s
      /\ \A c \in Ids, m \in Names : c # d \/ m # n => tree'[c][m] = tree[c][m]
  BY <1>1, <1>2 DEF Push, With
<1>4. /\ Len(s) \in Nat /\ DOMAIN s = 1 .. Len(s)
      /\ DOMAIN tree'[d][n] = 1 .. Len(s) + 1
      /\ tree'[d][n][1] = e
      /\ \A k \in 1 .. Len(s) : tree'[d][n][k + 1] = s[k]
      /\ \A k \in 2 .. Len(s) + 1 : k - 1 \in 1 .. Len(s) /\ tree'[d][n][k] = s[k - 1]
  BY <1>2, <1>3
(* Where the entries are: the old ones, moved up by one, and the new one.  *)
<1>5. ASSUME NEW c \in Ids, NEW m \in Names, NEW k \in DOMAIN tree[c][m]
      PROVE  \E j \in DOMAIN tree'[c][m] : tree'[c][m][j] = tree[c][m][k]
  <2>1. CASE c = d /\ m = n
    <3>1. k \in 1 .. Len(s) /\ k + 1 \in 1 .. Len(s) + 1
      BY <1>4, <2>1
    <3> QED BY <2>1, <3>1, <1>4
  <2>2. CASE c # d \/ m # n
    BY <2>2, <1>3
  <2> QED BY <2>1, <2>2
<1>6. ASSUME NEW c \in Ids, NEW m \in Names, NEW k \in DOMAIN tree'[c][m]
      PROVE  \/ c = d /\ m = n /\ k = 1 /\ tree'[c][m][k] = e
             \/ \E j \in DOMAIN tree[c][m] : tree'[c][m][k] = tree[c][m][j] /\
                   j = IF c = d /\ m = n THEN k - 1 ELSE k
  <2>1. CASE c = d /\ m = n
    <3>1. k \in 1 .. Len(s) + 1
      BY <1>4, <2>1
    <3>2. CASE k = 1
      BY <2>1, <3>2, <1>4
    <3>3. CASE k # 1
      <4>1. k \in 2 .. Len(s) + 1
        BY <3>1, <3>3, <1>4
      <4> QED BY <4>1, <2>1, <1>4
    <3> QED BY <3>2, <3>3
  <2>2. CASE c # d \/ m # n
    BY <2>2, <1>3
  <2> QED BY <2>1, <2>2
<1>7. 1 \in DOMAIN tree'[d][n]
  BY <1>4
<1>8. \A i : i \in Dirs(tree)' <=> i \in Dirs(tree) \/ (e.type = "dir" /\ i = e.id)
  <2> TAKE i
  <2>1. ASSUME i \in Dirs(tree') PROVE i \in Dirs(tree) \/ (e.type = "dir" /\ i = e.id)
    <3>1. CASE i = RootId
      BY <3>1, DirIs
    <3>2. ASSUME NEW c \in Ids, NEW m \in Names, NEW k \in DOMAIN tree'[c][m],
                 tree'[c][m][k].type = "dir", tree'[c][m][k].id = i
          PROVE  i \in Dirs(tree) \/ (e.type = "dir" /\ i = e.id)
      BY <3>2, <1>6, DirIs
    <3> QED BY <2>1, <3>1, <3>2, DirIs
  <2>2. ASSUME i \in Dirs(tree) PROVE i \in Dirs(tree')
    BY <2>2, <1>5, DirIs
  <2>3. ASSUME e.type = "dir", i = e.id PROVE i \in Dirs(tree')
    BY <2>3, <1>1, <1>4, <1>7, DirIs
  <2> QED BY <2>1, <2>2, <2>3
<1>9. \A c \in Ids, m \in Names : \A k \in DOMAIN tree[c][m] : tree[c][m][k].id # e.id
  BY UsedIs
<1>10. e.id # RootId /\ e.id \notin Dirs(tree) /\ e.id \in Ids
  BY UsedIs, DirIs DEF EntryType
<1> HIDE DEF Type
<1>11. StoreTypeOK'
  BY <1>3 DEF StoreTypeOK, Type
<1>12. OneEntry'
  <2>1. \A x \in Entries(tree') : x.id # RootId
    <3>1. \A c \in Ids, m \in Names : \A k \in DOMAIN tree[c][m] : tree[c][m][k].id # RootId
      BY EntryIs DEF StoreInv, OneEntry
    <3> QED BY <3>1, <1>6, <1>10, EntryIs
  <2>2. ASSUME NEW b \in Ids, NEW c \in Ids, NEW m \in Names, NEW o \in Names,
               NEW j \in DOMAIN tree'[b][m], NEW k \in DOMAIN tree'[c][o],
               tree'[b][m][j].id = tree'[c][o][k].id
        PROVE  b = c /\ m = o /\ j = k
    <3>1. CASE b = d /\ m = n /\ j = 1
      BY <3>1, <2>2, <1>4, <1>6, <1>9, SMTT(30)
    <3>2. CASE c = d /\ o = n /\ k = 1
      BY <3>2, <2>2, <1>4, <1>6, <1>9, SMTT(30)
    <3>3. CASE ~(b = d /\ m = n /\ j = 1) /\ ~(c = d /\ o = n /\ k = 1)
      <4>1. PICK x \in DOMAIN tree[b][m] : /\ tree'[b][m][j] = tree[b][m][x]
                                           /\ x = IF b = d /\ m = n THEN j - 1 ELSE j
        BY <1>6, <3>3
      <4>2. PICK y \in DOMAIN tree[c][o] : /\ tree'[c][o][k] = tree[c][o][y]
                                           /\ y = IF c = d /\ o = n THEN k - 1 ELSE k
        BY <1>6, <3>3
      <4>3. b = c /\ m = o /\ x = y
        BY <4>1, <4>2, <2>2 DEF StoreInv, OneEntry
      <4>4. CASE b = d /\ m = n
        <5>1. j \in Int /\ k \in Int
          BY <4>3, <4>4, <1>4
        <5> QED BY <4>1, <4>2, <4>3, <4>4, <5>1
      <4> QED BY <4>1, <4>2, <4>3, <4>4
    <3> QED BY <3>1, <3>2, <3>3
  <2> QED BY <2>1, <2>2 DEF OneEntry
<1>13. DeadIsEmpty'
  <2>1. ASSUME NEW c \in Ids \ Dirs(tree') PROVE tree'[c] = Nothing
    <3>1. c \notin Dirs(tree) /\ c # d
      BY <2>1, <1>8
    <3>2. tree'[c] = tree[c]
      BY <3>1, <1>1 DEF Push, With, Type
    <3> QED BY <3>1, <3>2 DEF StoreInv, DeadIsEmpty
  <2> QED BY <2>1 DEF DeadIsEmpty
<1>14. Rooted'
  <2>1. ASSUME NEW S \in SUBSET (Dirs(tree') \ {RootId}), S # {}
        PROVE  \E c \in Dirs(tree') \ S, m \in Names : \E k \in DOMAIN tree'[c][m] :
                 tree'[c][m][k].type = "dir" /\ tree'[c][m][k].id \in S
    <3>1. CASE S \cap Dirs(tree) # {}
      <4>1. PICK c \in Dirs(tree) \ (S \cap Dirs(tree)), m \in Names : \E k \in DOMAIN tree[c][m] :
                   tree[c][m][k].type = "dir" /\ tree[c][m][k].id \in S \cap Dirs(tree)
        BY <3>1 DEF StoreInv, Rooted
      <4>2. c \in Dirs(tree') \ S /\ c \in Ids
        BY <1>1, <1>8, DirsAreIds DEF Type
      <4> QED BY <4>1, <4>2, <1>5
    <3>2. CASE S \cap Dirs(tree) = {}
      <4>1. e.type = "dir" /\ e.id \in S /\ d \in Dirs(tree') \ S
        BY <3>2, <2>1, <1>8
      <4> QED BY <4>1, <1>4, <1>7
    <3> QED BY <3>1, <3>2
  <2> QED BY <2>1 DEF Rooted
<1> QED BY <1>11, <1>12, <1>13, <1>14 DEF StoreInv

(* Taking an entry away keeps it, if the entry is a file's or an empty     *)
(* directory's.                                                            *)
LEMMA Popped ==
  ASSUME StoreInv, NEW d \in Dirs(tree), NEW n \in Names, Holds(tree, d, n),
         Head(tree[d][n]).type = "reg" \/ tree[Head(tree[d][n]).id] = Nothing,
         tree' = Pop(tree, d, n)
  PROVE  StoreInv'
<1> DEFINE s == tree[d][n]
           g == Head(s)
           Type == [Ids -> [Names -> Seq(EntryType)]]
<1>1. tree \in Type /\ d \in Ids
  BY DirsAreIds DEF StoreInv, StoreTypeOK
<1>2. s \in Seq(EntryType) /\ s # <<>> /\ Tail(s) \in Seq(EntryType)
  BY <1>1 DEF Holds
<1>3. /\ tree' \in Type
      /\ tree'[d][n] = Tail(s)
      /\ \A c \in Ids, m \in Names : c # d \/ m # n => tree'[c][m] = tree[c][m]
  BY <1>1, <1>2 DEF Pop, With
<1>4. /\ Len(s) \in Nat \ {0} /\ DOMAIN s = 1 .. Len(s) /\ s[1] = g
      /\ DOMAIN tree'[d][n] = 1 .. Len(s) - 1
      /\ \A k \in 1 .. Len(s) - 1 : k + 1 \in 1 .. Len(s) /\ tree'[d][n][k] = s[k + 1]
      /\ \A k \in 2 .. Len(s) : k - 1 \in 1 .. Len(s) - 1 /\ tree'[d][n][k - 1] = s[k]
  BY <1>2, <1>3
(* Where the entries are: g is gone and those behind it moved down by one. *)
<1>5. ASSUME NEW c \in Ids, NEW m \in Names, NEW k \in DOMAIN tree'[c][m]
      PROVE  \E j \in DOMAIN tree[c][m] : tree'[c][m][k] = tree[c][m][j] /\
               j = IF c = d /\ m = n THEN k + 1 ELSE k
  <2>1. CASE c = d /\ m = n
    <3>1. k \in 1 .. Len(s) - 1
      BY <1>4, <2>1
    <3> QED BY <2>1, <3>1, <1>4
  <2>2. CASE c # d \/ m # n
    BY <2>2, <1>3
  <2> QED BY <2>1, <2>2
<1>6. ASSUME NEW c \in Ids, NEW m \in Names, NEW k \in DOMAIN tree[c][m],
             ~(c = d /\ m = n /\ k = 1)
      PROVE  \E j \in DOMAIN tree'[c][m] : tree'[c][m][j] = tree[c][m][k]
  <2>1. CASE c = d /\ m = n
    <3>1. k \in 2 .. Len(s)
      BY <1>4, <1>6, <2>1
    <3> QED BY <2>1, <3>1, <1>4
  <2>2. CASE c # d \/ m # n
    BY <2>2, <1>3
  <2> QED BY <2>1, <2>2
<1>7. 1 \in DOMAIN tree[d][n] /\ tree[d][n][1] = g
  BY <1>4
<1>8. g.id # RootId /\ g.id \in Ids
  BY <1>1, <1>7, EntryIs, Typed DEF StoreInv, OneEntry, Type
<1>9. \A c \in Ids, m \in Names : \A k \in DOMAIN tree[c][m] :
        tree[c][m][k].id = g.id => c = d /\ m = n /\ k = 1
  BY <1>1, <1>7 DEF StoreInv, OneEntry
<1>10. \A i : i \in Dirs(tree') <=> i \in Dirs(tree) /\ i # g.id
  <2> TAKE i
  <2>1. ASSUME i \in Dirs(tree') PROVE i \in Dirs(tree) /\ i # g.id
    <3>1. CASE i = RootId
      BY <3>1, <1>8, DirIs
    <3>2. ASSUME NEW c \in Ids, NEW m \in Names, NEW k \in DOMAIN tree'[c][m],
                 tree'[c][m][k].type = "dir", tree'[c][m][k].id = i
          PROVE  i \in Dirs(tree) /\ i # g.id
      <4>1. PICK j \in DOMAIN tree[c][m] : /\ tree'[c][m][k] = tree[c][m][j]
                                           /\ j = IF c = d /\ m = n THEN k + 1 ELSE k
        BY <1>5
      <4>2. i \in Dirs(tree)
        BY <3>2, <4>1, DirIs
      <4>3. i # g.id
        <5>1. CASE c = d /\ m = n
          <6>1. k \in 1 .. Len(s) - 1
            BY <5>1, <1>4
          <6>2. j # 1
            BY <6>1, <5>1, <4>1, <1>4
          <6> QED BY <6>2, <4>1, <3>2, <1>9
        <5>2. CASE c # d \/ m # n
          BY <5>2, <4>1, <3>2, <1>9
        <5> QED BY <5>1, <5>2
      <4> QED BY <4>2, <4>3
    <3> QED BY <2>1, <3>1, <3>2, DirIs
  <2>2. ASSUME i \in Dirs(tree), i # g.id PROVE i \in Dirs(tree')
    <3>1. CASE i = RootId
      BY <3>1, DirIs
    <3>2. ASSUME NEW c \in Ids, NEW m \in Names, NEW k \in DOMAIN tree[c][m],
                 tree[c][m][k].type = "dir", tree[c][m][k].id = i
          PROVE  i \in Dirs(tree')
      <4>1. ~(c = d /\ m = n /\ k = 1)
        BY <1>7, <2>2, <3>2
      <4>2. PICK j \in DOMAIN tree'[c][m] : tree'[c][m][j] = tree[c][m][k]
        BY <4>1, <1>6
      <4> QED BY <4>2, <3>2, DirIs
    <3> QED BY <2>2, <3>1, <3>2, DirIs
  <2> QED BY <2>1, <2>2
(* g was a file, or a directory without entries: not d.                    *)
<1>11. g.id \notin Dirs(tree) \/ tree[g.id] = Nothing
  <2>1. ASSUME g.type = "reg" PROVE g.id \notin Dirs(tree)
    BY <2>1, <1>7, <1>8, <1>9, DirIs
  <2> QED BY <2>1
<1>12. tree[g.id] = Nothing => g.id # d
  BY DEF Nothing, Holds
<1>13. d \in Dirs(tree')
  BY <1>10, <1>11, <1>12
<1> HIDE DEF Type
<1>14. StoreTypeOK'
  BY <1>3 DEF StoreTypeOK, Type
<1>15. OneEntry'
  <2>1. \A x \in Entries(tree') : x.id # RootId
    <3>1. \A c \in Ids, m \in Names : \A k \in DOMAIN tree[c][m] : tree[c][m][k].id # RootId
      BY EntryIs DEF StoreInv, OneEntry
    <3> QED BY <3>1, <1>5, EntryIs
  <2>2. ASSUME NEW b \in Ids, NEW c \in Ids, NEW m \in Names, NEW o \in Names,
               NEW j \in DOMAIN tree'[b][m], NEW k \in DOMAIN tree'[c][o],
               tree'[b][m][j].id = tree'[c][o][k].id
        PROVE  b = c /\ m = o /\ j = k
    <3>1. PICK x \in DOMAIN tree[b][m] : /\ tree'[b][m][j] = tree[b][m][x]
                                         /\ x = IF b = d /\ m = n THEN j + 1 ELSE j
      BY <1>5
    <3>2. PICK y \in DOMAIN tree[c][o] : /\ tree'[c][o][k] = tree[c][o][y]
                                         /\ y = IF c = d /\ o = n THEN k + 1 ELSE k
      BY <1>5
    <3>3. b = c /\ m = o /\ x = y
      BY <3>1, <3>2, <2>2 DEF StoreInv, OneEntry
    <3>4. CASE b = d /\ m = n
      <4>1. j \in Int /\ k \in Int
        BY <3>3, <3>4, <1>4
      <4> QED BY <3>1, <3>2, <3>3, <3>4, <4>1
    <3> QED BY <3>1, <3>2, <3>3, <3>4
  <2> QED BY <2>1, <2>2 DEF OneEntry
<1>16. DeadIsEmpty'
  <2>1. ASSUME NEW c \in Ids \ Dirs(tree') PROVE tree'[c] = Nothing
    <3>1. c # d
      BY <1>13, <2>1
    <3>2. tree'[c] = tree[c]
      BY <3>1, <1>1 DEF Pop, With, Type
    <3>3. c \in Dirs(tree) => c = g.id
      BY <2>1, <1>10
    <3> QED BY <3>2, <3>3, <1>11 DEF StoreInv, DeadIsEmpty
  <2> QED BY <2>1 DEF DeadIsEmpty
<1>17. Rooted'
  <2>1. ASSUME NEW S \in SUBSET (Dirs(tree') \ {RootId}), S # {}
        PROVE  \E c \in Dirs(tree') \ S, m \in Names : \E k \in DOMAIN tree'[c][m] :
                 tree'[c][m][k].type = "dir" /\ tree'[c][m][k].id \in S
    <3>1. S \in SUBSET (Dirs(tree) \ {RootId})
      BY <2>1, <1>10
    <3>2. PICK c \in Dirs(tree) \ S, m \in Names : \E k \in DOMAIN tree[c][m] :
                 tree[c][m][k].type = "dir" /\ tree[c][m][k].id \in S
      BY <2>1, <3>1 DEF StoreInv, Rooted
    <3>3. PICK k \in DOMAIN tree[c][m] : tree[c][m][k].type = "dir" /\ tree[c][m][k].id \in S
      BY <3>2
    <3>4. ~(c = d /\ m = n /\ k = 1)
      BY <3>3, <2>1, <1>7, <1>10
    <3>5. c \in Ids /\ tree[c] # Nothing
      <4>1. c \in Ids
        BY <1>1, DirsAreIds DEF Type
      <4>2. tree[c][m] # <<>>
        BY <4>1, <1>1, <3>3, Typed DEF Type
      <4> QED BY <4>1, <4>2 DEF Nothing
    <3>6. c \in Dirs(tree')
      BY <3>2, <3>5, <1>10, <1>11
    <3> QED BY <3>2, <3>3, <3>4, <3>5, <3>6, <1>6
  <2> QED BY <2>1 DEF Rooted
<1> QED BY <1>14, <1>15, <1>16, <1>17 DEF StoreInv

LEMMA Kept ==
  ASSUME StoreInv, tree' = tree
  PROVE  StoreInv'
<1>1. StoreTypeOK'
  BY DEF StoreInv, StoreTypeOK
<1>2. OneEntry'
  BY DEF StoreInv, OneEntry
<1>3. DeadIsEmpty'
  BY DEF StoreInv, DeadIsEmpty
<1>4. Rooted'
  BY DEF StoreInv, Rooted
<1> QED BY <1>1, <1>2, <1>3, <1>4 DEF StoreInv

LEMMA Written ==
  ASSUME StoreInv, NEW d \in Ids, NEW n \in Names, NEW type \in {"reg", "dir"},
         NEW data \in Seq(Cells), NEW o \in WriteOutcomes(tree, d, n, type, data), tree' = o.tree
  PROVE  StoreInv'
<1>1. CASE o \in Stored(tree, d, n, type, data) /\ d \in Dirs(tree)
  <2>1. PICK i \in Ids \ Used(tree), q \in CutShort(data) :
               o = Outcome(Push(tree, d, n, EntryOf(type, i, Len(data), q)), 0)
    BY <1>1 DEF Stored
  <2>2. q \in Seq(Cells)
    BY DEF CutShort
  <2> DEFINE e == EntryOf(type, i, Len(data), q)
  <2>3. e \in EntryType /\ e.id \notin Used(tree)
    BY <2>2 DEF EntryOf, EntryType
  <2>4. tree' = Push(tree, d, n, e)
    BY <2>1 DEF Outcome
  <2> HIDE DEF e
  <2> QED BY <1>1, <2>3, <2>4, Pushed
<1>2. CASE ~(o \in Stored(tree, d, n, type, data) /\ d \in Dirs(tree))
  <2>1. tree' = tree
    BY <1>2 DEF WriteOutcomes, Outcome
  <2> QED BY <2>1, Kept
<1> QED BY <1>1, <1>2

LEMMA Deleted ==
  ASSUME StoreInv, NEW d \in Ids, NEW n \in Names, NEW type \in {"reg", "dir"},
         NEW o \in DeleteOutcomes(tree, d, n, type), tree' = o.tree
  PROVE  StoreInv'
<1>1. CASE tree' = tree
  BY <1>1, Kept
<1>2. CASE tree' # tree
  <2>1. /\ d \in Dirs(tree) /\ Holds(tree, d, n) /\ tree' = Pop(tree, d, n)
        /\ Head(tree[d][n]).type = "reg" \/ tree[Head(tree[d][n]).id] = Nothing
    BY <1>2 DEF DeleteOutcomes, Outcome
  <2> QED BY <2>1, Popped
<1> QED BY <1>1, <1>2

LEMMA StoreStep ==
  ASSUME StoreInv, [StoreNext]_tree
  PROVE  StoreInv'
<1>1. ASSUME NEW d \in Ids, NEW n \in Names, NEW o \in Calls(tree, d, n), tree' = o.tree
      PROVE  StoreInv'
  <2>1. CASE o \in WriteOutcomes(tree, d, n, "dir", <<>>)
    <3>1. <<>> \in Seq(Cells)
      OBVIOUS
    <3> QED BY <1>1, <2>1, <3>1, Written
  <2>2. ASSUME NEW data \in Contents, o \in WriteOutcomes(tree, d, n, "reg", data)
        PROVE  StoreInv'
    BY <1>1, <2>2, Written, StoreAssumption
  <2>3. ASSUME NEW type \in {"reg", "dir"}, o \in DeleteOutcomes(tree, d, n, type)
        PROVE  StoreInv'
    BY <1>1, <2>3, Deleted
  <2> QED BY <2>1, <2>2, <2>3 DEF Calls
<1>2. CASE UNCHANGED tree
  BY <1>2, Kept
<1> QED BY <1>1, <1>2 DEF StoreNext

LEMMA EmptyStore ==
  ASSUME StoreInit
  PROVE  StoreInv
<1>1. \A d \in Ids, n \in Names : tree[d][n] = <<>> /\ tree[d] = Nothing
  BY DEF StoreInit, Nothing
<1>2. StoreTypeOK
  BY DEF StoreInit, StoreTypeOK, Nothing
<1>3. \A d \in Ids, n \in Names : DOMAIN tree[d][n] = {}
  BY <1>1, <1>2, Typed DEF StoreTypeOK
<1>4. Dirs(tree) = {RootId}
  BY <1>3, DirIs
<1>5. OneEntry
  BY <1>3, EntryIs DEF OneEntry
<1>6. DeadIsEmpty
  BY <1>1 DEF StoreInit, DeadIsEmpty
<1>7. \A S \in SUBSET (Dirs(tree) \ {RootId}) : S = {}
  BY <1>4
<1>8. Rooted
  BY <1>7 DEF Rooted
<1> QED BY <1>2, <1>5, <1>6, <1>8 DEF StoreInv

(* Every tree that calls make has its types, one entry for each number,    *)
(* nothing under a number that is free, and every directory below the root *)
(* (ext2.c:515-806).                                                       *)
THEOREM StoreSafe == StoreSpec => [](StoreTypeOK /\ OneEntry /\ DeadIsEmpty /\ Rooted)
<1>1. StoreInit => StoreInv
  BY EmptyStore
<1>2. StoreInv /\ [StoreNext]_tree => StoreInv'
  BY StoreStep
<1> QED BY <1>1, <1>2, PTL DEF StoreSpec, StoreInv

-----------------------------------------------------------------------------
Inodes == Ids \cup {None}
Todo   == [name : Names, nth : Nat, type : {"reg", "dir"}]

(* What the buffer of copy_file may hold.                                  *)
Buffers == {q \in Seq(Cells) : Len(q) <= Room}

FileFrames   == [op : {"file"}, at : {"read", "write"}, sd : Inodes, sn : Names,
                 dd : Inodes, dn : Names, data : Buffers]
CopyFrames   == [op : {"copy"}, at : {"mkdir", "src", "dst", "list", "each"},
                 sd : Inodes, sn : Names, dd : Inodes, dn : Names,
                 src : Inodes, dst : Inodes, todo : SUBSET Todo]
RemoveFrames == [op : {"remove"}, at : {"file", "find", "list", "each", "dir"},
                 d : Inodes, n : Names, ino : Inodes, todo : SUBSET Todo]
RmFrames     == [op : {"rm"}, at : {"file", "dir"}, n : Names]
RmrFrames    == [op : {"rmr"}, n : Names]
CpFrames     == [op : {"cp"}, at : {"source", "kind", "copied"}, rec : BOOLEAN,
                 from : Names, to : Names, src : Inodes]
MvFrames     == [op : {"mv"}, at : {"source", "dest", "kind", "copied", "delete", "done"},
                 from : Names, to : Names, src : Inodes, dir : BOOLEAN]
CdFrames     == [op : {"cd"}, path : Seq(Names \cup {".."}), target : Ids]

FrameType == FileFrames \cup CopyFrames \cup RemoveFrames \cup RmFrames \cup RmrFrames
               \cup CpFrames \cup MvFrames \cup CdFrames

ShellType == [cwd : Ids, stack : Seq(FrameType), result : Int]

(* The frame of the command, at the bottom of the stack.                   *)
Base(p) == p.stack[Len(p.stack)]

(* No line that is typed is longer than the buffer of copy_file: a line    *)
(* has at most 1000 characters (user-shell.c:13), the buffer has 16 blocks *)
(* of 512 bytes (cp.c:11).                                                 *)
LinesFit == \A s \in Shells : \A l \in Lines[s] : l[1] = "echo" => Len(l[3]) <= Room

(* An entry's data are no longer than its size, which fits that buffer.    *)
Fits(e) == Len(e.data) <= e.size /\ (LinesFit => e.size <= Room)
Sized   == \A d \in Ids, n \in Names : \A k \in DOMAIN tree[d][n] : Fits(tree[d][n][k])

TypesOK ==
  /\ StoreInv
  /\ Sized
  /\ sh \in [Shells -> ShellType]
  /\ scope \in [Shells -> SUBSET Ids]

(* The name that rm -r was given, or the one that mv moves.                *)
Goal(p) == IF Base(p).op = "mv" THEN Base(p).from ELSE Base(p).n

(* A frame of remove_recursive works on the name that is to go or on a     *)
(* directory in the scope S.  The inode it has found is a directory of the *)
(* scope or, until it is listed, no directory at all.                      *)
RemovesIn(t, p, S, f) ==
  /\ f.op = "remove"
  /\ f.d \in S \/ (f.d = p.cwd /\ f.n = Goal(p))
  /\ f.at = "list" => f.ino \in S \/ f.ino \notin Dirs(t)
  /\ f.at \in {"each", "dir"} => f.ino \in S

(* The scope holds all directories under the name, and every frame of the  *)
(* recursion stays in it.                                                  *)
Erasing(t, p, S) ==
  /\ Closed(t, S)
  /\ Named(t, p.cwd, Goal(p)) \subseteq S
  /\ \A k \in 1 .. Len(p.stack) - 1 : RemovesIn(t, p, S, p.stack[k])

RmInv(t, p, S) == (p.stack # <<>> /\ Base(p).op = "rmr") => Erasing(t, p, S)

IInv == TypesOK /\ \A s \in Shells : RmInv(tree, sh[s], scope[s])

-----------------------------------------------------------------------------
(* A frame is told by its op.                                              *)
LEMMA FrameKinds ==
  ASSUME NEW f \in FrameType
  PROVE  /\ f.op = "file"   => f \in FileFrames
         /\ f.op = "copy"   => f \in CopyFrames
         /\ f.op = "remove" => f \in RemoveFrames
         /\ f.op = "rm"     => f \in RmFrames
         /\ f.op = "rmr"    => f \in RmrFrames
         /\ f.op = "cp"     => f \in CpFrames
         /\ f.op = "mv"     => f \in MvFrames
         /\ f.op = "cd"     => f \in CdFrames
<1>1. /\ f \in FileFrames => f.op = "file"
      /\ f \in CopyFrames => f.op = "copy"
      /\ f \in RemoveFrames => f.op = "remove"
      /\ f \in RmFrames => f.op = "rm"
  BY DEF FileFrames, CopyFrames, RemoveFrames, RmFrames
<1>2. /\ f \in RmrFrames => f.op = "rmr"
      /\ f \in CpFrames => f.op = "cp"
      /\ f \in MvFrames => f.op = "mv"
      /\ f \in CdFrames => f.op = "cd"
  BY DEF RmrFrames, CpFrames, MvFrames, CdFrames
<1> QED BY <1>1, <1>2 DEF FrameType

(* The stack of a busy shell.                                              *)
LEMMA StackIs ==
  ASSUME NEW p \in ShellType, p.stack # <<>>
  PROVE  /\ Len(p.stack) \in Nat \ {0}
         /\ Head(p.stack) \in FrameType /\ Head(p.stack) = p.stack[1]
         /\ \A k \in 1 .. Len(p.stack) : p.stack[k] \in FrameType
         /\ Base(p) \in FrameType
<1>1. p.stack \in Seq(FrameType)
  BY DEF ShellType
<1> HIDE DEF FrameType
<1> QED BY <1>1 DEF Base

LEMMA AtStack ==
  ASSUME NEW p \in ShellType, p.stack # <<>>, NEW f \in FrameType, f.op = Head(p.stack).op
  PROVE  LET x == At(p, f)
         IN  /\ x \in ShellType /\ x.cwd = p.cwd
             /\ Len(x.stack) = Len(p.stack) /\ x.stack[1] = f
             /\ \A k \in 2 .. Len(p.stack) : x.stack[k] = p.stack[k]
             /\ x.stack # <<>> /\ Base(x).op = Base(p).op
             /\ Len(p.stack) > 1 => Base(x) = Base(p)
<1> DEFINE st == <<f>> \o Tail(p.stack)
           x  == At(p, f)
<1>1. p.stack \in Seq(FrameType) /\ p.cwd \in Ids /\ p.result \in Int
  BY DEF ShellType
<1>2. /\ st \in Seq(FrameType) /\ Len(st) = Len(p.stack) /\ st[1] = f
      /\ \A k \in 2 .. Len(p.stack) : st[k] = p.stack[k]
      /\ st # <<>> /\ Len(p.stack) \in Nat \ {0} /\ Head(p.stack) = p.stack[1]
  <2> HIDE DEF FrameType
  <2> QED BY <1>1
<1>3. x = [p EXCEPT !.stack = st]
  BY DEF At
<1> HIDE DEF st, x
<1>4. x \in ShellType /\ x.cwd = p.cwd /\ x.stack = st
  BY <1>2, <1>3 DEF ShellType
<1> QED BY <1>2, <1>4 DEF Base, x

LEMMA IntoStack ==
  ASSUME NEW p \in ShellType, p.stack # <<>>, NEW f \in FrameType, f.op = Head(p.stack).op,
         NEW g \in FrameType
  PROVE  LET x == Into(p, f, g)
         IN  /\ x \in ShellType /\ x.cwd = p.cwd
             /\ Len(x.stack) = Len(p.stack) + 1 /\ x.stack[1] = g /\ x.stack[2] = f
             /\ \A k \in 2 .. Len(p.stack) : x.stack[k + 1] = p.stack[k]
             /\ x.stack # <<>> /\ Base(x).op = Base(p).op
             /\ Len(p.stack) > 1 => Base(x) = Base(p)
<1> DEFINE st == <<g, f>> \o Tail(p.stack)
           x  == Into(p, f, g)
<1>1. p.stack \in Seq(FrameType) /\ p.cwd \in Ids /\ p.result \in Int
  BY DEF ShellType
<1>2. /\ st \in Seq(FrameType) /\ Len(st) = Len(p.stack) + 1 /\ st[1] = g /\ st[2] = f
      /\ \A k \in 2 .. Len(p.stack) : st[k + 1] = p.stack[k]
      /\ st # <<>> /\ Len(p.stack) \in Nat \ {0} /\ Head(p.stack) = p.stack[1]
  <2> HIDE DEF FrameType
  <2> QED BY <1>1
<1>3. x = [p EXCEPT !.stack = st]
  BY DEF Into
<1> HIDE DEF st, x
<1>4. x \in ShellType /\ x.cwd = p.cwd /\ x.stack = st
  BY <1>2, <1>3 DEF ShellType
<1> QED BY <1>2, <1>4 DEF Base, x

LEMMA BackStack ==
  ASSUME NEW p \in ShellType, p.stack # <<>>, NEW r \in Int
  PROVE  LET x == Back(p, r)
         IN  /\ x \in ShellType /\ x.cwd = p.cwd
             /\ Len(x.stack) = Len(p.stack) - 1
             /\ \A k \in 1 .. Len(p.stack) - 1 : x.stack[k] = p.stack[k + 1]
             /\ x.stack # <<>> <=> Len(p.stack) > 1
             /\ x.stack # <<>> => Base(x) = Base(p)
<1> DEFINE st == Tail(p.stack)
           n  == IF Len(p.stack) = 1 THEN 0 ELSE r
           x  == Back(p, r)
<1>1. p.stack \in Seq(FrameType) /\ p.cwd \in Ids /\ p.result \in Int
  BY DEF ShellType
<1>2. /\ st \in Seq(FrameType) /\ Len(st) = Len(p.stack) - 1 /\ Len(p.stack) \in Nat \ {0}
      /\ \A k \in 1 .. Len(p.stack) - 1 : st[k] = p.stack[k + 1]
      /\ st # <<>> <=> Len(p.stack) > 1
  <2> HIDE DEF FrameType
  <2>1. st \in Seq(FrameType) /\ Len(st) = Len(p.stack) - 1 /\ Len(p.stack) \in Nat \ {0}
    BY <1>1
  <2>2. \A k \in 1 .. Len(p.stack) - 1 : st[k] = p.stack[k + 1]
    BY <1>1
  <2>3. \A q \in Seq(FrameType) : q # <<>> <=> Len(q) > 0
    OBVIOUS
  <2> HIDE DEF st
  <2> QED BY <2>1, <2>2, <2>3
<1>3. x = [p EXCEPT !.stack = st, !.result = n]
  BY DEF Back
<1>4. n \in Int
  OBVIOUS
<1> HIDE DEF st, n, x
<1>5. x \in ShellType /\ x.cwd = p.cwd /\ x.stack = st
  BY <1>2, <1>3, <1>4 DEF ShellType
<1> QED BY <1>2, <1>5 DEF Base, x

-----------------------------------------------------------------------------
(* What a system call may do to the tree: nothing, an entry more with a    *)
(* number nobody has, or the first entry of a name less.                   *)
TreeStep ==
  \/ tree' = tree
  \/ \E d \in Dirs(tree), n \in Names :
       \/ \E e \in EntryType : e.id \notin Used(tree) /\ Fits(e) /\ tree' = Push(tree, d, n, e)
       \/ /\ Holds(tree, d, n)
          /\ Head(tree[d][n]).type = "reg" \/ tree[Head(tree[d][n]).id] = Nothing
          /\ tree' = Pop(tree, d, n)

LEMMA TreeStepInv ==
  ASSUME StoreInv, TreeStep
  PROVE  StoreInv'
BY Kept, Pushed, Popped DEF TreeStep

LEMMA TreeStepSized ==
  ASSUME StoreInv, Sized, TreeStep
  PROVE  Sized'
<1>0. tree \in [Ids -> [Names -> Seq(EntryType)]] /\ Dirs(tree) \subseteq Ids
  BY DirsAreIds DEF StoreInv, StoreTypeOK
<1>1. CASE tree' = tree
  BY <1>1 DEF Sized, Fits
<1> SUFFICES ASSUME NEW d \in Dirs(tree), NEW n \in Names, NEW c \in Ids, NEW m \in Names,
                    NEW st \in Seq(EntryType), tree' = With(tree, d, n, st),
                    \A k \in DOMAIN st : Fits(st[k])
             PROVE  \A k \in DOMAIN tree'[c][m] : Fits(tree'[c][m][k])
  <2> SUFFICES ASSUME NEW d \in Dirs(tree), NEW n \in Names,
                      \/ \E e \in EntryType : Fits(e) /\ tree' = Push(tree, d, n, e)
                      \/ Holds(tree, d, n) /\ tree' = Pop(tree, d, n)
               PROVE  \E st \in Seq(EntryType) :
                        tree' = With(tree, d, n, st) /\ \A k \in DOMAIN st : Fits(st[k])
    BY <1>1 DEF TreeStep, Sized, Fits
  <2> DEFINE q == tree[d][n]
  <2>1. q \in Seq(EntryType) /\ \A k \in DOMAIN q : Fits(q[k])
    BY <1>0 DEF Sized
  <2>2. ASSUME NEW e \in EntryType, Fits(e), tree' = Push(tree, d, n, e)
        PROVE  \E st \in Seq(EntryType) :
                 tree' = With(tree, d, n, st) /\ \A k \in DOMAIN st : Fits(st[k])
    <3> DEFINE st == <<e>> \o q
    <3>1. tree' = With(tree, d, n, st)
      BY <2>2 DEF Push
    <3> HIDE DEF q
    <3>2. /\ st \in Seq(EntryType)
          /\ \A k \in DOMAIN st : st[k] = e \/ \E j \in DOMAIN q : st[k] = q[j]
      <4>1. st \in Seq(EntryType) /\ st[1] = e /\ DOMAIN st = 1 .. Len(q) + 1 /\ Len(q) \in Nat
            /\ DOMAIN q = 1 .. Len(q) /\ \A k \in 2 .. Len(q) + 1 : st[k] = q[k - 1]
        BY <2>1
      <4>2. \A k \in DOMAIN st : k = 1 \/ (k \in 2 .. Len(q) + 1 /\ k - 1 \in DOMAIN q)
        BY <4>1
      <4> HIDE DEF st
      <4> QED BY <4>1, <4>2
    <3> HIDE DEF st
    <3>3. \A k \in DOMAIN st : Fits(st[k])
      BY <2>1, <2>2, <3>2
    <3> QED BY <3>1, <3>2, <3>3
  <2>3. ASSUME Holds(tree, d, n), tree' = Pop(tree, d, n)
        PROVE  \E st \in Seq(EntryType) :
                 tree' = With(tree, d, n, st) /\ \A k \in DOMAIN st : Fits(st[k])
    <3> DEFINE st == Tail(q)
    <3>1. tree' = With(tree, d, n, st) /\ q # <<>>
      BY <2>3 DEF Pop, Holds
    <3> HIDE DEF q
    <3>2. /\ st \in Seq(EntryType)
          /\ \A k \in DOMAIN st : k + 1 \in DOMAIN q /\ st[k] = q[k + 1]
      BY <2>1, <3>1
    <3> HIDE DEF st
    <3> QED BY <2>1, <3>1, <3>2
  <2> QED BY <2>2, <2>3
<1>2. CASE c = d /\ m = n
  BY <1>0, <1>2 DEF With
<1>3. CASE c # d \/ m # n
  <2>1. tree'[c][m] = tree[c][m]
    BY <1>0, <1>3 DEF With
  <2> QED BY <2>1 DEF Sized
<1> QED BY <1>2, <1>3

LEMMA WriteIsStep ==
  ASSUME StoreInv, NEW d, NEW n \in Names, NEW type \in {"reg", "dir"},
         NEW data \in Seq(Cells), LinesFit => Len(data) <= Room, NEW o \in WriteOutcomes(tree, d, n, type, data), tree' = o.tree
  PROVE  TreeStep
<1>1. CASE o \in Stored(tree, d, n, type, data) /\ d \in Dirs(tree)
  <2>1. PICK i \in Ids \ Used(tree), q \in CutShort(data) :
               o = Outcome(Push(tree, d, n, EntryOf(type, i, Len(data), q)), 0)
    BY <1>1 DEF Stored
  <2>2. q \in Seq(Cells)
    BY DEF CutShort
  <2> DEFINE e == EntryOf(type, i, Len(data), q)
  <2>3. e \in EntryType /\ e.id \notin Used(tree) /\ Fits(e)
    <3>1. Len(data) \in Nat /\ Len(q) <= Len(data)
      BY DEF CutShort
    <3> QED BY <2>2, <3>1 DEF EntryOf, EntryType, Fits
  <2>4. tree' = Push(tree, d, n, e)
    BY <2>1 DEF Outcome
  <2> HIDE DEF e
  <2> QED BY <1>1, <2>3, <2>4 DEF TreeStep
<1>2. CASE ~(o \in Stored(tree, d, n, type, data) /\ d \in Dirs(tree))
  <2>1. tree' = tree
    BY <1>2 DEF WriteOutcomes, Outcome
  <2> QED BY <2>1 DEF TreeStep
<1> QED BY <1>1, <1>2

LEMMA DeleteIsStep ==
  ASSUME StoreInv, NEW d, NEW n \in Names, NEW type \in {"reg", "dir"},
         NEW o \in DeleteOutcomes(tree, d, n, type), tree' = o.tree
  PROVE  /\ TreeStep
         /\ \A c \in Ids, m \in Names : tree'[c][m] # tree[c][m] => c = d /\ m = n
<1>1. CASE tree' = tree
  BY <1>1 DEF TreeStep
<1>2. CASE tree' # tree
  <2>1. /\ d \in Dirs(tree) /\ Holds(tree, d, n) /\ tree' = Pop(tree, d, n)
        /\ Head(tree[d][n]).type = "reg" \/ tree[Head(tree[d][n]).id] = Nothing
    BY <1>2 DEF DeleteOutcomes, Outcome
  <2>2. tree \in [Ids -> [Names -> Seq(EntryType)]] /\ d \in Ids
    BY <2>1, DirsAreIds DEF StoreInv, StoreTypeOK
  <2>3. \A c \in Ids, m \in Names : c # d \/ m # n => tree'[c][m] = tree[c][m]
    BY <2>1, <2>2 DEF Pop, With
  <2> QED BY <2>1, <2>3 DEF TreeStep
<1> QED BY <1>1, <1>2

LEMMA NamedIs ==
  ASSUME NEW t, NEW d, NEW n, NEW i
  PROVE  i \in Named(t, d, n) <=>
           \E k \in DOMAIN t[d][n] : t[d][n][k].type = "dir" /\ t[d][n][k].id = i
BY DEF Named, EntriesAt

(* Unless a directory comes in, no name stands for more directories.       *)
LEMMA NamedShrinks ==
  ASSUME StoreInv, TreeStep, Dirs(tree') \subseteq Dirs(tree), NEW c \in Ids, NEW m \in Names
  PROVE  Named(tree', c, m) \subseteq Named(tree, c, m)
<1> DEFINE Type == [Ids -> [Names -> Seq(EntryType)]]
<1>0. tree \in Type
  BY DEF StoreInv, StoreTypeOK
<1>1. CASE tree' = tree
  BY <1>1
<1>2. ASSUME NEW d \in Dirs(tree), NEW n \in Names, NEW e \in EntryType,
             e.id \notin Used(tree), tree' = Push(tree, d, n, e)
      PROVE  Named(tree', c, m) \subseteq Named(tree, c, m)
  <2> DEFINE s == tree[d][n]
  <2>0. d \in Ids
    BY <1>0, DirsAreIds
  <2>1. d \in Ids /\ s \in Seq(EntryType) /\ <<e>> \o s \in Seq(EntryType)
    BY <1>0, <2>0
  <2>2. /\ tree'[d][n] = <<e>> \o s
        /\ (c # d \/ m # n => tree'[c][m] = tree[c][m])
    BY <1>0, <1>2, <2>1 DEF Push, With
  <2>3. /\ DOMAIN s = 1 .. Len(s) /\ Len(s) \in Nat
        /\ DOMAIN tree'[d][n] = 1 .. Len(s) + 1
        /\ tree'[d][n][1] = e
        /\ \A k \in 2 .. Len(s) + 1 : k - 1 \in 1 .. Len(s) /\ tree'[d][n][k] = s[k - 1]
    BY <2>1, <2>2
  <2>4. e.type # "dir"
    <3> SUFFICES ASSUME e.type = "dir" PROVE FALSE
      OBVIOUS
    <3>1. 1 \in DOMAIN tree'[d][n]
      BY <2>3
    <3>2. e.id \in Dirs(tree')
      BY <2>1, <2>3, <3>1, DirIs
    <3>3. e.id \in Dirs(tree)
      BY <3>2
    <3> QED BY <1>2, <3>3, DirIs, UsedIs
  <2>5. CASE c = d /\ m = n
    <3>1. ASSUME NEW k \in DOMAIN tree'[d][n], tree'[d][n][k].type = "dir"
          PROVE  \E j \in DOMAIN s : tree'[d][n][k] = s[j]
      <4>1. k \in 2 .. Len(s) + 1
        BY <2>3, <2>4, <3>1
      <4> QED BY <2>3, <4>1
    <3> HIDE DEF s
    <3> QED BY <2>5, <3>1, NamedIs DEF s
  <2> QED BY <2>2, <2>5, NamedIs
<1>3. ASSUME NEW d \in Dirs(tree), NEW n \in Names, Holds(tree, d, n), tree' = Pop(tree, d, n)
      PROVE  Named(tree', c, m) \subseteq Named(tree, c, m)
  <2> DEFINE s == tree[d][n]
  <2>0. d \in Ids
    BY <1>0, DirsAreIds
  <2>1. d \in Ids /\ s \in Seq(EntryType) /\ s # <<>> /\ Tail(s) \in Seq(EntryType)
    BY <1>0, <1>3, <2>0 DEF Holds
  <2>2. /\ tree'[d][n] = Tail(s)
        /\ (c # d \/ m # n => tree'[c][m] = tree[c][m])
    BY <1>0, <1>3, <2>1 DEF Pop, With
  <2>3. \A k \in DOMAIN tree'[d][n] : k + 1 \in DOMAIN s /\ tree'[d][n][k] = s[k + 1]
    BY <2>1, <2>2
  <2>4. CASE c = d /\ m = n
    BY <2>3, <2>4, NamedIs
  <2> QED BY <2>2, <2>4, NamedIs
<1> QED BY <1>1, <1>2, <1>3 DEF TreeStep

(* What a name stands for is a directory only if it names it as one: no    *)
(* inode is a file here and a directory there.                             *)
LEMMA FoundIs ==
  ASSUME StoreInv, NEW d \in Dirs(tree), NEW n \in Names, Holds(tree, d, n)
  PROVE  LET e == Head(tree[d][n])
         IN  /\ e \in EntryType /\ e.id \in Ids /\ e.data \in Seq(Cells)
             /\ e.id \in Dirs(tree) => e.id \in Named(tree, d, n)
<1> DEFINE s == tree[d][n]
           e == Head(s)
<1>1. tree \in [Ids -> [Names -> Seq(EntryType)]] /\ d \in Ids
  BY DirsAreIds DEF StoreInv, StoreTypeOK
<1>2. s \in Seq(EntryType) /\ s # <<>>
  BY <1>1 DEF Holds
<1>3. e \in EntryType /\ e = s[1] /\ 1 \in DOMAIN s
  <2> HIDE DEF s
  <2> QED BY <1>2
<1>4. e.id \in Ids /\ e.data \in Seq(Cells)
  BY <1>3 DEF EntryType
<1>5. ASSUME e.id \in Dirs(tree) PROVE e.id \in Named(tree, d, n)
  <2>1. e.id # RootId
    BY <1>1, <1>3, EntryIs DEF StoreInv, OneEntry
  <2>2. PICK c \in Ids, m \in Names : \E k \in DOMAIN tree[c][m] :
               tree[c][m][k].type = "dir" /\ tree[c][m][k].id = e.id
    BY <1>5, <2>1, DirIs
  <2>3. c = d /\ m = n
    BY <1>1, <1>3, <2>2 DEF StoreInv, OneEntry
  <2> QED BY <2>2, <2>3, NamedIs
<1> QED BY <1>3, <1>4, <1>5

(* The directories one can reach are a closed set with those one starts at.*)
LEMMA ReachClosed ==
  ASSUME StoreTypeOK, NEW D \in SUBSET Ids
  PROVE  D \subseteq Reach(tree, D) /\ Closed(tree, Reach(tree, D)) /\ Reach(tree, D) \subseteq Ids
<1>1. \A d \in Ids, n \in Names : Named(tree, d, n) \subseteq Ids
  BY Typed, NamedIs DEF StoreTypeOK
<1>2. ASSUME NEW d \in Reach(tree, D), NEW n \in Names, NEW e \in Named(tree, d, n)
      PROVE  e \in Reach(tree, D)
  <2>1. d \in Ids /\ e \in Ids
    BY <1>1, <1>2 DEF Reach
  <2>2. ASSUME NEW S \in SUBSET Ids, D \subseteq S, Closed(tree, S) PROVE e \in S
    <3>1. d \in S
      BY <2>2 DEF Reach
    <3> QED BY <2>2, <3>1 DEF Closed
  <2> QED BY <2>1, <2>2 DEF Reach
<1> QED BY <1>2 DEF Reach, Closed

-----------------------------------------------------------------------------
(* What a step of s leaves: the scopes, the state x of the shell.          *)
ScopeStep ==
  scope' = [x \in Shells |->
    IF sh'[x].stack = <<>> THEN {} ELSE IF Dirs(tree') \subseteq Dirs(tree) THEN scope[x] ELSE Ids]

Goes(s, x) == sh' = [sh EXCEPT ![s] = x]

LEMMA GoCases ==
  ASSUME NEW s, NEW x, Going(s, x)
  PROVE  tree' = tree /\ ScopeStep /\ Goes(s, x)
BY DEF Going, Remember, ScopeStep, Goes

LEMMA CallCases ==
  ASSUME NEW s, NEW outcomes, NEW good, NEW bad, Calling(s, outcomes, good, bad)
  PROVE  /\ ScopeStep
         /\ \E o \in outcomes : tree' = o.tree /\ ((o.code = 0 /\ Goes(s, good)) \/ Goes(s, bad))
BY DEF Calling, Sees, Remember, ScopeStep, Goes

LEMMA LookCases ==
  ASSUME NEW s, NEW code, NEW good, NEW bad, Looking(s, code, good, bad)
  PROVE  tree' = tree /\ ScopeStep /\ ((code = 0 /\ Goes(s, good)) \/ Goes(s, bad))
<1>1. Calling(s, {Outcome(tree, code)}, good, bad)
  BY DEF Looking
<1>2. ScopeStep /\ \E o \in {Outcome(tree, code)} :
        tree' = o.tree /\ ((o.code = 0 /\ Goes(s, good)) \/ Goes(s, bad))
  BY <1>1, CallCases
<1> QED BY <1>2 DEF Outcome

LEMMA FindCases ==
  ASSUME NEW s, NEW d, NEW n, NEW found, NEW lost, Finding(s, d, n, found, lost)
  PROVE  /\ tree' = tree /\ ScopeStep
         /\ \/ d \in Dirs(tree) /\ Holds(tree, d, n) /\ InodeNamed(d, n) = Head(tree[d][n]).id
               /\ Goes(s, found)
            \/ Goes(s, lost)
<1> DEFINE good == IF InodeNamed(d, n) = None THEN lost ELSE found
<1>1. Looking(s, ListCode(tree, d), good, lost)
  BY DEF Finding
<1>2. tree' = tree /\ ScopeStep /\ ((ListCode(tree, d) = 0 /\ Goes(s, good)) \/ Goes(s, lost))
  BY <1>1, LookCases
<1> QED BY <1>2 DEF InodeNamed

LEMMA WriteCases ==
  ASSUME StoreInv, NEW s, NEW d, NEW n \in Names, NEW type \in {"reg", "dir"},
         NEW data \in Seq(Cells), LinesFit => Len(data) <= Room,
         NEW good, NEW bad, Writing(s, d, n, type, data, good, bad)
  PROVE  TreeStep /\ ScopeStep /\ (Goes(s, good) \/ Goes(s, bad))
<1> DEFINE all   == WriteOutcomes(tree, d, n, type, data)
           whole == {Outcome(Push(tree, d, n, EntryOf(type, i, Len(data), data)), 0) :
                       i \in Ids \ Used(tree)}
           full  == {o \in all : o.code \in {0, -1}} \ whole
<1>1. \/ Calling(s, all \ full, good, bad)
      \/ \E o \in full : /\ tree' = o.tree
                        /\ sh' = [sh EXCEPT ![s] = IF o.code = 0 THEN good ELSE bad]
                        /\ Remember(s, Excused)
  BY DEF Writing
<1>2. full \subseteq all
  OBVIOUS
<1> HIDE DEF full, all
<1>3. CASE Calling(s, all \ full, good, bad)
  <2>1. ScopeStep /\ \E o \in all \ full :
          tree' = o.tree /\ ((o.code = 0 /\ Goes(s, good)) \/ Goes(s, bad))
    BY <1>3, CallCases
  <2> QED BY <2>1, WriteIsStep DEF all
<1>4. ASSUME NEW o \in full, tree' = o.tree, Remember(s, Excused),
             sh' = [sh EXCEPT ![s] = IF o.code = 0 THEN good ELSE bad]
      PROVE  TreeStep /\ ScopeStep /\ (Goes(s, good) \/ Goes(s, bad))
  <2>1. TreeStep
    BY <1>2, <1>4, WriteIsStep DEF all
  <2>2. ScopeStep /\ (Goes(s, good) \/ Goes(s, bad))
    BY <1>4 DEF Remember, ScopeStep, Goes
  <2> QED BY <2>1, <2>2
<1> QED BY <1>1, <1>3, <1>4

LEMMA DeleteCases ==
  ASSUME StoreInv, NEW s, NEW d, NEW n \in Names, NEW type \in {"reg", "dir"},
         NEW good, NEW bad, Deleting(s, d, n, type, good, bad)
  PROVE  /\ TreeStep /\ ScopeStep /\ (Goes(s, good) \/ Goes(s, bad))
         /\ \A c \in Ids, m \in Names : tree'[c][m] # tree[c][m] => c = d /\ m = n
<1>1. Calling(s, DeleteOutcomes(tree, d, n, type), good, bad)
  BY DEF Deleting
<1>2. ScopeStep /\ \E o \in DeleteOutcomes(tree, d, n, type) :
        tree' = o.tree /\ ((o.code = 0 /\ Goes(s, good)) \/ Goes(s, bad))
  BY <1>1, CallCases
<1> QED BY <1>2, DeleteIsStep

LEMMA InodeNamedType ==
  ASSUME StoreInv, NEW d, NEW n \in Names
  PROVE  InodeNamed(d, n) \in Inodes
BY FoundIs DEF InodeNamed, Inodes

LEMMA ListingType ==
  ASSUME StoreInv, NEW d, ListCode(tree, d) = 0
  PROVE  Listing(tree, d) \subseteq Todo
<1>1. d \in Ids /\ tree \in [Ids -> [Names -> Seq(EntryType)]]
  BY DirsAreIds DEF ListCode, StoreInv, StoreTypeOK
<1>2. ASSUME NEW n \in Names, NEW k \in DOMAIN tree[d][n]
      PROVE  [name |-> n, nth |-> k, type |-> tree[d][n][k].type] \in Todo
  <2>1. tree[d][n][k] \in EntryType /\ k \in Nat
    BY <1>1, Typed
  <2> QED BY <2>1 DEF Todo, EntryType
<1> QED BY <1>2 DEF Listing

(* Above the frame of the command there are only those of the functions    *)
(* that it calls.                                                          *)
Called   == {"file", "copy", "remove"}
Inner(p) == \A k \in 1 .. Len(p.stack) - 1 : p.stack[k].op \in Called

(* The states a shell may go on with.                                      *)
Follows(s, x) ==
  /\ x \in ShellType
  /\ x.stack # <<>> => Base(x).op = Base(sh[s]).op
  /\ Inner(sh[s]) => Inner(x)
  /\ (Len(sh[s].stack) > 1 /\ Inner(sh[s])) => x.cwd = sh[s].cwd /\ Base(x) = Base(sh[s])

LEMMA StackFollows ==
  ASSUME TypesOK, NEW s \in Shells, Busy(s)
  PROVE  /\ sh[s] \in ShellType /\ sh[s].cwd \in Ids /\ Top(s) \in FrameType
         /\ \A f \in FrameType : f.op = Top(s).op => Follows(s, At(sh[s], f))
         /\ \A f, g \in FrameType :
              (f.op = Top(s).op /\ g.op \in Called) => Follows(s, Into(sh[s], f, g))
         /\ \A r \in Int : Follows(s, Back(sh[s], r))
<1>1. sh[s] \in ShellType /\ sh[s].stack # <<>>
  BY DEF TypesOK, Busy
<1>2. sh[s].cwd \in Ids /\ Top(s) \in FrameType /\ Top(s) = Head(sh[s].stack)
  BY <1>1, StackIs DEF ShellType, Top
<1> DEFINE p == sh[s]
           m == Len(p.stack)
<1>6. m \in Nat \ {0} /\ Head(p.stack) = p.stack[1]
  BY <1>1, StackIs
<1>3. ASSUME NEW f \in FrameType, f.op = Top(s).op PROVE Follows(s, At(sh[s], f))
  <2> DEFINE x == At(p, f)
  <2>1. /\ x \in ShellType /\ x.stack # <<>> /\ Base(x).op = Base(p).op
        /\ x.cwd = p.cwd /\ (m > 1 => Base(x) = Base(p))
        /\ Len(x.stack) = m /\ x.stack[1] = f /\ \A k \in 2 .. m : x.stack[k] = p.stack[k]
    BY <1>1, <1>2, <1>3, AtStack
  <2> HIDE DEF x, m
  <2>2. ASSUME Inner(p), NEW k \in 1 .. Len(x.stack) - 1 PROVE x.stack[k].op \in Called
    <3>1. k \in 1 .. m - 1 /\ (k = 1 \/ k \in 2 .. m)
      BY <1>6, <2>1
    <3> QED BY <1>2, <1>3, <1>6, <2>1, <2>2, <3>1 DEF Inner, m
  <2> QED BY <2>1, <2>2 DEF Follows, Inner, x, m
<1>4. ASSUME NEW f \in FrameType, NEW g \in FrameType, f.op = Top(s).op, g.op \in Called
      PROVE  Follows(s, Into(sh[s], f, g))
  <2> DEFINE x == Into(p, f, g)
  <2>1. /\ x \in ShellType /\ x.stack # <<>> /\ Base(x).op = Base(p).op
        /\ x.cwd = p.cwd /\ (m > 1 => Base(x) = Base(p))
        /\ Len(x.stack) = m + 1 /\ x.stack[1] = g /\ x.stack[2] = f
        /\ \A k \in 2 .. m : x.stack[k + 1] = p.stack[k]
    BY <1>1, <1>2, <1>4, IntoStack
  <2> HIDE DEF x, m
  <2>2. ASSUME Inner(p), NEW k \in 1 .. Len(x.stack) - 1 PROVE x.stack[k].op \in Called
    <3>1. k = 1 \/ (k = 2 /\ 1 \in 1 .. m - 1)
            \/ (k - 1 \in 2 .. m /\ k - 1 \in 1 .. m - 1 /\ (k - 1) + 1 = k)
      BY <1>6, <2>1
    <3>2. ASSUME k - 1 \in 2 .. m /\ k - 1 \in 1 .. m - 1 /\ (k - 1) + 1 = k
          PROVE  x.stack[k].op \in Called
      <4>1. x.stack[k] = p.stack[k - 1]
        BY <2>1, <3>2
      <4> QED BY <2>2, <3>2, <4>1 DEF Inner, m
    <3> QED BY <1>2, <1>4, <1>6, <2>1, <2>2, <3>1, <3>2 DEF Inner, m
  <2> QED BY <2>1, <2>2 DEF Follows, Inner, x, m
<1>5. ASSUME NEW r \in Int PROVE Follows(s, Back(sh[s], r))
  <2> DEFINE x == Back(p, r)
  <2>1. /\ x \in ShellType /\ Len(x.stack) = m - 1
        /\ \A k \in 1 .. m - 1 : x.stack[k] = p.stack[k + 1]
        /\ x.stack # <<>> => Base(x) = Base(p)
        /\ x.cwd = p.cwd /\ (m > 1 => x.stack # <<>>)
    BY <1>1, BackStack
  <2> HIDE DEF x, m
  <2>2. ASSUME Inner(p), NEW k \in 1 .. Len(x.stack) - 1 PROVE x.stack[k].op \in Called
    <3>1. k \in 1 .. m - 1 /\ k + 1 \in 1 .. m - 1
      BY <1>6, <2>1
    <3> QED BY <2>1, <2>2, <3>1 DEF Inner, m
  <2> QED BY <2>1, <2>2 DEF Follows, Inner, x, m
<1> QED BY <1>1, <1>2, <1>3, <1>4, <1>5

(* A step of s as seen by the other shells.                                *)
Moves(s) == TreeStep /\ ScopeStep /\ \E x : Follows(s, x) /\ Goes(s, x)

LEMMA NoData == <<>> \in Buffers
BY ShellAssumption DEF Buffers

LEMMA FitsHead ==
  ASSUME StoreInv, Sized, NEW d \in Dirs(tree), NEW n \in Names, Holds(tree, d, n)
  PROVE  LET e == Head(tree[d][n]) IN e \in EntryType /\ Fits(e)
<1> DEFINE q == tree[d][n]
<1>1. d \in Ids /\ q \in Seq(EntryType) /\ q # <<>>
  BY DirsAreIds DEF StoreInv, StoreTypeOK, Holds
<1>2. Head(q) = q[1] /\ 1 \in DOMAIN q /\ Head(q) \in EntryType
  <2> HIDE DEF q
  <2> QED BY <1>1
<1> QED BY <1>1, <1>2 DEF Sized

(* copy_file writes a whole buffer: what it has read and what was there.   *)
LEMMA BufferIs ==
  ASSUME NEW data \in Seq(Cells), Len(data) <= Room
  PROVE  Buffer(data) \in Buffers /\ Begins(Buffer(data), data)
<1> DEFINE i   == Room - Len(data)
           pad == [k \in 1 .. i |-> Junk]
<1>1. Room \in Nat /\ Junk \in Cells /\ Len(data) \in Nat
  BY ShellAssumption
<1>2. i \in Nat /\ Len(data) + i = Room
  BY <1>1
<1>3. Buffer(data) = data \o pad
  BY DEF Buffer
<1> HIDE DEF i
<1>4. pad \in Seq(Cells) /\ Len(pad) = i
  BY <1>1, <1>2
<1> HIDE DEF pad
<1>5. data \o pad \in Seq(Cells) /\ Len(data \o pad) = Len(data) + Len(pad)
  BY <1>4
<1>6. SubSeq(data \o pad, 1, Len(data)) = data
  BY <1>4
<1> QED BY <1>1, <1>2, <1>3, <1>4, <1>5, <1>6 DEF Buffers, Begins

LEMMA CopyFileMoves ==
  ASSUME TypesOK, NEW s \in Shells, Busy(s), CopyFile(s)
  PROVE  Moves(s)
<1> DEFINE p == sh[s]
           f == Top(s)
           code == ReadCode(tree, f.sd, f.sn, Room)
           data == IF code = 0 THEN Head(tree[f.sd][f.sn]).data ELSE <<>>
           next == [f EXCEPT !.at = "write", !.data = Buffer(data)]
<1>1. f.op = "file" /\ f \in FrameType
  BY StackFollows DEF CopyFile
<1>2. f \in FileFrames
  BY <1>1, FrameKinds
<1>3. Follows(s, Back(p, 0)) /\ Follows(s, Back(p, -1)) /\ StoreInv /\ Sized
  BY StackFollows DEF TypesOK
<1>4. CASE f.at = "read" /\ Looking(s, code, At(p, next), Back(p, -1))
  <2>1. data \in Seq(Cells) /\ Len(data) <= Room
    <3>1. f.sn \in Names /\ Room \in Nat
      BY <1>2, ShellAssumption DEF FileFrames
    <3>2. CASE code = 0
      <4> DEFINE e == Head(tree[f.sd][f.sn])
      <4>1. f.sd \in Dirs(tree) /\ Holds(tree, f.sd, f.sn) /\ ~(e.size > Room)
        BY <3>2 DEF ReadCode
      <4>2. e \in EntryType /\ Fits(e)
        BY <1>3, <3>1, <4>1, FitsHead
      <4>3. data = e.data
        BY <3>2
      <4> HIDE DEF e, data
      <4>4. e.data \in Seq(Cells) /\ e.size \in Nat /\ Len(e.data) <= e.size
        BY <4>2 DEF EntryType, Fits
      <4>5. Len(e.data) \in Nat
        BY <4>4
      <4> QED BY <3>1, <4>1, <4>3, <4>4, <4>5
    <3>3. CASE code # 0
      <4>1. data = <<>> /\ <<>> \in Seq(Cells) /\ Len(<<>>) = 0
        BY <3>3
      <4> HIDE DEF data
      <4> QED BY <3>1, <4>1
    <3> QED BY <3>2, <3>3
  <2> HIDE DEF data
  <2>2. Buffer(data) \in Buffers
    BY <2>1, BufferIs
  <2> DEFINE buf == Buffer(data)
  <2> HIDE DEF buf
  <2>3. [f EXCEPT !.at = "write", !.data = buf] \in FileFrames
    BY <1>2, <2>2 DEF FileFrames, buf
  <2>4. next \in FrameType /\ next.op = f.op
    <3>1. next = [f EXCEPT !.at = "write", !.data = buf]
      BY DEF buf
    <3> HIDE DEF next, f
    <3>2. next \in FileFrames
      BY <2>3, <3>1 DEF f
    <3> QED BY <1>1, <3>2 DEF FrameType, FileFrames
  <2> HIDE DEF next
  <2>5. Follows(s, At(p, next))
    BY <2>4, StackFollows
  <2> HIDE DEF code
  <2>6. tree' = tree /\ ScopeStep /\ (Goes(s, At(p, next)) \/ Goes(s, Back(p, -1)))
    BY <1>4, LookCases
  <2> QED BY <1>3, <2>5, <2>6 DEF Moves, TreeStep
<1>5. CASE f.at = "write" /\ Writing(s, f.dd, f.dn, "reg", f.data, Back(p, 0), Back(p, -1))
  <2>1. f.dn \in Names /\ f.data \in Seq(Cells) /\ Len(f.data) <= Room
    BY <1>2 DEF FileFrames, Buffers
  <2>2. TreeStep /\ ScopeStep /\ (Goes(s, Back(p, 0)) \/ Goes(s, Back(p, -1)))
    BY <1>3, <1>5, <2>1, WriteCases
  <2> QED BY <1>3, <2>2 DEF Moves
<1> QED BY <1>4, <1>5 DEF CopyFile

LEMMA CopyDirMoves ==
  ASSUME TypesOK, NEW s \in Shells, Busy(s), CopyDir(s) \/ CopyEach(s)
  PROVE  Moves(s)
<1> DEFINE p == sh[s]
           f == Top(s)
<1>1. f.op = "copy" /\ f \in FrameType
  BY StackFollows DEF CopyDir, CopyEach
<1>2. f \in CopyFrames
  BY <1>1, FrameKinds
<1>3. Follows(s, Back(p, 0)) /\ Follows(s, Back(p, -1)) /\ StoreInv
  BY StackFollows DEF TypesOK
<1>4. f.sn \in Names /\ f.dn \in Names /\ f.src \in Inodes /\ f.dst \in Inodes
  BY <1>2 DEF CopyFrames
<1>5. ASSUME NEW g \in CopyFrames PROVE Follows(s, At(p, g))
  <2>1. g.op = "copy" /\ g \in FrameType
    BY DEF CopyFrames, FrameType
  <2> QED BY <1>1, <2>1, StackFollows
<1> HIDE DEF f
<1>6. CASE /\ f.at = "mkdir"
           /\ Writing(s, f.dd, f.dn, "dir", <<>>, At(p, [f EXCEPT !.at = "src"]), Back(p, -1))
  <2>1. [f EXCEPT !.at = "src"] \in CopyFrames
    BY <1>2 DEF CopyFrames
  <2>2. <<>> \in Seq(Cells) /\ Len(<<>>) <= Room
    BY ShellAssumption
  <2>3. TreeStep /\ ScopeStep
        /\ (Goes(s, At(p, [f EXCEPT !.at = "src"])) \/ Goes(s, Back(p, -1)))
    BY <1>3, <1>4, <1>6, <2>2, WriteCases
  <2> QED BY <1>3, <1>5, <2>1, <2>3 DEF Moves
<1>7. ASSUME NEW g, g \in CopyFrames, tree' = tree, ScopeStep, Goes(s, At(p, g)) \/ Goes(s, Back(p, -1))
      PROVE  Moves(s)
  BY <1>3, <1>5, <1>7 DEF Moves, TreeStep
<1>8. CASE /\ f.at = "src"
           /\ Finding(s, f.sd, f.sn,
                      At(p, [f EXCEPT !.at = "dst", !.src = InodeNamed(f.sd, f.sn)]), Back(p, -1))
  <2> DEFINE i == InodeNamed(f.sd, f.sn)
  <2>1. i \in Inodes
    BY <1>3, <1>4, InodeNamedType
  <2> HIDE DEF i
  <2>2. [f EXCEPT !.at = "dst", !.src = i] \in CopyFrames
    BY <1>2, <2>1 DEF CopyFrames
  <2>3. tree' = tree /\ ScopeStep
        /\ (Goes(s, At(p, [f EXCEPT !.at = "dst", !.src = i])) \/ Goes(s, Back(p, -1)))
    BY <1>8, FindCases DEF i
  <2> QED BY <1>7, <2>2, <2>3
<1>9. CASE /\ f.at = "dst"
           /\ Finding(s, f.dd, f.dn,
                      At(p, [f EXCEPT !.at = "list", !.dst = InodeNamed(f.dd, f.dn)]), Back(p, -1))
  <2> DEFINE i == InodeNamed(f.dd, f.dn)
  <2>1. i \in Inodes
    BY <1>3, <1>4, InodeNamedType
  <2> HIDE DEF i
  <2>2. [f EXCEPT !.at = "list", !.dst = i] \in CopyFrames
    BY <1>2, <2>1 DEF CopyFrames
  <2>3. tree' = tree /\ ScopeStep
        /\ (Goes(s, At(p, [f EXCEPT !.at = "list", !.dst = i])) \/ Goes(s, Back(p, -1)))
    BY <1>9, FindCases DEF i
  <2> QED BY <1>7, <2>2, <2>3
<1>10. CASE /\ f.at = "list"
            /\ Looking(s, ListCode(tree, f.src),
                       At(p, [f EXCEPT !.at = "each", !.todo = Listing(tree, f.src)]), Back(p, -1))
  <2> DEFINE todo == Listing(tree, f.src)
  <2>1. ListCode(tree, f.src) = 0 => todo \subseteq Todo
    BY <1>3, ListingType
  <2> HIDE DEF todo
  <2>2. ListCode(tree, f.src) = 0 => [f EXCEPT !.at = "each", !.todo = todo] \in CopyFrames
    BY <1>2, <2>1 DEF CopyFrames
  <2>3. /\ tree' = tree /\ ScopeStep
        /\ \/ ListCode(tree, f.src) = 0 /\ Goes(s, At(p, [f EXCEPT !.at = "each", !.todo = todo]))
           \/ Goes(s, Back(p, -1))
    BY <1>10, LookCases DEF todo
  <2> QED BY <1>3, <1>5, <2>2, <2>3 DEF Moves, TreeStep
<1>11. CASE f.todo = {} /\ Going(s, Back(p, 0))
  BY <1>3, <1>11, GoCases DEF Moves, TreeStep
<1>12. ASSUME NEW e \in f.todo, Going(s, Into(p, Later(f, e), Child(f, e)))
       PROVE  Moves(s)
  <2>1. e.name \in Names
    BY <1>2 DEF CopyFrames, Todo
  <2>2. Later(f, e) \in CopyFrames
    BY <1>2 DEF CopyFrames, Later
  <2>3. Later(f, e) \in FrameType /\ Later(f, e).op = "copy"
    BY <2>2 DEF FrameType, CopyFrames
  <2>4. CopyFrame(f.src, e.name, f.dst, e.name) \in CopyFrames
    BY <1>4, <2>1 DEF CopyFrame, CopyFrames, Inodes
  <2>5. FileFrame(f.src, e.name, f.dst, e.name) \in FileFrames
    BY <1>4, <2>1, NoData DEF FileFrame, FileFrames
  <2>6. Child(f, e) \in FrameType /\ Child(f, e).op \in Called
    BY <2>4, <2>5 DEF Child, FrameType, CopyFrames, FileFrames, Called
  <2>7. Follows(s, Into(p, Later(f, e), Child(f, e)))
    BY <1>1, <2>3, <2>6, StackFollows DEF f
  <2> QED BY <1>12, <2>7, GoCases DEF Moves, TreeStep
<1>13. CASE CopyDir(s)
  BY <1>6, <1>8, <1>9, <1>10, <1>13 DEF CopyDir, f
<1>14. CASE CopyEach(s)
  BY <1>11, <1>12, <1>14 DEF CopyEach, f
<1> QED BY <1>13, <1>14

LEMMA RemoveMoves ==
  ASSUME TypesOK, NEW s \in Shells, Busy(s), Remove(s) \/ RemoveEach(s)
  PROVE  Moves(s)
<1> DEFINE p == sh[s]
           f == Top(s)
<1>1. f.op = "remove" /\ f \in FrameType
  BY StackFollows DEF Remove, RemoveEach
<1>2. f \in RemoveFrames
  BY <1>1, FrameKinds
<1>3. Follows(s, Back(p, 0)) /\ StoreInv
  BY StackFollows DEF TypesOK
<1>4. f.n \in Names /\ f.ino \in Inodes
  BY <1>2 DEF RemoveFrames
<1>5. ASSUME NEW g \in RemoveFrames PROVE Follows(s, At(p, g))
  <2>1. g.op = "remove" /\ g \in FrameType
    BY DEF RemoveFrames, FrameType
  <2> QED BY <1>1, <2>1, StackFollows
<1> HIDE DEF f
<1>6. CASE /\ f.at = "file"
           /\ Deleting(s, f.d, f.n, "reg", Back(p, 0), At(p, [f EXCEPT !.at = "find"]))
  <2>1. [f EXCEPT !.at = "find"] \in RemoveFrames
    BY <1>2 DEF RemoveFrames
  <2> DEFINE x == At(p, [f EXCEPT !.at = "find"])
  <2>2. Follows(s, x) /\ Deleting(s, f.d, f.n, "reg", Back(p, 0), x)
    BY <1>5, <1>6, <2>1
  <2> HIDE DEF x
  <2>3. TreeStep /\ ScopeStep /\ (Goes(s, Back(p, 0)) \/ Goes(s, x))
    BY <1>3, <1>4, <2>2, DeleteCases
  <2> QED BY <1>3, <2>2, <2>3 DEF Moves
<1>7. CASE /\ f.at = "find"
           /\ Finding(s, f.d, f.n,
                      At(p, [f EXCEPT !.at = "list", !.ino = InodeNamed(f.d, f.n)]), Back(p, 0))
  <2> DEFINE i == InodeNamed(f.d, f.n)
  <2>1. i \in Inodes
    BY <1>3, <1>4, InodeNamedType
  <2> HIDE DEF i
  <2>2. [f EXCEPT !.at = "list", !.ino = i] \in RemoveFrames
    BY <1>2, <2>1 DEF RemoveFrames
  <2>3. tree' = tree /\ ScopeStep
        /\ (Goes(s, At(p, [f EXCEPT !.at = "list", !.ino = i])) \/ Goes(s, Back(p, 0)))
    BY <1>7, FindCases DEF i
  <2> QED BY <1>3, <1>5, <2>2, <2>3 DEF Moves, TreeStep
<1>8. CASE /\ f.at = "list"
           /\ Looking(s, ListCode(tree, f.ino),
                      At(p, [f EXCEPT !.at = "each", !.todo = Listing(tree, f.ino)]), Back(p, 0))
  <2> DEFINE todo == Listing(tree, f.ino)
  <2>1. ListCode(tree, f.ino) = 0 => todo \subseteq Todo
    BY <1>3, ListingType
  <2> HIDE DEF todo
  <2>2. ListCode(tree, f.ino) = 0 => [f EXCEPT !.at = "each", !.todo = todo] \in RemoveFrames
    BY <1>2, <2>1 DEF RemoveFrames
  <2>3. /\ tree' = tree /\ ScopeStep
        /\ \/ ListCode(tree, f.ino) = 0 /\ Goes(s, At(p, [f EXCEPT !.at = "each", !.todo = todo]))
           \/ Goes(s, Back(p, 0))
    BY <1>8, LookCases DEF todo
  <2> QED BY <1>3, <1>5, <2>2, <2>3 DEF Moves, TreeStep
<1>9. CASE f.at = "dir" /\ Deleting(s, f.d, f.n, "dir", Back(p, 0), Back(p, 0))
  <2>1. TreeStep /\ ScopeStep /\ (Goes(s, Back(p, 0)) \/ Goes(s, Back(p, 0)))
    BY <1>3, <1>4, <1>9, DeleteCases
  <2> QED BY <1>3, <2>1 DEF Moves
<1>10. CASE f.todo = {} /\ Going(s, At(p, [f EXCEPT !.at = "dir"]))
  <2>1. [f EXCEPT !.at = "dir"] \in RemoveFrames
    BY <1>2 DEF RemoveFrames
  <2> QED BY <1>5, <1>10, <2>1, GoCases DEF Moves, TreeStep
<1>11. ASSUME NEW e \in f.todo, Going(s, Into(p, Later(f, e), RemoveChild(f, e)))
       PROVE  Moves(s)
  <2>1. e.name \in Names
    BY <1>2 DEF RemoveFrames, Todo
  <2>2. Later(f, e) \in RemoveFrames
    BY <1>2 DEF RemoveFrames, Later
  <2>3. Later(f, e) \in FrameType /\ Later(f, e).op = "remove"
    BY <2>2 DEF FrameType, RemoveFrames
  <2>4. RemoveChild(f, e) \in RemoveFrames
    BY <1>4, <2>1 DEF RemoveChild, RemoveFrame, RemoveFrames, Inodes
  <2>5. RemoveChild(f, e) \in FrameType /\ RemoveChild(f, e).op \in Called
    BY <2>4 DEF FrameType, RemoveFrames, Called
  <2>6. Follows(s, Into(p, Later(f, e), RemoveChild(f, e)))
    BY <1>1, <2>3, <2>5, StackFollows DEF f
  <2> QED BY <1>11, <2>6, GoCases DEF Moves, TreeStep
<1>12. CASE Remove(s)
  BY <1>6, <1>7, <1>8, <1>9, <1>12 DEF Remove, f
<1>13. CASE RemoveEach(s)
  BY <1>10, <1>11, <1>13 DEF RemoveEach, f
<1> QED BY <1>12, <1>13

LEMMA RmMoves ==
  ASSUME TypesOK, NEW s \in Shells, Busy(s), RmStep(s) \/ RmrStep(s)
  PROVE  Moves(s)
<1> DEFINE p == sh[s]
           f == Top(s)
<1>1. f \in FrameType /\ Follows(s, Back(p, 0)) /\ StoreInv
  BY StackFollows DEF TypesOK
<1>2. CASE RmrStep(s)
  <2>1. Going(s, Back(p, 0))
    BY <1>2 DEF RmrStep
  <2> QED BY <1>1, <2>1, GoCases DEF Moves, TreeStep
<1>3. CASE RmStep(s)
  <2>1. f.op = "rm" /\ f \in RmFrames /\ f.n \in Names
    <3>1. f.op = "rm"
      BY <1>3 DEF RmStep
    <3>2. f \in RmFrames
      BY <1>1, <3>1, FrameKinds
    <3> QED BY <3>1, <3>2 DEF RmFrames
  <2> DEFINE g == [f EXCEPT !.at = "dir"]
  <2>2. g \in RmFrames /\ g.op = "rm"
    BY <2>1 DEF RmFrames
  <2>3. g \in FrameType
    BY <2>2 DEF FrameType
  <2>4. Follows(s, At(p, g))
    BY <2>1, <2>2, <2>3, StackFollows
  <2>5. \/ Deleting(s, p.cwd, f.n, "reg", Back(p, 0), At(p, g))
        \/ Deleting(s, p.cwd, f.n, "dir", Back(p, 0), Back(p, 0))
    BY <1>3 DEF RmStep
  <2> HIDE DEF g, f
  <2>6. TreeStep /\ ScopeStep /\ (Goes(s, Back(p, 0)) \/ Goes(s, At(p, g)))
    <3>1. CASE Deleting(s, p.cwd, f.n, "reg", Back(p, 0), At(p, g))
      BY <1>1, <2>1, <3>1, DeleteCases
    <3>2. CASE Deleting(s, p.cwd, f.n, "dir", Back(p, 0), Back(p, 0))
      <4>1. TreeStep /\ ScopeStep /\ (Goes(s, Back(p, 0)) \/ Goes(s, Back(p, 0)))
        BY <1>1, <2>1, <3>2, DeleteCases
      <4> QED BY <4>1
    <3> QED BY <2>5, <3>1, <3>2
  <2> QED BY <1>1, <2>4, <2>6 DEF Moves
<1> QED BY <1>2, <1>3

LEMMA CopyOfType ==
  ASSUME NEW p, p.cwd \in Ids, NEW f, f.from \in Names, f.to \in Names, NEW dir \in BOOLEAN
  PROVE  CopyOf(p, f, dir) \in FrameType /\ CopyOf(p, f, dir).op \in Called
<1>1. CopyFrame(p.cwd, f.from, p.cwd, f.to) \in CopyFrames
  BY DEF CopyFrame, CopyFrames, Inodes
<1>2. FileFrame(p.cwd, f.from, p.cwd, f.to) \in FileFrames
  BY NoData DEF FileFrame, FileFrames, Inodes
<1> QED BY <1>1, <1>2 DEF CopyOf, FrameType, CopyFrames, FileFrames, Called

LEMMA CpMoves ==
  ASSUME TypesOK, NEW s \in Shells, Busy(s), CpStep(s)
  PROVE  Moves(s)
<1> DEFINE p == sh[s]
           f == Top(s)
           source == InodeNamed(p.cwd, f.from)
           kind   == [f EXCEPT !.at = "kind", !.src = source]
           copied == [f EXCEPT !.at = "copied"]
           copying(dir) == Into(p, copied, CopyOf(p, f, dir))
<1>1. f.op = "cp" /\ f \in FrameType
  BY StackFollows DEF CpStep
<1>2. f \in CpFrames
  BY <1>1, FrameKinds
<1>3. /\ Follows(s, Back(p, -1)) /\ Follows(s, Back(p, p.result))
      /\ StoreInv /\ p.cwd \in Ids
  BY StackFollows DEF TypesOK, ShellType
<1>4. f.from \in Names /\ f.to \in Names
  BY <1>2 DEF CpFrames
<1>5. Follows(s, At(p, kind))
  <2>1. source \in Inodes
    BY <1>3, <1>4, InodeNamedType
  <2> HIDE DEF source
  <2>2. kind \in CpFrames
    BY <1>2, <2>1 DEF CpFrames
  <2> HIDE DEF kind
  <2>3. kind.op = "cp" /\ kind \in FrameType
    BY <2>2 DEF CpFrames, FrameType
  <2> QED BY <1>1, <2>3, StackFollows
<1>6. Follows(s, copying(TRUE)) /\ Follows(s, copying(FALSE))
  <2>1. copied \in CpFrames
    BY <1>2 DEF CpFrames
  <2> HIDE DEF copied
  <2>2. copied.op = "cp" /\ copied \in FrameType
    BY <2>1 DEF CpFrames, FrameType
  <2>3. /\ CopyOf(p, f, TRUE) \in FrameType /\ CopyOf(p, f, TRUE).op \in Called
        /\ CopyOf(p, f, FALSE) \in FrameType /\ CopyOf(p, f, FALSE).op \in Called
    BY <1>3, <1>4, CopyOfType
  <2> QED BY <1>1, <2>2, <2>3, StackFollows
<1> DEFINE found == IF source = Bin THEN Back(p, -1) ELSE At(p, kind)
           dir   == IF f.rec THEN copying(TRUE) ELSE Back(p, -1)
<1>7. Follows(s, found) /\ Follows(s, dir)
  BY <1>3, <1>5, <1>6
<1>8. \/ Finding(s, p.cwd, f.from, found, Back(p, -1))
      \/ Looking(s, ListCode(tree, f.src), dir, copying(FALSE))
      \/ Going(s, Back(p, p.result))
  BY DEF CpStep
<1>9. ASSUME tree' = tree, ScopeStep, NEW x, Follows(s, x), Goes(s, x) PROVE Moves(s)
  BY <1>9 DEF Moves, TreeStep
<1>10. CASE Finding(s, p.cwd, f.from, found, Back(p, -1))
  <2> HIDE DEF found
  <2>1. tree' = tree /\ ScopeStep /\ (Goes(s, found) \/ Goes(s, Back(p, -1)))
    BY <1>10, FindCases
  <2> QED BY <1>3, <1>7, <1>9, <2>1
<1>11. CASE Looking(s, ListCode(tree, f.src), dir, copying(FALSE))
  <2> DEFINE x == copying(FALSE)
  <2>1. Follows(s, x) /\ Looking(s, ListCode(tree, f.src), dir, x)
    BY <1>6, <1>11
  <2> HIDE DEF dir, x
  <2>2. tree' = tree /\ ScopeStep /\ (Goes(s, dir) \/ Goes(s, x))
    BY <2>1, LookCases
  <2> QED BY <1>7, <1>9, <2>1, <2>2
<1>12. CASE Going(s, Back(p, p.result))
  BY <1>3, <1>9, <1>12, GoCases
<1> QED BY <1>8, <1>10, <1>11, <1>12

LEMMA MvMoves ==
  ASSUME TypesOK, NEW s \in Shells, Busy(s), MvStep(s)
  PROVE  Moves(s)
<1> DEFINE p == sh[s]
           f == Top(s)
           source == InodeNamed(p.cwd, f.from)
           at(g)  == [f EXCEPT !.at = g]
           dest   == [f EXCEPT !.at = "dest", !.src = source]
           copied(dir)  == [f EXCEPT !.at = "copied", !.dir = dir]
           copying(dir) == Into(p, copied(dir), CopyOf(p, f, dir))
           gone   == Into(p, at("done"), RemoveFrame(p.cwd, f.from))
<1>1. f.op = "mv" /\ f \in FrameType
  BY StackFollows DEF MvStep
<1>2. f \in MvFrames
  BY <1>1, FrameKinds
<1>3. /\ Follows(s, Back(p, -1)) /\ Follows(s, Back(p, 0))
      /\ StoreInv /\ p.cwd \in Ids
  BY StackFollows DEF TypesOK, ShellType
<1>4. f.from \in Names /\ f.to \in Names
  BY <1>2 DEF MvFrames
<1>5. ASSUME NEW g \in MvFrames PROVE g.op = "mv" /\ g \in FrameType
  BY DEF MvFrames, FrameType
<1>6. Follows(s, At(p, dest))
  <2>1. source \in Inodes
    BY <1>3, <1>4, InodeNamedType
  <2> HIDE DEF source
  <2>2. dest \in MvFrames
    BY <1>2, <2>1 DEF MvFrames
  <2> HIDE DEF dest
  <2> QED BY <1>1, <1>5, <2>2, StackFollows
<1>7. Follows(s, At(p, at("kind"))) /\ Follows(s, At(p, at("delete"))) /\ Follows(s, At(p, at("done")))
  <2>1. at("kind") \in MvFrames /\ at("delete") \in MvFrames /\ at("done") \in MvFrames
    BY <1>2 DEF MvFrames
  <2> HIDE DEF at
  <2> QED BY <1>1, <1>5, <2>1, StackFollows
<1>8. ASSUME NEW dir \in BOOLEAN PROVE Follows(s, copying(dir))
  <2>1. copied(dir) \in MvFrames
    BY <1>2 DEF MvFrames
  <2>2. CopyOf(p, f, dir) \in FrameType /\ CopyOf(p, f, dir).op \in Called
    BY <1>3, <1>4, CopyOfType
  <2> HIDE DEF copied
  <2> QED BY <1>1, <1>5, <2>1, <2>2, StackFollows
<1>9. Follows(s, gone)
  <2>1. at("done") \in MvFrames
    BY <1>2 DEF MvFrames
  <2>2. RemoveFrame(p.cwd, f.from) \in RemoveFrames
    BY <1>3, <1>4 DEF RemoveFrame, RemoveFrames, Inodes
  <2>3. RemoveFrame(p.cwd, f.from) \in FrameType /\ RemoveFrame(p.cwd, f.from).op \in Called
    BY <2>2 DEF FrameType, RemoveFrames, Called
  <2> HIDE DEF at
  <2> QED BY <1>1, <1>5, <2>1, <2>3, StackFollows
<1>10. Follows(s, MvCopied(p, f))
  BY <1>3, <1>7, <1>9 DEF MvCopied
<1> DEFINE lost == IF f.src = Bin THEN Back(p, -1) ELSE At(p, at("kind"))
<1>11. Follows(s, lost)
  BY <1>3, <1>7
<1>12. \/ Finding(s, p.cwd, f.from, At(p, dest), Back(p, -1))
       \/ Finding(s, p.cwd, f.to, Back(p, -1), lost)
       \/ Looking(s, ListCode(tree, f.src), copying(TRUE), copying(FALSE))
       \/ Deleting(s, p.cwd, f.from, "reg", At(p, at("done")), Back(p, -1))
       \/ Going(s, MvCopied(p, f)) \/ Going(s, Back(p, 0))
  BY DEF MvStep
<1>13. ASSUME TreeStep, ScopeStep, NEW x, Follows(s, x), Goes(s, x) PROVE Moves(s)
  BY <1>13 DEF Moves
<1>14. ASSUME NEW d, NEW n, NEW x, NEW y, Finding(s, d, n, x, y), Follows(s, x), Follows(s, y)
       PROVE  Moves(s)
  <2>1. tree' = tree /\ ScopeStep /\ (Goes(s, x) \/ Goes(s, y))
    BY <1>14, FindCases
  <2> QED BY <1>13, <1>14, <2>1 DEF TreeStep
<1>15. ASSUME NEW c, NEW x, NEW y, Looking(s, c, x, y), Follows(s, x), Follows(s, y)
       PROVE  Moves(s)
  <2>1. tree' = tree /\ ScopeStep /\ (Goes(s, x) \/ Goes(s, y))
    BY <1>15, LookCases
  <2> QED BY <1>13, <1>15, <2>1 DEF TreeStep
<1>16. ASSUME NEW x, NEW y, Deleting(s, p.cwd, f.from, "reg", x, y), Follows(s, x), Follows(s, y)
       PROVE  Moves(s)
  <2> HIDE DEF f
  <2>1. TreeStep /\ ScopeStep /\ (Goes(s, x) \/ Goes(s, y))
    BY <1>3, <1>4, <1>16, DeleteCases
  <2> QED BY <1>13, <1>16, <2>1
<1>17. ASSUME NEW x, Going(s, x), Follows(s, x) PROVE Moves(s)
  BY <1>13, <1>17, GoCases DEF TreeStep
<1> DEFINE cd == At(p, dest)
           ct == copying(TRUE)
           cf == copying(FALSE)
           cn == At(p, at("done"))
<1>18. Follows(s, cd) /\ Follows(s, ct) /\ Follows(s, cf) /\ Follows(s, cn)
  BY <1>6, <1>7, <1>8
<1>19. \/ Finding(s, p.cwd, f.from, cd, Back(p, -1))
       \/ Finding(s, p.cwd, f.to, Back(p, -1), lost)
       \/ Looking(s, ListCode(tree, f.src), ct, cf)
       \/ Deleting(s, p.cwd, f.from, "reg", cn, Back(p, -1))
       \/ Going(s, MvCopied(p, f)) \/ Going(s, Back(p, 0))
  BY <1>12
<1> HIDE DEF cd, ct, cf, cn, lost
<1> QED BY <1>3, <1>10, <1>11, <1>14, <1>15, <1>16, <1>17, <1>18, <1>19

LEMMA CdMoves ==
  ASSUME TypesOK, NEW s \in Shells, Busy(s), CdStep(s)
  PROVE  Moves(s)
<1> DEFINE p == sh[s]
           f == Top(s)
           n == Head(f.path)
           goto(i) == At(p, [f EXCEPT !.path = Tail(f.path), !.target = i])
           there == [Back(p, 0) EXCEPT !.cwd = f.target]
<1>1. f.op = "cd" /\ f \in FrameType
  BY StackFollows DEF CdStep
<1>2. f \in CdFrames
  BY <1>1, FrameKinds
<1>3. Follows(s, Back(p, -1)) /\ Follows(s, Back(p, 0)) /\ StoreInv
  BY StackFollows DEF TypesOK
<1>4. f.target \in Ids /\ f.path \in Seq(Names \cup {".."})
  BY <1>2 DEF CdFrames
<1>5. Follows(s, there)
  <2> DEFINE x == Back(p, 0)
  <2>1. Follows(s, x)
    BY <1>3
  <2> HIDE DEF x
  <2>2. there = [x EXCEPT !.cwd = f.target]
    BY DEF x
  <2>3. there \in ShellType /\ there.stack = x.stack
    BY <1>4, <2>1, <2>2 DEF Follows, ShellType
  <2> HIDE DEF there
  <2>4. ~(Len(p.stack) > 1 /\ Inner(p))
    <3>1. p.stack # <<>> /\ p \in ShellType /\ f = Head(p.stack)
      BY DEF TypesOK, Busy, Top
    <3>2. Len(p.stack) \in Nat \ {0} /\ f = p.stack[1]
      BY <3>1, StackIs
    <3>3. Len(p.stack) > 1 => 1 \in 1 .. Len(p.stack) - 1
      BY <3>2
    <3> QED BY <1>1, <3>2, <3>3 DEF Inner, Called
  <2> QED BY <2>1, <2>3, <2>4 DEF Follows, Inner, Base
<1>6. ASSUME NEW i \in Ids, f.path # <<>> PROVE Follows(s, goto(i))
  <2> DEFINE g == [f EXCEPT !.path = Tail(f.path), !.target = i]
  <2>1. Tail(f.path) \in Seq(Names \cup {".."})
    BY <1>4, <1>6
  <2> DEFINE rest == Tail(f.path)
  <2> HIDE DEF rest, f
  <2>2. [f EXCEPT !.path = rest, !.target = i] \in CdFrames
    BY <1>2, <2>1 DEF CdFrames, rest
  <2>3. g \in CdFrames
    BY <2>2 DEF rest
  <2> HIDE DEF g
  <2>4. g.op = "cd" /\ g \in FrameType
    BY <2>3 DEF CdFrames, FrameType
  <2>5. Follows(s, At(p, g))
    BY <1>1, <2>4, StackFollows DEF f
  <2> QED BY <2>5 DEF g
<1>7. ASSUME NEW x, Follows(s, x), Going(s, x) PROVE Moves(s)
  BY <1>7, GoCases DEF Moves, TreeStep
<1>8. ParentOf(tree, f.target) \in Ids
  BY StoreAssumption DEF ParentOf
<1>9. ASSUME f.path # <<>>, n # "..", f.target \in Dirs(tree), NEW k \in DOMAIN tree[f.target][n]
      PROVE  tree[f.target][n][k].id \in Ids
  <2>1. n \in Names
    BY <1>4, <1>9
  <2>2. tree[f.target][n][k] \in EntryType
    BY <1>3, <1>4, <1>9, <2>1, Typed DEF StoreInv, StoreTypeOK
  <2> QED BY <2>2 DEF EntryType
<1>10. CASE f.path = <<>>
  <2>1. Going(s, there)
    BY <1>10 DEF CdStep
  <2> QED BY <1>5, <1>7, <2>1
<1>11. CASE f.path # <<>> /\ n = ".."
  <2>1. Going(s, goto(ParentOf(tree, f.target)))
    BY <1>11 DEF CdStep
  <2> QED BY <1>6, <1>7, <1>8, <1>11, <2>1
<1>12. CASE f.path # <<>> /\ n # ".."
  <2>1. \/ Going(s, Back(p, -1))
        \/ /\ f.target \in Dirs(tree)
           /\ \E k \in DOMAIN tree[f.target][n] : Going(s, goto(tree[f.target][n][k].id))
    BY <1>12 DEF CdStep
  <2>2. CASE Going(s, Back(p, -1))
    BY <1>3, <1>7, <2>2
  <2>3. ASSUME f.target \in Dirs(tree), NEW k \in DOMAIN tree[f.target][n],
               Going(s, goto(tree[f.target][n][k].id))
        PROVE  Moves(s)
    <3>1. tree[f.target][n][k].id \in Ids
      BY <1>9, <1>12, <2>3
    <3>2. Follows(s, goto(tree[f.target][n][k].id))
      BY <1>6, <1>12, <3>1
    <3> QED BY <1>7, <2>3, <3>2
  <2> QED BY <2>1, <2>2, <2>3
<1> QED BY <1>10, <1>11, <1>12

LEMMA StepMoves ==
  ASSUME TypesOK, NEW s \in Shells, Step(s)
  PROVE  Moves(s)
BY CopyFileMoves, CopyDirMoves, RemoveMoves, RmMoves, CpMoves, MvMoves, CdMoves DEF Step

-----------------------------------------------------------------------------
(* A name is a directory's only by a number.                               *)
LEMMA NamedIds ==
  ASSUME NEW t \in [Ids -> [Names -> Seq(EntryType)]], NEW d \in Ids, NEW n \in Names
  PROVE  Named(t, d, n) \subseteq Ids
BY Typed, NamedIs

(* The name that rm -r was given.                                          *)
LEMMA BaseName ==
  ASSUME NEW p \in ShellType, p.stack # <<>>, Base(p).op = "rmr"
  PROVE  Goal(p) = Base(p).n /\ Goal(p) \in Names /\ p.cwd \in Ids
<1>1. Base(p) \in FrameType
  BY StackIs
<1>2. Base(p) \in RmrFrames
  BY <1>1, FrameKinds
<1>3. Goal(p) = Base(p).n
  BY DEF Goal
<1> QED BY <1>2, <1>3 DEF RmrFrames, ShellType

LEMMA RemovesType ==
  ASSUME NEW p \in ShellType, NEW t, NEW S, NEW k \in 1 .. Len(p.stack) - 1,
         RemovesIn(t, p, S, p.stack[k])
  PROVE  p.stack[k] \in RemoveFrames
<1>1. p.stack \in Seq(FrameType)
  BY DEF ShellType
<1> HIDE DEF FrameType
<1>2. p.stack[k] \in FrameType
  BY <1>1
<1> QED BY <1>2, FrameKinds DEF RemovesIn

(* A change of the tree that brings no directory in leaves a removal where *)
(* it may be.                                                              *)
LEMMA ErasingOn ==
  ASSUME StoreInv, TreeStep, Dirs(tree') \subseteq Dirs(tree), NEW p, p.cwd \in Ids,
         Goal(p) \in Names, NEW S \in SUBSET Ids, Erasing(tree, p, S)
  PROVE  Erasing(tree', p, S)
<1>1. \A c \in Ids, m \in Names : Named(tree', c, m) \subseteq Named(tree, c, m)
  BY NamedShrinks
<1>2. Closed(tree', S)
  BY <1>1 DEF Closed, Erasing
<1>3. Named(tree', p.cwd, Goal(p)) \subseteq S
  BY <1>1 DEF Erasing
<1>4. \A k \in 1 .. Len(p.stack) - 1 : RemovesIn(tree', p, S, p.stack[k])
  BY DEF RemovesIn, Erasing
<1> QED BY <1>2, <1>3, <1>4 DEF Erasing

(* A change of the tree leaves a shell's rm -r where it may be: while no   *)
(* directory comes in, and after that because every directory is allowed.  *)
LEMMA RmAround ==
  ASSUME StoreInv, TreeStep, NEW p \in ShellType, NEW S \in SUBSET Ids, RmInv(tree, p, S)
  PROVE  RmInv(tree', p, IF Dirs(tree') \subseteq Dirs(tree) THEN S ELSE Ids)
<1> DEFINE U == IF Dirs(tree') \subseteq Dirs(tree) THEN S ELSE Ids
           n == Goal(p)
<1> SUFFICES ASSUME p.stack # <<>>, Base(p).op = "rmr"
             PROVE  Erasing(tree', p, U)
  BY DEF RmInv
<1>1. Erasing(tree, p, S)
  BY DEF RmInv
<1>2. n \in Names /\ p.cwd \in Ids
  BY BaseName
<1>3. tree' \in [Ids -> [Names -> Seq(EntryType)]]
  BY TreeStepInv DEF StoreInv, StoreTypeOK
<1>4. CASE Dirs(tree') \subseteq Dirs(tree)
  BY <1>1, <1>2, <1>4, ErasingOn
<1>5. CASE ~(Dirs(tree') \subseteq Dirs(tree))
  <2>1. Closed(tree', Ids) /\ Named(tree', p.cwd, n) \subseteq Ids
    BY <1>2, <1>3, NamedIds DEF Closed
  <2>2. ASSUME NEW k \in 1 .. Len(p.stack) - 1 PROVE RemovesIn(tree', p, Ids, p.stack[k])
    <3>1. RemovesIn(tree, p, S, p.stack[k])
      BY <1>1 DEF Erasing
    <3>2. p.stack[k] \in RemoveFrames
      BY <3>1, RemovesType
    <3>3. None \notin Dirs(tree')
      BY <1>3, DirsAreIds, ShellAssumption
    <3>4. p.stack[k].ino \in Ids \/ p.stack[k].ino \notin Dirs(tree')
      BY <3>2, <3>3 DEF RemoveFrames, Inodes
    <3> QED BY <3>1, <3>4 DEF RemovesIn
  <2> QED BY <1>5, <2>1, <2>2 DEF Erasing
<1> QED BY <1>4, <1>5

(* What a removal goes on with in the same tree.                           *)
LEMMA RmBack ==
  ASSUME NEW p \in ShellType, p.stack # <<>>, Len(p.stack) > 1, NEW S, Erasing(tree, p, S),
         NEW r \in Int
  PROVE  Erasing(tree, Back(p, r), S)
<1> DEFINE x == Back(p, r)
<1>0. Len(p.stack) \in Nat \ {0}
  BY StackIs
<1>1. /\ x.cwd = p.cwd /\ Len(x.stack) = Len(p.stack) - 1
      /\ \A k \in 1 .. Len(p.stack) - 1 : x.stack[k] = p.stack[k + 1]
      /\ Base(x) = Base(p)
  BY BackStack
<1> HIDE DEF x
<1>2. /\ Closed(tree, S)
      /\ Named(tree, p.cwd, Goal(p)) \subseteq S
      /\ \A k \in 1 .. Len(p.stack) - 1 : RemovesIn(tree, p, S, p.stack[k])
  BY DEF Erasing
<1>3. Goal(x) = Goal(p)
  BY <1>1 DEF Goal
<1>4. ASSUME NEW k \in 1 .. Len(x.stack) - 1 PROVE RemovesIn(tree, x, S, x.stack[k])
  <2>1. k + 1 \in 1 .. Len(p.stack) - 1 /\ x.stack[k] = p.stack[k + 1]
    BY <1>0, <1>1
  <2>2. RemovesIn(tree, p, S, x.stack[k])
    BY <1>2, <2>1
  <2> QED BY <1>1, <1>3, <2>2 DEF RemovesIn
<1> QED BY <1>1, <1>2, <1>3, <1>4 DEF Erasing, x

LEMMA RmAt ==
  ASSUME NEW p \in ShellType, p.stack # <<>>, NEW S, Erasing(tree, p, S),
         Len(p.stack) > 1, NEW f \in FrameType, f.op = Head(p.stack).op, RemovesIn(tree, p, S, f)
  PROVE  Erasing(tree, At(p, f), S)
<1> DEFINE x == At(p, f)
<1>0. Len(p.stack) \in Nat \ {0}
  BY StackIs
<1>1. /\ x.cwd = p.cwd /\ Len(x.stack) = Len(p.stack) /\ x.stack[1] = f
      /\ \A k \in 2 .. Len(p.stack) : x.stack[k] = p.stack[k]
      /\ Base(x) = Base(p)
  BY AtStack
<1> HIDE DEF x
<1>2. /\ Closed(tree, S)
      /\ Named(tree, p.cwd, Goal(p)) \subseteq S
      /\ \A k \in 1 .. Len(p.stack) - 1 : RemovesIn(tree, p, S, p.stack[k])
  BY DEF Erasing
<1>5. Goal(x) = Goal(p)
  BY <1>1 DEF Goal
<1>3. ASSUME NEW k \in 1 .. Len(x.stack) - 1 PROVE RemovesIn(tree, x, S, x.stack[k])
  <2>1. k = 1 \/ k \in 2 .. Len(p.stack)
    BY <1>0, <1>1
  <2>2. RemovesIn(tree, p, S, x.stack[k])
    BY <1>1, <1>2, <2>1
  <2> QED BY <1>1, <1>5, <2>2 DEF RemovesIn
<1>4. Erasing(tree, x, S)
  BY <1>1, <1>2, <1>3, <1>5 DEF Erasing
<1> QED BY <1>4 DEF x

LEMMA RmInto ==
  ASSUME NEW p \in ShellType, p.stack # <<>>, NEW S, Erasing(tree, p, S),
         Len(p.stack) > 1, NEW f \in FrameType, f.op = Head(p.stack).op, RemovesIn(tree, p, S, f),
         NEW g \in FrameType, RemovesIn(tree, p, S, g)
  PROVE  Erasing(tree, Into(p, f, g), S)
<1> DEFINE x == Into(p, f, g)
<1>0. Len(p.stack) \in Nat \ {0}
  BY StackIs
<1>1. /\ x.cwd = p.cwd /\ Len(x.stack) = Len(p.stack) + 1 /\ x.stack[1] = g /\ x.stack[2] = f
      /\ \A k \in 2 .. Len(p.stack) : x.stack[k + 1] = p.stack[k]
      /\ Base(x) = Base(p)
  BY IntoStack
<1> HIDE DEF x
<1>2. /\ Closed(tree, S)
      /\ Named(tree, p.cwd, Goal(p)) \subseteq S
      /\ \A k \in 1 .. Len(p.stack) - 1 : RemovesIn(tree, p, S, p.stack[k])
  BY DEF Erasing
<1>5. Goal(x) = Goal(p)
  BY <1>1 DEF Goal
<1>3. ASSUME NEW k \in 1 .. Len(x.stack) - 1 PROVE RemovesIn(tree, x, S, x.stack[k])
  <2>1. CASE k = 1 \/ k = 2
    <3>1. RemovesIn(tree, p, S, x.stack[k])
      BY <1>1, <2>1
    <3> QED BY <1>1, <1>5, <3>1 DEF RemovesIn
  <2>2. CASE k # 1 /\ k # 2
    <3>1. k - 1 \in 2 .. Len(p.stack) /\ k - 1 \in 1 .. Len(p.stack) - 1 /\ (k - 1) + 1 = k
      BY <1>0, <1>1, <2>2
    <3>2. x.stack[k] = p.stack[k - 1]
      BY <1>1, <3>1
    <3>3. RemovesIn(tree, p, S, x.stack[k])
      BY <1>2, <3>1, <3>2
    <3> QED BY <1>1, <1>5, <3>3 DEF RemovesIn
  <2> QED BY <2>1, <2>2
<1>4. Erasing(tree, x, S)
  BY <1>1, <1>2, <1>3, <1>5 DEF Erasing
<1> QED BY <1>4 DEF x

(* At most the entry n of d changes in a step.                              *)
Inside(d, n) == \A c \in Ids, m \in Names : tree'[c][m] # tree[c][m] => c = d /\ m = n

LEMMA DeleteInside ==
  ASSUME StoreInv, NEW s, NEW d, NEW n \in Names, NEW type \in {"reg", "dir"},
         NEW good, NEW bad, Deleting(s, d, n, type, good, bad)
  PROVE  Inside(d, n) /\ (Goes(s, good) \/ Goes(s, bad))
BY DeleteCases DEF Inside

(* A step of remove_recursive inside the recursion.                        *)
LEMMA RmInner ==
  ASSUME TypesOK, NEW s \in Shells, Busy(s), Remove(s) \/ RemoveEach(s),
         NEW S, Erasing(tree, sh[s], S), Goal(sh[s]) \in Names, Len(sh[s].stack) > 1,
         RemovesIn(tree, sh[s], S, Top(s))
  PROVE  Inside(Top(s).d, Top(s).n) /\ \E x : Goes(s, x) /\ Erasing(tree, x, S)
<1> DEFINE p == sh[s]
           f == Top(s)
<1> SUFFICES Inside(f.d, f.n) /\ \E x : Goes(s, x) /\ Erasing(tree, x, S)
  OBVIOUS
<1>1. f \in FrameType /\ p \in ShellType /\ StoreInv
  BY StackFollows DEF TypesOK
<1>2. f.op = "remove" /\ f \in RemoveFrames
  BY <1>1, FrameKinds DEF RemovesIn
<1>3. f.n \in Names /\ f.ino \in Inodes /\ p.stack # <<>> /\ f = Head(p.stack)
  BY <1>2 DEF RemoveFrames, Busy, Top
<1>4. Erasing(tree, Back(p, 0), S)
  BY <1>1, <1>3, RmBack
<1>5. ASSUME NEW g \in RemoveFrames, g.d = f.d, g.n = f.n,
             g.at = "list" => g.ino \in S \/ g.ino \notin Dirs(tree),
             g.at \in {"each", "dir"} => g.ino \in S
      PROVE  /\ Erasing(tree, At(p, g), S) /\ g.op = f.op /\ g \in FrameType
             /\ RemovesIn(tree, p, S, g)
  <2>1. g.op = f.op /\ g \in FrameType
    BY <1>2 DEF RemoveFrames, FrameType
  <2>2. RemovesIn(tree, p, S, g)
    BY <1>2, <1>5, <2>1 DEF RemovesIn
  <2> QED BY <1>1, <1>3, <2>1, <2>2, RmAt
<1>6. /\ Closed(tree, S) /\ Named(tree, p.cwd, Goal(p)) \subseteq S
      /\ f.d \in S \/ (f.d = p.cwd /\ f.n = Goal(p))
      /\ f.at = "list" => f.ino \in S \/ f.ino \notin Dirs(tree)
      /\ f.at \in {"each", "dir"} => f.ino \in S
  BY <1>3 DEF Erasing, RemovesIn
<1>7. ASSUME tree' = tree, NEW x, Goes(s, x), Erasing(tree, x, S)
      PROVE  Inside(f.d, f.n) /\ \E y : Goes(s, y) /\ Erasing(tree, y, S)
  BY <1>7 DEF Inside
<1> HIDE DEF f, p
<1>8. CASE /\ f.at = "file"
           /\ Deleting(s, f.d, f.n, "reg", Back(p, 0), At(p, [f EXCEPT !.at = "find"]))
  <2> DEFINE g == [f EXCEPT !.at = "find"]
             x == At(p, g)
  <2>1. g \in RemoveFrames /\ g.d = f.d /\ g.n = f.n /\ g.at = "find"
    BY <1>2 DEF RemoveFrames
  <2> HIDE DEF g
  <2>2. Erasing(tree, x, S)
    BY <1>5, <2>1
  <2>3. Deleting(s, f.d, f.n, "reg", Back(p, 0), x)
    BY <1>8 DEF g
  <2> HIDE DEF x
  <2>4. Goes(s, Back(p, 0)) \/ Goes(s, x)
    BY <1>1, <1>3, <2>3, DeleteInside
  <2>5. Inside(f.d, f.n)
    BY <1>1, <1>3, <2>3, DeleteInside
  <2> QED BY <1>4, <2>2, <2>4, <2>5
<1>9. CASE /\ f.at = "find"
           /\ Finding(s, f.d, f.n,
                      At(p, [f EXCEPT !.at = "list", !.ino = InodeNamed(f.d, f.n)]), Back(p, 0))
  <2> DEFINE i == InodeNamed(f.d, f.n)
             g == [f EXCEPT !.at = "list", !.ino = i]
             x == At(p, g)
  <2>1. /\ tree' = tree
        /\ \/ f.d \in Dirs(tree) /\ Holds(tree, f.d, f.n) /\ i = Head(tree[f.d][f.n]).id
              /\ Goes(s, x)
           \/ Goes(s, Back(p, 0))
    BY <1>9, FindCases
  <2>2. i \in Inodes
    BY <1>1, <1>3, InodeNamedType
  <2>3. CASE /\ f.d \in Dirs(tree) /\ Holds(tree, f.d, f.n) /\ i = Head(tree[f.d][f.n]).id
             /\ Goes(s, x)
    <3>1. i \in Dirs(tree) => i \in Named(tree, f.d, f.n)
      BY <1>1, <1>3, <2>3, FoundIs
    <3>2. Named(tree, f.d, f.n) \subseteq S
      BY <1>3, <1>6 DEF Closed
    <3> HIDE DEF i
    <3>3. g \in RemoveFrames /\ g.d = f.d /\ g.n = f.n /\ g.at = "list" /\ g.ino = i
      BY <1>2, <2>2 DEF RemoveFrames
    <3> HIDE DEF g
    <3>4. Erasing(tree, x, S)
      BY <1>5, <3>1, <3>2, <3>3
    <3> QED BY <1>7, <2>1, <2>3, <3>4
  <2>4. CASE Goes(s, Back(p, 0))
    BY <1>4, <1>7, <2>1, <2>4
  <2> QED BY <2>1, <2>3, <2>4
<1>10. CASE /\ f.at = "list"
            /\ Looking(s, ListCode(tree, f.ino),
                       At(p, [f EXCEPT !.at = "each", !.todo = Listing(tree, f.ino)]), Back(p, 0))
  <2> DEFINE todo == Listing(tree, f.ino)
             g == [f EXCEPT !.at = "each", !.todo = todo]
             x == At(p, g)
  <2>1. tree' = tree /\ ((ListCode(tree, f.ino) = 0 /\ Goes(s, x)) \/ Goes(s, Back(p, 0)))
    BY <1>10, LookCases
  <2>2. CASE ListCode(tree, f.ino) = 0 /\ Goes(s, x)
    <3>1. todo \subseteq Todo
      BY <1>1, <2>2, ListingType
    <3>2. f.ino \in S
      BY <1>6, <1>10, <2>2 DEF ListCode
    <3> HIDE DEF todo
    <3>3. g \in RemoveFrames /\ g.d = f.d /\ g.n = f.n /\ g.at = "each" /\ g.ino = f.ino
      BY <1>2, <3>1 DEF RemoveFrames
    <3> HIDE DEF g
    <3>4. Erasing(tree, x, S)
      BY <1>5, <3>2, <3>3
    <3> QED BY <1>7, <2>1, <2>2, <3>4
  <2>3. CASE Goes(s, Back(p, 0))
    BY <1>4, <1>7, <2>1, <2>3
  <2> QED BY <2>1, <2>2, <2>3
<1>11. CASE f.at = "dir" /\ Deleting(s, f.d, f.n, "dir", Back(p, 0), Back(p, 0))
  <2>1. Goes(s, Back(p, 0)) \/ Goes(s, Back(p, 0))
    BY <1>1, <1>3, <1>11, DeleteInside
  <2>2. Inside(f.d, f.n)
    BY <1>1, <1>3, <1>11, DeleteInside
  <2> QED BY <1>4, <2>1, <2>2
<1>12. CASE f.at = "each" /\ Going(s, At(p, [f EXCEPT !.at = "dir"]))
  <2> DEFINE g == [f EXCEPT !.at = "dir"]
  <2>1. g \in RemoveFrames /\ g.d = f.d /\ g.n = f.n /\ g.at = "dir" /\ g.ino = f.ino
    BY <1>2 DEF RemoveFrames
  <2>2. f.ino \in S
    BY <1>6, <1>12
  <2>3. tree' = tree /\ Goes(s, At(p, g))
    BY <1>12, GoCases
  <2> HIDE DEF g
  <2> QED BY <1>5, <1>7, <2>1, <2>2, <2>3
<1>13. ASSUME f.at = "each", NEW e \in f.todo, Going(s, Into(p, Later(f, e), RemoveChild(f, e)))
       PROVE  Inside(f.d, f.n) /\ \E y : Goes(s, y) /\ Erasing(tree, y, S)
  <2> DEFINE g == Later(f, e)
             h == RemoveChild(f, e)
  <2>1. e.name \in Names /\ f.ino \in S
    BY <1>2, <1>6, <1>13 DEF RemoveFrames, Todo
  <2>2. g \in RemoveFrames /\ g.d = f.d /\ g.n = f.n /\ g.at = "each" /\ g.ino = f.ino
    BY <1>2, <1>13 DEF RemoveFrames, Later
  <2>3. h \in RemoveFrames /\ h.op = "remove" /\ h.d = f.ino /\ h.at = "file"
    BY <1>3, <2>1 DEF RemoveChild, RemoveFrame, RemoveFrames, Inodes
  <2> HIDE DEF g, h
  <2>4. g.op = f.op /\ g \in FrameType /\ RemovesIn(tree, p, S, g)
    BY <1>5, <2>1, <2>2
  <2>5. h \in FrameType /\ RemovesIn(tree, p, S, h)
    BY <2>1, <2>3 DEF FrameType, RemovesIn
  <2>6. Erasing(tree, Into(p, g, h), S)
    <3>1. /\ Erasing(tree, p, S) /\ Len(p.stack) > 1
          /\ f = Head(p.stack) /\ p.stack # <<>> /\ p \in ShellType
      BY <1>1, <1>3 DEF p
    <3> QED BY <2>4, <2>5, <3>1, RmInto
  <2>7. tree' = tree /\ Goes(s, Into(p, g, h))
    BY <1>13, GoCases DEF g, h
  <2> QED BY <1>7, <2>6, <2>7
<1>14. CASE Remove(s)
  BY <1>8, <1>9, <1>10, <1>11, <1>14 DEF Remove, f, p
<1>15. CASE RemoveEach(s)
  BY <1>12, <1>13, <1>15 DEF RemoveEach, f, p
<1> QED BY <1>14, <1>15

(* Where rm -r is the command, only it and remove_recursive run.           *)
LEMMA RmOwn ==
  ASSUME IInv, NEW s \in Shells, Step(s)
  PROVE  /\ RmInv(tree, sh'[s], scope[s])
         /\ Base(sh[s]).op = "rmr" =>
              \A c \in Ids \ scope[s], m \in Names :
                tree'[c][m] # tree[c][m] => c = sh[s].cwd /\ m = Base(sh[s]).n
<1> DEFINE p == sh[s]
           f == Top(s)
           S == scope[s]
           Own == /\ \E x : Goes(s, x) /\ RmInv(tree, x, S)
                  /\ tree' = tree \/ (Inside(f.d, f.n) /\ RemovesIn(tree, p, S, f))
<1>1. /\ TypesOK /\ Busy(s) /\ p \in ShellType /\ p.stack # <<>> /\ RmInv(tree, p, S)
      /\ sh \in [Shells -> ShellType]
  BY DEF IInv, TypesOK, Step, Busy
<1>2. CASE Base(p).op # "rmr"
  <2>1. PICK x : Follows(s, x) /\ Goes(s, x)
    BY <1>1, StepMoves DEF Moves
  <2>2. sh'[s] = x
    BY <1>1, <2>1 DEF Goes
  <2> QED BY <1>2, <2>1, <2>2 DEF Follows, RmInv
<1>3. CASE Base(p).op = "rmr"
  <2>1. Len(p.stack) \in Nat \ {0} /\ f = p.stack[1] /\ f \in FrameType
    BY <1>1, StackIs DEF Top
  <2>0. Erasing(tree, p, S) /\ Goal(p) = Base(p).n /\ Goal(p) \in Names
    BY <1>1, <1>3, BaseName DEF RmInv
  <2>2. Own
    <3>1. CASE Len(p.stack) = 1
      <4>1. f.op = "rmr"
        BY <1>3, <2>1, <3>1 DEF Base
      <4>2. RmrStep(s)
        BY <4>1 DEF Step, CopyFile, CopyDir, CopyEach, Remove, RemoveEach, RmStep, CpStep, MvStep, CdStep
      <4>3. tree' = tree /\ Goes(s, Back(p, 0))
        BY <4>2, GoCases DEF RmrStep
      <4>4. Back(p, 0).stack = <<>>
        <5> HIDE DEF p
        <5>1. Back(p, 0).stack # <<>> <=> Len(p.stack) > 1
          BY <1>1, BackStack
        <5> QED BY <3>1, <5>1
      <4>5. RmInv(tree, Back(p, 0), S)
        BY <4>4 DEF RmInv
      <4> QED BY <4>3, <4>5
    <3>2. CASE Len(p.stack) > 1
      <4>1. RemovesIn(tree, p, S, f)
        BY <2>0, <2>1, <3>2 DEF Erasing
      <4>2. Remove(s) \/ RemoveEach(s)
        BY <4>1 DEF RemovesIn, Step, CopyFile, CopyDir, CopyEach, RmStep, RmrStep, CpStep, MvStep, CdStep
      <4>3. Inside(f.d, f.n) /\ \E x : Goes(s, x) /\ Erasing(tree, x, S)
        BY <1>1, <2>0, <3>2, <4>1, <4>2, RmInner
      <4> QED BY <4>1, <4>3 DEF RmInv
    <3>3. \A k \in Nat \ {0} : k = 1 \/ k > 1
      OBVIOUS
    <3> HIDE DEF Own, f, p
    <3> QED BY <2>1, <3>1, <3>2, <3>3
  <2>3. RmInv(tree, sh'[s], S)
    BY <1>1, <2>2 DEF Goes
  <2>4. ASSUME NEW c \in Ids \ S, NEW m \in Names, tree'[c][m] # tree[c][m]
        PROVE  c = p.cwd /\ m = Base(p).n
    BY <2>0, <2>2, <2>4 DEF Inside, RemovesIn
  <2> QED BY <2>3, <2>4
<1> QED BY <1>2, <1>3

LEMMA CreateKeeps ==
  ASSUME TypesOK, NEW s \in Shells, Create(s)
  PROVE  TreeStep /\ ScopeStep /\ sh' = sh
<1>1. PICK line \in Lines[s] :
        /\ line[1] \in {"mkdir", "touch", "echo"}
        /\ Writing(s, sh[s].cwd, line[2], IF line[1] = "mkdir" THEN "dir" ELSE "reg",
                   IF line[1] = "echo" THEN line[3] ELSE <<>>, sh[s], sh[s])
  BY DEF Create
<1> DEFINE type == IF line[1] = "mkdir" THEN "dir" ELSE "reg"
           data == IF line[1] = "echo" THEN line[3] ELSE <<>>
           n    == line[2]
           d    == sh[s].cwd
           p    == sh[s]
<1>2. \/ line \in {"rm", "rmr", "mkdir", "touch"} \X Names
      \/ line \in {"cp", "cpr", "mv"} \X Names \X Names
      \/ line \in {"cd"} \X Seq(Names \cup {".."})
      \/ line \in {"echo"} \X Names \X Seq(Cells)
  BY ShellAssumption
<1>3. n \in Names /\ (line[1] = "echo" => line[3] \in Seq(Cells))
  BY <1>1, <1>2
<1>4. data \in Seq(Cells) /\ type \in {"reg", "dir"} /\ (LinesFit => Len(data) <= Room)
  <2>1. Len(<<>>) <= Room
    BY ShellAssumption
  <2> QED BY <1>1, <1>3, <2>1 DEF LinesFit
<1>5. Writing(s, d, n, type, data, p, p) /\ StoreInv
  BY <1>1 DEF TypesOK
<1> HIDE DEF type, data, n, d, p
<1>6. TreeStep /\ ScopeStep /\ (Goes(s, p) \/ Goes(s, p))
  BY <1>3, <1>4, <1>5, WriteCases
<1> QED BY <1>6 DEF Goes, p, TypesOK

(* The frames that a line starts with.                                     *)
LEMMA FramesAre ==
  ASSUME NEW s \in Shells, NEW line \in Lines[s], NEW cwd \in Ids,
         line[1] \in {"cd", "rm", "rmr", "cp", "cpr", "mv"}, Frames(line, cwd) # <<>>
  PROVE  LET st == Frames(line, cwd)
         IN  /\ st \in Seq(FrameType)
             /\ st[Len(st)].op = "rmr" => line[1] = "rmr"
             /\ line[1] # "rmr" => Len(st) = 1
             /\ line[1] = "rmr" =>
                  /\ line[2] \in Names
                  /\ st = <<RemoveFrame(cwd, line[2]), [op |-> "rmr", n |-> line[2]]>>
<1> DEFINE st == Frames(line, cwd)
<1>0. \/ line \in {"rm", "rmr", "mkdir", "touch"} \X Names
      \/ line \in {"cp", "cpr", "mv"} \X Names \X Names
      \/ line \in {"cd"} \X Seq(Names \cup {".."})
      \/ line \in {"echo"} \X Names \X Seq(Cells)
  BY ShellAssumption
<1> SUFFICES /\ st \in Seq(FrameType)
             /\ st[Len(st)].op = "rmr" => line[1] = "rmr"
             /\ line[1] # "rmr" => Len(st) = 1
             /\ line[1] = "rmr" =>
                  /\ line[2] \in Names
                  /\ st = <<RemoveFrame(cwd, line[2]), [op |-> "rmr", n |-> line[2]]>>
  OBVIOUS
<1>1. CASE line[1] = "cd"
  <2> DEFINE g == [op |-> "cd", path |-> line[2], target |-> cwd]
  <2>1. st = <<g>>
    BY <1>1 DEF Frames
  <2>2. line[2] \in Seq(Names \cup {".."})
    BY <1>0, <1>1
  <2>3. g \in CdFrames
    BY <2>2 DEF CdFrames
  <2>4. g \in FrameType /\ g.op = "cd"
    BY <2>3 DEF FrameType, CdFrames
  <2> HIDE DEF st, g
  <2> QED BY <1>1, <2>1, <2>4
<1>2. CASE line[1] = "rm"
  <2> DEFINE g == [op |-> "rm", at |-> "file", n |-> line[2]]
  <2>1. st = <<g>>
    BY <1>2 DEF Frames
  <2>2. line[2] \in Names
    BY <1>0, <1>2
  <2>3. g \in RmFrames
    BY <2>2 DEF RmFrames
  <2>4. g \in FrameType /\ g.op = "rm"
    BY <2>3 DEF FrameType, RmFrames
  <2> HIDE DEF st, g
  <2> QED BY <1>2, <2>1, <2>4
<1>3. CASE line[1] = "rmr"
  <2> DEFINE g == [op |-> "rmr", n |-> line[2]]
             h == RemoveFrame(cwd, line[2])
  <2>1. st = <<h, g>>
    BY <1>3 DEF Frames
  <2>2. line[2] \in Names
    BY <1>0, <1>3
  <2>3. g \in RmrFrames /\ h \in RemoveFrames
    BY <2>2 DEF RmrFrames, RemoveFrame, RemoveFrames, Inodes
  <2>4. g \in FrameType /\ h \in FrameType
    BY <2>3 DEF FrameType
  <2>5. <<h, g>> \in Seq(FrameType)
    <3> HIDE DEF g, h
    <3> QED BY <2>4
  <2> QED BY <1>3, <2>1, <2>2, <2>5
<1>4. CASE line[1] \in {"cp", "cpr"}
  <2> DEFINE g == [op |-> "cp", at |-> "source", rec |-> line[1] = "cpr", from |-> line[2],
                   to |-> line[3], src |-> None]
  <2>1. st = <<g>>
    BY <1>4 DEF Frames
  <2>2. line[2] \in Names /\ line[3] \in Names
    BY <1>0, <1>4
  <2>3. g \in CpFrames
    BY <2>2 DEF CpFrames, Inodes
  <2>4. g \in FrameType /\ g.op = "cp"
    BY <2>3 DEF FrameType, CpFrames
  <2> HIDE DEF st, g
  <2> QED BY <1>4, <2>1, <2>4
<1>5. CASE line[1] = "mv"
  <2> DEFINE g == [op |-> "mv", at |-> "source", from |-> line[2], to |-> line[3], src |-> None,
                   dir |-> FALSE]
  <2>1. st = <<g>>
    BY <1>5 DEF Frames
  <2>2. line[2] \in Names /\ line[3] \in Names
    BY <1>0, <1>5
  <2>3. g \in MvFrames
    BY <2>2 DEF MvFrames, Inodes
  <2>4. g \in FrameType /\ g.op = "mv"
    BY <2>3 DEF FrameType, MvFrames
  <2> HIDE DEF st, g
  <2> QED BY <1>5, <2>1, <2>4
<1> QED BY <1>1, <1>2, <1>3, <1>4, <1>5

LEMMA StartKeeps ==
  ASSUME IInv, NEW s \in Shells, Start(s)
  PROVE  IInv'
<1> DEFINE p == sh[s]
<1>1. PICK line \in Lines[s] :
        /\ line[1] \in {"cd", "rm", "rmr", "cp", "cpr", "mv"}
        /\ Frames(line, p.cwd) # <<>>
        /\ sh' = [sh EXCEPT ![s].stack = Frames(line, p.cwd)]
        /\ scope' = [scope EXCEPT ![s] =
             IF line[1] = "rmr" THEN Reach(tree, Named(tree, p.cwd, line[2])) ELSE {}]
        /\ tree' = tree
  BY DEF Start
<1>2. /\ sh \in [Shells -> ShellType] /\ scope \in [Shells -> SUBSET Ids] /\ StoreInv /\ Sized
      /\ p.cwd \in Ids
  BY DEF IInv, TypesOK, ShellType
<1>3. \/ line \in {"rm", "rmr", "mkdir", "touch"} \X Names
      \/ line \in {"cp", "cpr", "mv"} \X Names \X Names
      \/ line \in {"cd"} \X Seq(Names \cup {".."})
      \/ line \in {"echo"} \X Names \X Seq(Cells)
  BY ShellAssumption
<1> DEFINE st == Frames(line, p.cwd)
           S  == IF line[1] = "rmr" THEN Reach(tree, Named(tree, p.cwd, line[2])) ELSE {}
           x  == [p EXCEPT !.stack = st]
<1>4. /\ st \in Seq(FrameType)
      /\ st[Len(st)].op = "rmr" =>
           /\ line[1] = "rmr" /\ line[2] \in Names
           /\ st = <<RemoveFrame(p.cwd, line[2]), [op |-> "rmr", n |-> line[2]]>>
  BY <1>1, <1>2, FramesAre
<1> HIDE DEF st
<1>5. x \in ShellType /\ x.cwd = p.cwd /\ x.stack = st /\ Base(x) = st[Len(st)]
  BY <1>2, <1>4 DEF ShellType, Base
<1> HIDE DEF x
<1>6. S \in SUBSET Ids /\ RmInv(tree, x, S)
  <2>1. CASE line[1] = "rmr"
    <3> DEFINE D == Named(tree, p.cwd, line[2])
    <3>1. line[2] \in Names
      BY <1>3, <2>1
    <3>2. D \in SUBSET Ids /\ StoreTypeOK
      BY <1>2, <3>1, NamedIds DEF StoreInv, StoreTypeOK
    <3>3. S = Reach(tree, D)
      BY <2>1
    <3> HIDE DEF D, S
    <3>4. D \subseteq S /\ Closed(tree, S) /\ S \in SUBSET Ids
      BY <3>2, <3>3, ReachClosed
    <3>5. ASSUME Base(x).op = "rmr" PROVE RmInv(tree, x, S)
      <4>1. st = <<RemoveFrame(p.cwd, line[2]), [op |-> "rmr", n |-> line[2]]>>
        BY <1>4, <1>5, <3>5
      <4>2. Len(st) = 2 /\ st[1] = RemoveFrame(p.cwd, line[2]) /\ Goal(x) = line[2]
        BY <1>5, <4>1 DEF Goal
      <4>3. RemovesIn(tree, x, S, x.stack[1])
        BY <1>5, <4>2 DEF RemovesIn, RemoveFrame
      <4>4. \A k \in 1 .. Len(x.stack) - 1 : k = 1
        BY <1>5, <4>2
      <4> QED BY <1>5, <3>4, <4>2, <4>3, <4>4 DEF RmInv, Erasing, D
    <3> QED BY <3>4, <3>5 DEF RmInv
  <2>2. CASE line[1] # "rmr"
    BY <1>4, <1>5, <2>2 DEF RmInv
  <2> QED BY <2>1, <2>2
<1>7. sh' = [sh EXCEPT ![s] = x] /\ scope' = [scope EXCEPT ![s] = S] /\ tree' = tree
  BY <1>1 DEF x, st
<1> HIDE DEF S
<1>8. TypesOK'
  <2>1. StoreInv'
    BY <1>2, <1>7, Kept
  <2>2. Sized'
    BY <1>2, <1>7, TreeStepSized DEF TreeStep
  <2> QED BY <1>2, <1>5, <1>6, <1>7, <2>1, <2>2 DEF TypesOK
<1>9. ASSUME NEW z \in Shells PROVE RmInv(tree', sh'[z], scope'[z])
  <2>1. CASE z = s
    BY <1>2, <1>6, <1>7, <2>1
  <2>2. CASE z # s
    BY <1>2, <1>7, <2>2 DEF IInv
  <2> QED BY <2>1, <2>2
<1> QED BY <1>8, <1>9 DEF IInv

-----------------------------------------------------------------------------
(* The start: the root with /bin in it, and shells that do nothing.        *)
LEMMA ShellStart ==
  ASSUME ShellInit
  PROVE  IInv
<1> DEFINE e == EntryOf("dir", Bin, 0, <<>>)
<1>1. e \in EntryType /\ e.id = Bin /\ e.type = "dir"
  BY ShellAssumption DEF EntryOf, EntryType
<1>2. Bin \in Ids /\ Bin # RootId /\ BinName \in Names /\ RootId \in Ids
  BY ShellAssumption, StoreAssumption
<1> HIDE DEF e
<1>3. /\ tree \in [Ids -> [Names -> Seq(EntryType)]]
      /\ tree[RootId][BinName] = <<e>>
      /\ \A d \in Ids, n \in Names : d # RootId \/ n # BinName => tree[d][n] = <<>>
      /\ \A d \in Ids \ {RootId} : tree[d] = Nothing
  <2>1. <<>> \in Seq(EntryType) /\ <<e>> \in Seq(EntryType)
    BY <1>1
  <2>2. /\ Nothing \in [Names -> Seq(EntryType)]
        /\ [Nothing EXCEPT ![BinName] = <<e>>] \in [Names -> Seq(EntryType)]
    BY <2>1 DEF Nothing
  <2>3. tree = [d \in Ids |-> IF d = RootId THEN [Nothing EXCEPT ![BinName] = <<e>>] ELSE Nothing]
    BY DEF ShellInit, e
  <2> QED BY <1>2, <2>2, <2>3 DEF Nothing
<1>4. ASSUME NEW d \in Ids, NEW n \in Names, NEW k \in DOMAIN tree[d][n]
      PROVE  d = RootId /\ n = BinName /\ k = 1 /\ tree[d][n][k] = e
  <2>1. d = RootId /\ n = BinName
    <3> SUFFICES ASSUME d # RootId \/ n # BinName PROVE FALSE
      OBVIOUS
    <3>1. tree[d][n] = <<>>
      BY <1>3
    <3> QED BY <1>4, <3>1
  <2>2. tree[d][n] = <<e>>
    BY <1>3, <2>1
  <2>3. k = 1
    BY <1>4, <2>2
  <2> QED BY <2>1, <2>2, <2>3
<1>5. 1 \in DOMAIN tree[RootId][BinName] /\ tree[RootId][BinName][1] = e
  BY <1>3
<1>6. StoreInv
  <2>1. StoreTypeOK
    BY <1>3 DEF StoreTypeOK
  <2>2. OneEntry
    BY <1>1, <1>2, <1>4, EntryIs DEF OneEntry
  <2>3. DeadIsEmpty
    <3>1. RootId \in Dirs(tree)
      BY DirIs
    <3> QED BY <1>3, <3>1 DEF DeadIsEmpty
  <2>4. Rooted
    <3>1. ASSUME NEW S \in SUBSET (Dirs(tree) \ {RootId}), S # {}
          PROVE  \E d \in Dirs(tree) \ S, n \in Names : \E k \in DOMAIN tree[d][n] :
                   tree[d][n][k].type = "dir" /\ tree[d][n][k].id \in S
      <4>1. \A i \in Dirs(tree) : i = RootId \/ i = Bin
        BY <1>1, <1>4, DirIs
      <4>2. Bin \in S
        BY <3>1, <4>1
      <4>3. RootId \in Dirs(tree) \ S
        BY <3>1, DirIs
      <4> QED BY <1>1, <1>2, <1>5, <4>2, <4>3
    <3> QED BY <3>1 DEF Rooted
  <2> QED BY <2>1, <2>2, <2>3, <2>4 DEF StoreInv
<1>7. /\ sh \in [Shells -> ShellType] /\ scope \in [Shells -> SUBSET Ids]
      /\ \A s \in Shells : sh[s].stack = <<>>
  BY <1>2 DEF ShellInit, ShellType
<1>8. Sized
  <2>1. Fits(e)
    BY ShellAssumption DEF e, EntryOf, Fits
  <2> QED BY <1>4, <2>1 DEF Sized
<1> QED BY <1>6, <1>7, <1>8 DEF IInv, TypesOK, RmInv

LEMMA ShellNextInv ==
  ASSUME IInv, [ShellNext]_vars
  PROVE  IInv'
<1>1. /\ TypesOK /\ StoreInv /\ Sized
      /\ sh \in [Shells -> ShellType] /\ scope \in [Shells -> SUBSET Ids]
      /\ \A s \in Shells : RmInv(tree, sh[s], scope[s])
  BY DEF IInv, TypesOK
(* A step of s that leaves every other shell as it was, and s in its       *)
(* bounds for the tree before the step, keeps the invariant.               *)
<1>2. ASSUME TreeStep, ScopeStep, sh' \in [Shells -> ShellType],
             \A z \in Shells : RmInv(tree, sh'[z], scope[z])
      PROVE  IInv'
  <2> DEFINE U(z) == IF Dirs(tree') \subseteq Dirs(tree) THEN scope[z] ELSE Ids
  <2>1. /\ scope' = [z \in Shells |-> IF sh'[z].stack = <<>> THEN {} ELSE U(z)]
        /\ scope' \in [Shells -> SUBSET Ids]
    BY <1>1, <1>2 DEF ScopeStep
  <2>2. ASSUME NEW z \in Shells PROVE RmInv(tree', sh'[z], scope'[z])
    <3>1. sh'[z] \in ShellType /\ scope[z] \in SUBSET Ids /\ RmInv(tree, sh'[z], scope[z])
      BY <1>1, <1>2
    <3>2. RmInv(tree', sh'[z], U(z))
      BY <1>1, <1>2, <3>1, RmAround
    <3>3. sh'[z].stack # <<>> => scope'[z] = U(z)
      BY <2>1
    <3> HIDE DEF U
    <3> QED BY <3>2, <3>3 DEF RmInv
  <2>3. StoreInv'
    BY <1>1, <1>2, TreeStepInv
  <2>4. Sized'
    BY <1>1, <1>2, TreeStepSized
  <2> QED BY <1>2, <2>1, <2>2, <2>3, <2>4 DEF IInv, TypesOK
<1>3. ASSUME NEW s \in Shells, Step(s) PROVE IInv'
  <2>1. PICK x : TreeStep /\ ScopeStep /\ Follows(s, x) /\ Goes(s, x)
    BY <1>1, <1>3, StepMoves DEF Moves
  <2>2. sh' \in [Shells -> ShellType] /\ \A z \in Shells \ {s} : sh'[z] = sh[z]
    BY <1>1, <2>1 DEF Goes, Follows
  <2>3. RmInv(tree, sh'[s], scope[s])
    BY <1>3, RmOwn
  <2>4. \A z \in Shells : RmInv(tree, sh'[z], scope[z])
    BY <1>1, <2>2, <2>3
  <2> QED BY <1>2, <2>1, <2>2, <2>4
<1>4. ASSUME NEW s \in Shells, Create(s) PROVE IInv'
  <2>1. TreeStep /\ ScopeStep /\ sh' = sh
    BY <1>1, <1>4, CreateKeeps
  <2> QED BY <1>1, <1>2, <2>1
<1>5. ASSUME NEW s \in Shells, Start(s) PROVE IInv'
  BY <1>5, StartKeeps
<1>6. CASE UNCHANGED vars
  <2>1. StoreInv' /\ tree' = tree /\ sh' = sh /\ scope' = scope
    BY <1>1, <1>6, Kept DEF vars
  <2>2. Sized'
    BY <1>1, <2>1, TreeStepSized DEF TreeStep
  <2> QED BY <1>1, <2>1, <2>2 DEF IInv, TypesOK
<1> QED BY <1>3, <1>4, <1>5, <1>6 DEF ShellNext

(* A step of the program is no step of rm -r outside of its bounds.        *)
LEMMA ShellNextBelow ==
  ASSUME IInv, [ShellNext]_vars
  PROVE  \A s \in Shells :
           (Busy(s) /\ sh'[s] # sh[s] /\ sh[s].stack[Len(sh[s].stack)].op = "rmr") =>
             \A d \in Ids \ scope[s], n \in Names :
               tree'[d][n] # tree[d][n] =>
                 d = sh[s].cwd /\ n = sh[s].stack[Len(sh[s].stack)].n
<1> SUFFICES ASSUME NEW s \in Shells, Busy(s), sh'[s] # sh[s], Base(sh[s]).op = "rmr",
                    NEW d \in Ids \ scope[s], NEW n \in Names, tree'[d][n] # tree[d][n]
             PROVE  d = sh[s].cwd /\ n = Base(sh[s]).n
  BY DEF Base
<1>1. TypesOK /\ sh \in [Shells -> ShellType]
  BY DEF IInv, TypesOK
<1>2. PICK z \in Shells : Start(z) \/ Create(z) \/ Step(z)
  BY DEF ShellNext, vars
<1>3. ~Start(z)
  <2>1. Start(z) => tree' = tree
    BY DEF Start
  <2> QED BY <2>1
<1>4. ~Create(z)
  BY <1>1, CreateKeeps
<1>5. Step(z) /\ z = s
  <2>1. \E x : Goes(z, x)
    BY <1>1, <1>2, <1>3, <1>4, StepMoves DEF Moves
  <2> QED BY <1>1, <1>2, <1>3, <1>4, <2>1 DEF Goes
<1> QED BY <1>5, RmOwn

LEMMA ShellSpecInv == ShellSpec => []IInv
<1>1. ShellInit => IInv
  BY ShellStart
<1>2. IInv /\ [ShellNext]_vars => IInv'
  BY ShellNextInv
<1> QED BY <1>1, <1>2, PTL DEF ShellSpec

(* rm -r stays below its name, whatever the other shells delete, move and  *)
(* write between its system calls, as long as no directory comes in that   *)
(* may have the number of one that is gone (rm.c:109-242).                 *)
THEOREM RmStaysBelow == ShellSpec => RemovesBelow
<1>1. IInv /\ [ShellNext]_vars =>
        [\A s \in Shells :
           (Busy(s) /\ sh'[s] # sh[s] /\ sh[s].stack[Len(sh[s].stack)].op = "rmr") =>
             \A d \in Ids \ scope[s], n \in Names :
               tree'[d][n] # tree[d][n] =>
                 d = sh[s].cwd /\ n = sh[s].stack[Len(sh[s].stack)].n]_vars
  BY ShellNextBelow
<1> QED BY <1>1, ShellSpecInv, PTL DEF ShellSpec, RemovesBelow

(* The directories stay a tree under any commands of any shells: none      *)
(* comes loose and none is below itself (rm.c, cp.c, mv.c over             *)
(* ext2.c:515-806).                                                        *)
THEOREM ShellsKeepTree == ShellSpec => []Rooted
<1>1. IInv => Rooted
  BY DEF IInv, TypesOK, StoreInv
<1> QED BY <1>1, ShellSpecInv, PTL

(* No inode gets two names, although a move is a copy and a removal, and   *)
(* several shells copy and move at a time (cp.c, mv.c over ext2.c:515-806).*)
THEOREM ShellsNameOnce == ShellSpec => []OneEntry
<1>1. IInv => OneEntry
  BY DEF IInv, TypesOK, StoreInv
<1> QED BY <1>1, ShellSpecInv, PTL

(* A number that is given again brings nothing back: what was in a         *)
(* directory went before the directory (rm.c over ext2.c:515-806).         *)
THEOREM ShellsLeaveNothing == ShellSpec => []DeadIsEmpty
<1>1. IInv => DeadIsEmpty
  BY DEF IInv, TypesOK, StoreInv
<1> QED BY <1>1, ShellSpecInv, PTL

-----------------------------------------------------------------------------
(* How far rm -r has come: what a frame has found is there until the frame *)
(* itself removes it, and a loop has yet to meet what its directory holds. *)
NamesIn(t, d)   == {n \in Names : Holds(t, d, n)}
Within(t, f, N) == NamesIn(t, f.ino) \subseteq {e.name : e \in f.todo} \cup N

Found(t, f) ==
  /\ Holds(t, f.d, f.n)
  /\ Head(t[f.d][f.n]).type = "dir" /\ Head(t[f.d][f.n]).id = f.ino

Opened(t, f) ==
  /\ f.d \in Dirs(t)
  /\ (f.at = "find" /\ Holds(t, f.d, f.n)) => Head(t[f.d][f.n]).type = "dir"
  /\ f.at \in {"list", "each", "dir"} => Found(t, f)
  /\ f.at = "each" => f.ino \in Dirs(t)
  /\ f.at = "dir" => t[f.ino] = Nothing

(* A frame f that waits for the frame g that it has called.                *)
Waits(t, f, g) == f.at = "each" /\ g.d = f.ino /\ Within(t, f, {g.n})

Cleared(t, p) ==
  LET m == Len(p.stack)
  IN  /\ m = 1 => ~Holds(t, p.cwd, Goal(p))
      /\ m > 1 => p.stack[m - 1].d = p.cwd /\ p.stack[m - 1].n = Goal(p)
      /\ (m > 1 /\ p.stack[1].at = "each") => Within(t, p.stack[1], {})
      /\ \A k \in 1 .. m - 1 : Opened(t, p.stack[k])
      /\ \A k \in 2 .. m - 1 : Waits(t, p.stack[k], p.stack[k - 1])

(* While p runs rm -r and nobody else has changed the tree b that it began *)
(* with: only names below its own have changed, and it has missed none.    *)
Removing(t, p, b, S) ==
  (p.stack # <<>> /\ Base(p).op = "rmr" /\ b # None) =>
    /\ Dirs(b) \subseteq Ids
    /\ S = Reach(b, Named(b, p.cwd, Base(p).n))
    /\ \A c \in Ids \ S, m \in Names : (c # p.cwd \/ m # Base(p).n) => t[c][m] = b[c][m]
    /\ Single(t)
    /\ Cleared(t, p)

RemoveInv ==
  /\ IInv
  /\ DOMAIN began = Shells
  /\ \A s \in Shells : Inner(sh[s])
  /\ \A s \in Shells : Removing(tree, sh[s], began[s], scope[s])

(* A deletion in a tree without a name that is there twice.                *)
LEMMA PopIs ==
  ASSUME StoreInv, Single(tree), NEW d \in Dirs(tree), NEW n \in Names, Holds(tree, d, n),
         Head(tree[d][n]).type = "reg" \/ tree[Head(tree[d][n]).id] = Nothing,
         tree' = Pop(tree, d, n)
  PROVE  /\ ~Holds(tree', d, n) /\ Single(tree')
         /\ \A c \in Ids, m \in Names : c # d \/ m # n => tree'[c][m] = tree[c][m]
         /\ Dirs(tree') \subseteq Dirs(tree)
         /\ \A c \in Dirs(tree) : tree[c] # Nothing => c \in Dirs(tree')
<1> DEFINE s == tree[d][n]
           e == Head(s)
<1>1. tree \in [Ids -> [Names -> Seq(EntryType)]] /\ d \in Ids
  BY DirsAreIds DEF StoreInv, StoreTypeOK
<1>2. s \in Seq(EntryType) /\ s # <<>> /\ Len(s) <= 1
  BY <1>1 DEF Holds, Single
<1>3. Tail(s) = <<>> /\ e = s[1] /\ DOMAIN s = {1}
  <2> HIDE DEF s
  <2>1. Len(s) \in Nat /\ Len(s) # 0 /\ DOMAIN s = 1 .. Len(s)
    BY <1>2
  <2>2. Len(s) = 1
    BY <1>2, <2>1
  <2>3. Tail(s) \in Seq(EntryType) /\ Len(Tail(s)) = 0
    BY <1>2, <2>2
  <2>4. \A q \in Seq(EntryType) : Len(q) = 0 => q = <<>>
    OBVIOUS
  <2>5. DOMAIN s = {1}
    BY <2>1, <2>2
  <2>6. Head(s) = s[1]
    BY <1>2
  <2> QED BY <2>3, <2>4, <2>5, <2>6
<1>4. /\ tree'[d][n] = <<>>
      /\ \A c \in Ids, m \in Names : c # d \/ m # n => tree'[c][m] = tree[c][m]
  <2>1. <<>> \in Seq(EntryType)
    OBVIOUS
  <2>2. tree' = [tree EXCEPT ![d] = [tree[d] EXCEPT ![n] = <<>>]]
    BY <1>3 DEF Pop, With
  <2> HIDE DEF s
  <2> QED BY <1>1, <2>1, <2>2
<1>5. \A c \in Ids, m \in Names : \A k \in DOMAIN tree'[c][m] :
        (c # d \/ m # n) /\ tree'[c][m] = tree[c][m]
  BY <1>4
<1>6. Dirs(tree') \subseteq Dirs(tree)
  <2> SUFFICES ASSUME NEW i \in Dirs(tree') PROVE i \in Dirs(tree)
    OBVIOUS
  <2>1. i = RootId \/ \E c \in Ids, m \in Names : \E k \in DOMAIN tree'[c][m] :
          tree'[c][m][k].type = "dir" /\ tree'[c][m][k].id = i
    BY DirIs
  <2>2. i = RootId \/ \E c \in Ids, m \in Names : \E k \in DOMAIN tree[c][m] :
          tree[c][m][k].type = "dir" /\ tree[c][m][k].id = i
    BY <1>5, <2>1
  <2> QED BY <2>2, DirIs
<1>7. ASSUME NEW i \in Dirs(tree), tree[i] # Nothing PROVE i \in Dirs(tree')
  <2>1. CASE i = RootId
    BY <2>1, DirIs
  <2>2. CASE i # RootId
    <3>1. PICK c \in Ids, m \in Names : \E k \in DOMAIN tree[c][m] :
            tree[c][m][k].type = "dir" /\ tree[c][m][k].id = i
      BY <2>2, DirIs
    <3>2. c # d \/ m # n
      <4> SUFFICES ASSUME c = d, m = n PROVE FALSE
        OBVIOUS
      <4>1. e.type = "dir" /\ e.id = i
        BY <1>3, <3>1
      <4> HIDE DEF e, s
      <4>2. e.type # "reg"
        BY <4>1
      <4> QED BY <1>7, <4>1, <4>2 DEF e, s
    <3>3. tree'[c][m] = tree[c][m]
      BY <1>4, <3>2
    <3> QED BY <3>1, <3>3, DirIs
  <2> QED BY <2>1, <2>2
<1>8. Single(tree')
  <2> SUFFICES ASSUME NEW c \in Ids, NEW m \in Names PROVE Len(tree'[c][m]) <= 1
    BY DEF Single
  <2>1. CASE c = d /\ m = n
    <3>1. Len(<<>>) = 0
      OBVIOUS
    <3> QED BY <1>4, <2>1, <3>1
  <2>2. CASE c # d \/ m # n
    BY <1>4, <2>2 DEF Single
  <2> QED BY <2>1, <2>2
<1> QED BY <1>4, <1>6, <1>7, <1>8 DEF Holds

(* What the histories of the shells are after a step of s.                 *)
Histories(s) ==
  /\ DOMAIN began' = Shells
  /\ \A z \in Shells : began'[z] # None => began'[z] = began[z] /\ (z # s => tree' = tree)

LEMMA Remembered ==
  ASSUME NEW s \in Shells, NEW bad \in BOOLEAN, Remember(s, bad)
  PROVE  Histories(s) /\ (began'[s] # None => ~bad) /\ ScopeStep
BY DEF Remember, Histories, ScopeStep

LEMMA GoEnds ==
  ASSUME NEW s \in Shells, NEW x, Going(s, x)
  PROVE  Histories(s)
BY Remembered DEF Going

(* While s keeps its history, it is told of success exactly where there is *)
(* success.                                                                *)
LEMMA CallEnds ==
  ASSUME NEW s \in Shells, NEW outcomes, NEW good, NEW bad, Calling(s, outcomes, good, bad)
  PROVE  /\ Histories(s)
         /\ began'[s] # None =>
              \/ \E o \in outcomes : o.code = 0 /\ tree' = o.tree /\ Goes(s, good)
              \/ (\A o \in outcomes : o.code # 0) /\ (\E o \in outcomes : tree' = o.tree) /\ Goes(s, bad)
<1>0. PICK o \in outcomes : \E ok \in Sees(o.code) :
        /\ tree' = o.tree
        /\ sh' = [sh EXCEPT ![s] = IF ok THEN good ELSE bad]
        /\ Remember(s, (\E x \in outcomes : x.code = 0) /\ ~ok)
  BY Zenon DEF Calling
<1>1. PICK ok \in Sees(o.code) :
        /\ tree' = o.tree
        /\ sh' = [sh EXCEPT ![s] = IF ok THEN good ELSE bad]
        /\ Remember(s, (\E x \in outcomes : x.code = 0) /\ ~ok)
  BY <1>0, Zenon
<1>2. ok \in BOOLEAN /\ (ok => o.code = 0)
  BY DEF Sees
<1> DEFINE missed == (\E x \in outcomes : x.code = 0) /\ ~ok
<1>3. missed \in BOOLEAN /\ Remember(s, missed)
  BY <1>1
<1>4. /\ began'[s] # None => ~missed
      /\ Histories(s)
  <2> HIDE DEF missed
  <2> QED BY <1>3, Remembered
<1>5. CASE ok
  BY <1>1, <1>2, <1>4, <1>5 DEF Goes
<1>6. CASE ~ok
  BY <1>1, <1>4, <1>6 DEF Goes
<1> QED BY <1>2, <1>5, <1>6

LEMMA LookEnds ==
  ASSUME NEW s \in Shells, NEW code, NEW good, NEW bad, Looking(s, code, good, bad)
  PROVE  /\ Histories(s)
         /\ (began'[s] # None /\ code = 0) => Goes(s, good)
<1>1. Calling(s, {Outcome(tree, code)}, good, bad)
  BY DEF Looking
<1>2. /\ Histories(s)
      /\ began'[s] # None =>
           \/ \E o \in {Outcome(tree, code)} : o.code = 0 /\ tree' = o.tree /\ Goes(s, good)
           \/ \A o \in {Outcome(tree, code)} : o.code # 0
  BY <1>1, CallEnds
<1> QED BY <1>2 DEF Outcome

LEMMA FindEnds ==
  ASSUME NEW s \in Shells, NEW d, NEW n, NEW found, NEW lost, Finding(s, d, n, found, lost)
  PROVE  /\ Histories(s)
         /\ (began'[s] # None /\ d \in Dirs(tree)) =>
              Goes(s, IF InodeNamed(d, n) = None THEN lost ELSE found)
<1> DEFINE good == IF InodeNamed(d, n) = None THEN lost ELSE found
<1>1. Looking(s, ListCode(tree, d), good, lost)
  BY DEF Finding
<1> HIDE DEF good
<1>2. Histories(s) /\ ((began'[s] # None /\ ListCode(tree, d) = 0) => Goes(s, good))
  BY <1>1, LookEnds
<1> QED BY <1>2 DEF ListCode, good

LEMMA DeleteEnds ==
  ASSUME NEW s \in Shells, NEW d, NEW n \in Names, NEW type \in {"reg", "dir"},
         NEW good, NEW bad, Deleting(s, d, n, type, good, bad)
  PROVE  /\ Histories(s)
         /\ (began'[s] # None /\ d \in Dirs(tree)) =>
              \/ /\ Holds(tree, d, n) /\ Head(tree[d][n]).type = type
                 /\ type = "dir" => tree[Head(tree[d][n]).id] = Nothing
                 /\ tree' = Pop(tree, d, n) /\ Goes(s, good)
              \/ /\ ~Holds(tree, d, n) \/ Head(tree[d][n]).type # type
                   \/ (type = "dir" /\ tree[Head(tree[d][n]).id] # Nothing)
                 /\ tree' = tree /\ Goes(s, bad)
<1> DEFINE outcomes == DeleteOutcomes(tree, d, n, type)
<1>1. Calling(s, outcomes, good, bad)
  BY DEF Deleting
<1>2. /\ Histories(s)
      /\ began'[s] # None =>
           \/ \E o \in outcomes : o.code = 0 /\ tree' = o.tree /\ Goes(s, good)
           \/ (\A o \in outcomes : o.code # 0) /\ (\E o \in outcomes : tree' = o.tree) /\ Goes(s, bad)
  <2> HIDE DEF outcomes
  <2> QED BY <1>1, CallEnds
<1> DEFINE may == /\ Holds(tree, d, n) /\ Head(tree[d][n]).type = type
                  /\ type = "dir" => tree[Head(tree[d][n]).id] = Nothing
<1>3. CASE d \in Dirs(tree)
  <2>1. CASE may
    <3>1. Outcome(Pop(tree, d, n), 0) \in outcomes
      BY <1>3, <2>1 DEF DeleteOutcomes
    <3>2. \A o \in outcomes : o.code = 0 => o.tree = Pop(tree, d, n)
      BY <1>3, <2>1 DEF DeleteOutcomes, Outcome
    <3>3. Outcome(Pop(tree, d, n), 0).code = 0
      BY DEF Outcome
    <3> HIDE DEF outcomes
    <3> QED BY <1>2, <2>1, <3>1, <3>2, <3>3
  <2>2. CASE ~may
    <3>1. \A o \in outcomes : o.code # 0 /\ o.tree = tree
      BY <1>3, <2>2 DEF DeleteOutcomes, Outcome
    <3> HIDE DEF outcomes
    <3> QED BY <1>2, <2>2, <3>1
  <2> QED BY <2>1, <2>2
<1>4. CASE d \notin Dirs(tree)
  BY <1>2, <1>4
<1> QED BY <1>3, <1>4

LEMMA WriteEnds ==
  ASSUME NEW s \in Shells, NEW d, NEW n, NEW type, NEW data, NEW good, NEW bad,
         Writing(s, d, n, type, data, good, bad)
  PROVE  Histories(s)
<1> DEFINE all   == WriteOutcomes(tree, d, n, type, data)
           whole == {Outcome(Push(tree, d, n, EntryOf(type, i, Len(data), data)), 0) :
                       i \in Ids \ Used(tree)}
           full  == {o \in all : o.code \in {0, -1}} \ whole
<1>1. \/ Calling(s, all \ full, good, bad)
      \/ \E o \in full : Remember(s, Excused)
  BY DEF Writing
<1> HIDE DEF full, all
<1>2. Excused \in BOOLEAN
  BY ShellAssumption
<1> QED BY <1>1, <1>2, CallEnds, Remembered

LEMMA StepEnds ==
  ASSUME NEW s \in Shells, Step(s) \/ Create(s)
  PROVE  Histories(s)
<1>1. CASE CopyFile(s)
  BY <1>1, LookEnds, WriteEnds DEF CopyFile
<1>2. CASE CopyDir(s)
  BY <1>2, LookEnds, FindEnds, WriteEnds DEF CopyDir
<1>3. CASE CopyEach(s)
  BY <1>3, GoEnds DEF CopyEach
<1>4. CASE Remove(s)
  BY <1>4, LookEnds, FindEnds, CallEnds DEF Remove, Deleting
<1>5. CASE RemoveEach(s)
  BY <1>5, GoEnds DEF RemoveEach
<1>6. CASE RmStep(s)
  BY <1>6, CallEnds DEF RmStep, Deleting
<1>7. CASE RmrStep(s)
  BY <1>7, GoEnds DEF RmrStep
<1>8. CASE CpStep(s)
  BY <1>8, GoEnds, LookEnds, FindEnds DEF CpStep
<1>9. CASE MvStep(s)
  BY <1>9, GoEnds, LookEnds, FindEnds, CallEnds DEF MvStep, Deleting
<1>10. CASE CdStep(s)
  BY <1>10, GoEnds DEF CdStep
<1>11. CASE Create(s)
  BY <1>11, WriteEnds DEF Create
<1> QED BY <1>1, <1>2, <1>3, <1>4, <1>5, <1>6, <1>7, <1>8, <1>9, <1>10, <1>11 DEF Step

-----------------------------------------------------------------------------
(* The frame on top goes on.                                               *)
LEMMA ClearedAt ==
  ASSUME NEW t, NEW p \in ShellType, p.stack # <<>>, Len(p.stack) > 1, Cleared(t, p),
         NEW g \in FrameType, g.op = Head(p.stack).op,
         g.d = Head(p.stack).d, g.n = Head(p.stack).n, Opened(t, g), g.at = "each" => Within(t, g, {})
  PROVE  Cleared(t, At(p, g))
<1> DEFINE x == At(p, g)
           m == Len(p.stack)
<1>0. m \in Nat /\ m > 1 /\ Head(p.stack) = p.stack[1]
  BY StackIs
<1>1. /\ x.cwd = p.cwd /\ Len(x.stack) = m /\ x.stack[1] = g /\ Base(x) = Base(p)
      /\ \A k \in 2 .. m : x.stack[k] = p.stack[k]
  BY AtStack
<1>2. /\ p.stack[m - 1].d = p.cwd /\ p.stack[m - 1].n = Goal(p)
      /\ \A k \in 1 .. m - 1 : Opened(t, p.stack[k])
      /\ \A k \in 2 .. m - 1 : Waits(t, p.stack[k], p.stack[k - 1])
  BY <1>0 DEF Cleared
<1> HIDE DEF x, m
<1>20. Goal(x) = Goal(p)
  BY <1>1 DEF Goal
<1>3. x.stack[m - 1].d = p.cwd /\ x.stack[m - 1].n = Goal(p)
  <2>1. CASE m - 1 = 1
    BY <1>0, <1>1, <1>2, <2>1
  <2>2. CASE m - 1 # 1
    <3>1. m - 1 \in 2 .. m
      BY <1>0, <2>2
    <3> QED BY <1>1, <1>2, <3>1
  <2> QED BY <2>1, <2>2
<1>4. ASSUME NEW k \in 1 .. m - 1 PROVE Opened(t, x.stack[k])
  <2>1. k = 1 \/ k \in 2 .. m
    BY <1>0
  <2> QED BY <1>1, <1>2, <2>1
<1>5. ASSUME NEW k \in 2 .. m - 1 PROVE Waits(t, x.stack[k], x.stack[k - 1])
  <2>1. k \in 2 .. m /\ Waits(t, p.stack[k], p.stack[k - 1])
    BY <1>0, <1>2
  <2>2. x.stack[k] = p.stack[k]
    BY <1>1, <2>1
  <2>3. x.stack[k - 1].d = p.stack[k - 1].d /\ x.stack[k - 1].n = p.stack[k - 1].n
    <3>1. CASE k - 1 = 1
      BY <1>0, <1>1, <3>1
    <3>2. CASE k - 1 # 1
      <4>1. k - 1 \in 2 .. m
        BY <1>0, <3>2
      <4> QED BY <1>1, <4>1
    <3> QED BY <3>1, <3>2
  <2> QED BY <2>1, <2>2, <2>3 DEF Waits
<1> QED BY <1>0, <1>1, <1>3, <1>4, <1>5, <1>20 DEF Cleared, x, m

(* The frame on top calls another one, which is to begin.                  *)
LEMMA ClearedInto ==
  ASSUME NEW t, NEW p \in ShellType, p.stack # <<>>, Len(p.stack) > 1, Cleared(t, p),
         NEW f \in FrameType, f.op = Head(p.stack).op,
         f.d = Head(p.stack).d, f.n = Head(p.stack).n, Opened(t, f),
         NEW g \in FrameType, g.at = "file", Opened(t, g), Waits(t, f, g)
  PROVE  Cleared(t, Into(p, f, g))
<1> DEFINE x == Into(p, f, g)
           m == Len(p.stack)
<1>0. m \in Nat /\ m > 1 /\ Head(p.stack) = p.stack[1]
  BY StackIs
<1>1. /\ x.cwd = p.cwd /\ Len(x.stack) = m + 1 /\ x.stack[1] = g /\ x.stack[2] = f
      /\ Base(x) = Base(p)
      /\ \A k \in 2 .. m : x.stack[k + 1] = p.stack[k]
  BY IntoStack
<1>2. /\ p.stack[m - 1].d = p.cwd /\ p.stack[m - 1].n = Goal(p)
      /\ \A k \in 1 .. m - 1 : Opened(t, p.stack[k])
      /\ \A k \in 2 .. m - 1 : Waits(t, p.stack[k], p.stack[k - 1])
  BY <1>0 DEF Cleared
<1> HIDE DEF x, m
<1>20. Goal(x) = Goal(p)
  BY <1>1 DEF Goal
<1>3. x.stack[m].d = p.cwd /\ x.stack[m].n = Goal(p)
  <2>1. CASE m = 2
    BY <1>0, <1>1, <1>2, <2>1
  <2>2. CASE m # 2
    <3>1. m - 1 \in 2 .. m /\ (m - 1) + 1 = m
      BY <1>0, <2>2
    <3>2. x.stack[m] = p.stack[m - 1]
      BY <1>1, <3>1
    <3> QED BY <1>2, <3>2
  <2> QED BY <2>1, <2>2
<1>4. ASSUME NEW k \in 3 .. m
      PROVE  k - 1 \in 2 .. m - 1 /\ k - 1 \in 1 .. m - 1 /\ x.stack[k] = p.stack[k - 1]
  <2>1. k - 1 \in 2 .. m - 1 /\ k - 1 \in 1 .. m - 1 /\ k - 1 \in 2 .. m /\ (k - 1) + 1 = k
    BY <1>0
  <2>2. x.stack[(k - 1) + 1] = p.stack[k - 1]
    BY <1>1, <2>1
  <2> QED BY <2>1, <2>2
<1>5. ASSUME NEW k \in 1 .. m PROVE Opened(t, x.stack[k])
  <2>1. k = 1 \/ k = 2 \/ k \in 3 .. m
    BY <1>0
  <2> QED BY <1>1, <1>2, <1>4, <2>1
<1>6. ASSUME NEW k \in 2 .. m PROVE Waits(t, x.stack[k], x.stack[k - 1])
  <2>1. CASE k = 2
    BY <1>1, <2>1
  <2>2. CASE k = 3
    <3>1. 3 \in 3 .. m /\ 2 \in 2 .. m - 1 /\ 3 - 1 = 2 /\ 2 - 1 = 1
      BY <1>0, <2>2
    <3>2. Waits(t, p.stack[2], p.stack[1]) /\ x.stack[3] = p.stack[2]
      BY <1>2, <1>4, <3>1
    <3> QED BY <1>0, <1>1, <2>2, <3>1, <3>2 DEF Waits
  <2>3. CASE k > 3
    <3>1. k \in 3 .. m /\ k - 1 \in 3 .. m
      BY <1>0, <2>3
    <3>2. x.stack[k] = p.stack[k - 1] /\ x.stack[k - 1] = p.stack[(k - 1) - 1]
      BY <1>4, <3>1
    <3> QED BY <1>2, <1>4, <3>1, <3>2
  <2>4. k = 2 \/ k = 3 \/ k > 3
    OBVIOUS
  <2> QED BY <2>1, <2>2, <2>3, <2>4
<1>7. /\ Len(x.stack) - 1 = m /\ Len(x.stack) # 1
  BY <1>0, <1>1
<1> QED BY <1>1, <1>3, <1>5, <1>6, <1>7, <1>20 DEF Cleared, x

(* Where the frames of a stack of m are, and those on either side.         *)
Indices(m) ==
  /\ 0 \in Int /\ 1 \in 1 .. m - 1
  /\ \A k \in 2 .. m - 1 : k \in 1 .. m - 1 /\ k - 1 \in 1 .. m - 1 /\ (k - 1 = 1 \/ k - 1 \in 2 .. m - 1)
  /\ \A k \in 1 .. m - 2 : k \in 1 .. m - 1 /\ k + 1 \in 2 .. m - 1
  /\ \A k \in 2 .. m - 2 : k \in 1 .. m - 1 /\ k - 1 \in 1 .. m - 1 /\ (k - 1) + 1 = k
                           /\ k + 1 \in 2 .. m - 1 /\ (k + 1) - 1 = k
  /\ (m - 1) - 1 = m - 2
  /\ m - 1 > 1 => /\ m - 2 \in 1 .. m - 1 /\ 1 \in 1 .. m - 1 /\ 2 \in 2 .. m - 1
                  /\ (m - 2) + 1 = m - 1 /\ 2 - 1 = 1 /\ 1 + 1 = 2

LEMMA IndicesOf ==
  ASSUME NEW m \in Nat, m > 1
  PROVE  Indices(m)
BY DEF Indices

(* The frame on top returns, its name gone: what the frames under it have  *)
(* found is there.                                                         *)
LEMMA ClearedBack ==
  ASSUME StoreInv, Single(tree),
         NEW p \in ShellType, p.stack # <<>>, Len(p.stack) > 1, Cleared(tree, p),
         Goal(p) \in Names, \A k \in 1 .. Len(p.stack) - 1 : p.stack[k] \in RemoveFrames,
         \/ tree' = tree /\ ~Holds(tree, Head(p.stack).d, Head(p.stack).n)
         \/ LET d == Head(p.stack).d
                n == Head(p.stack).n
            IN  /\ Holds(tree, d, n) /\ tree' = Pop(tree, d, n)
                /\ Head(tree[d][n]).type = "reg" \/ tree[Head(tree[d][n]).id] = Nothing
  PROVE  Cleared(tree', Back(p, 0)) /\ Single(tree') /\ Dirs(tree') \subseteq Dirs(tree)
<1> DEFINE x == Back(p, 0)
           m == Len(p.stack)
           d == p.stack[1].d
           n == p.stack[1].n
<1>0. m \in Nat /\ m > 1 /\ Head(p.stack) = p.stack[1]
  BY StackIs
<1>14. Indices(m)
  <2> HIDE DEF m
  <2> QED BY <1>0, IndicesOf
<1>1. /\ x.cwd = p.cwd /\ Len(x.stack) = m - 1 /\ x.stack # <<>> /\ Base(x) = Base(p)
      /\ \A k \in 1 .. m - 1 : x.stack[k] = p.stack[k + 1]
  <2>0. 0 \in Int
    BY <1>14, Zenon DEF Indices
  <2>1. /\ x.cwd = p.cwd /\ Len(x.stack) = m - 1
        /\ x.stack # <<>> <=> m > 1
        /\ x.stack # <<>> => Base(x) = Base(p)
        /\ \A k \in 1 .. m - 1 : x.stack[k] = p.stack[k + 1]
    BY <2>0, BackStack, ZenonT(30)
  <2> HIDE DEF x
  <2> QED BY <1>0, <2>1
<1>2. /\ p.stack[m - 1].d = p.cwd /\ p.stack[m - 1].n = Goal(p)
      /\ \A k \in 1 .. m - 1 : Opened(tree, p.stack[k])
      /\ \A k \in 2 .. m - 1 : Waits(tree, p.stack[k], p.stack[k - 1])
  BY <1>0 DEF Cleared
<1>3. \A k \in 1 .. m - 1 : p.stack[k] \in RemoveFrames /\ p.stack[k].n \in Names
  BY DEF RemoveFrames
<1>4. d \in Dirs(tree) /\ d \in Ids /\ n \in Names
      /\ tree \in [Ids -> [Names -> Seq(EntryType)]] /\ Dirs(tree) \subseteq Ids
  <2>1. 1 \in 1 .. m - 1
    BY <1>14, Zenon DEF Indices
  <2>2. tree \in [Ids -> [Names -> Seq(EntryType)]] /\ Dirs(tree) \subseteq Ids
    BY DirsAreIds DEF StoreInv, StoreTypeOK
  <2>3. Opened(tree, p.stack[1]) /\ p.stack[1].n \in Names
    BY <1>2, <1>3, <2>1
  <2> HIDE DEF m
  <2> QED BY <2>2, <2>3 DEF Opened
<1> DEFINE e == Head(tree[d][n])
<1>5. \/ tree' = tree /\ ~Holds(tree, d, n)
      \/ /\ Holds(tree, d, n) /\ tree' = Pop(tree, d, n)
         /\ e.type = "reg" \/ tree[e.id] = Nothing
  BY <1>0
<1> HIDE DEF x, m, d, n, e
<1>20. Goal(x) = Goal(p)
  BY <1>1 DEF Goal
<1>6. /\ ~Holds(tree', d, n) /\ Single(tree') /\ Dirs(tree') \subseteq Dirs(tree)
      /\ \A c \in Ids, k \in Names : c # d \/ k # n => tree'[c][k] = tree[c][k]
      /\ \A c \in Dirs(tree) : tree[c] # Nothing => c \in Dirs(tree')
  <2>1. CASE tree' = tree /\ ~Holds(tree, d, n)
    BY <2>1
  <2>2. CASE /\ Holds(tree, d, n) /\ tree' = Pop(tree, d, n)
             /\ e.type = "reg" \/ tree[e.id] = Nothing
    BY <1>4, <2>2, PopIs DEF e
  <2> QED BY <1>5, <2>1, <2>2
<1>7. \A c \in Ids : NamesIn(tree', c) \subseteq NamesIn(tree, c)
  <2>1. ASSUME NEW c \in Ids, NEW k \in Names, Holds(tree', c, k) PROVE Holds(tree, c, k)
    BY <1>6, <2>1 DEF Holds
  <2> QED BY <2>1 DEF NamesIn
<1>8. ASSUME NEW k \in 2 .. m - 1
      PROVE  Opened(tree', p.stack[k]) /\ Waits(tree', p.stack[k], p.stack[k - 1])
  <2> DEFINE f == p.stack[k]
             g == p.stack[k - 1]
  <2>1. k \in 1 .. m - 1 /\ k - 1 \in 1 .. m - 1 /\ (k - 1 = 1 \/ k - 1 \in 2 .. m - 1)
    BY <1>14, Zenon DEF Indices
  <2>2. /\ Opened(tree, f) /\ Waits(tree, f, g) /\ Opened(tree, g)
        /\ f.n \in Names /\ g.n \in Names
    BY <1>2, <1>3, <2>1
  <2>3. k - 1 # 1 => g.at = "each"
    BY <1>2, <2>1 DEF Waits
  <2>4. k - 1 = 1 => g.d = d /\ g.n = n
    BY DEF d, n
  <2> HIDE DEF f, g
  <2>5. /\ f.at = "each" /\ f.d \in Dirs(tree) /\ f.d \in Ids /\ f.ino \in Dirs(tree) /\ f.ino \in Ids
        /\ Found(tree, f) /\ g.d = f.ino
    BY <1>4, <2>2 DEF Opened, Waits
  <2>6. CASE tree' = tree
    BY <2>2, <2>6 DEF f, g
  <2>7. CASE tree' # tree
    <3>1. /\ Holds(tree, d, n)
          /\ e.type = "reg" \/ tree[e.id] = Nothing
      BY <1>5, <2>7
    <3>2. Holds(tree, f.ino, g.n)
      <4>1. CASE k - 1 = 1
        BY <2>4, <2>5, <3>1, <4>1
      <4>2. CASE k - 1 # 1
        BY <2>2, <2>3, <2>5, <4>2 DEF Opened, Found
      <4> QED BY <4>1, <4>2
    <3>3. tree[f.ino] # Nothing /\ tree[f.d] # Nothing
      BY <2>2, <2>5, <3>2 DEF Holds, Nothing, Found
    <3>4. f.d # d \/ f.n # n
      <4> SUFFICES ASSUME f.d = d, f.n = n PROVE FALSE
        OBVIOUS
      <4>1. e.type = "dir" /\ e.id = f.ino
        BY <2>5 DEF Found, e
      <4>2. e.type # "reg"
        BY <4>1
      <4> QED BY <3>1, <3>3, <4>1, <4>2
    <3>5. tree'[f.d][f.n] = tree[f.d][f.n]
      BY <1>6, <2>2, <2>5, <3>4
    <3>6. f.d \in Dirs(tree') /\ f.ino \in Dirs(tree')
      BY <1>6, <2>5, <3>3
    <3>7. Found(tree', f)
      BY <2>5, <3>5 DEF Found, Holds
    <3>8. Opened(tree', f)
      BY <2>5, <3>6, <3>7 DEF Opened
    <3>9. Waits(tree', f, g)
      BY <1>7, <2>2, <2>5 DEF Waits, Within
    <3> QED BY <3>8, <3>9 DEF f, g
  <2> QED BY <2>6, <2>7 DEF f, g
<1>9. ASSUME m - 1 = 1 PROVE ~Holds(tree', x.cwd, Goal(x))
  BY <1>1, <1>2, <1>6, <1>9, <1>20 DEF d, n
<1>10. ASSUME m - 1 > 1
       PROVE  /\ x.stack[m - 2].d = x.cwd /\ x.stack[m - 2].n = Goal(x)
              /\ x.stack[1].at = "each" => Within(tree', x.stack[1], {})
  <2>1. m - 2 \in 1 .. m - 1 /\ 1 \in 1 .. m - 1 /\ 2 \in 2 .. m - 1 /\ (m - 2) + 1 = m - 1
        /\ 2 - 1 = 1 /\ 1 + 1 = 2
    BY <1>10, <1>14, Zenon DEF Indices
  <2>2. x.stack[m - 2] = p.stack[m - 1] /\ x.stack[1] = p.stack[2]
    BY <1>1, <2>1
  <2>3. Waits(tree', p.stack[2], p.stack[1])
    BY <1>8, <2>1
  <2>4. p.stack[2].ino = d /\ Within(tree', p.stack[2], {n})
    BY <2>3 DEF Waits, d, n
  <2>5. n \notin NamesIn(tree', d)
    BY <1>6 DEF NamesIn
  <2>6. Within(tree', p.stack[2], {})
    BY <2>4, <2>5 DEF Within
  <2> QED BY <1>1, <1>2, <1>20, <2>2, <2>6
<1>11. ASSUME NEW k \in 1 .. m - 2 PROVE Opened(tree', x.stack[k])
  <2>1. k \in 1 .. m - 1 /\ k + 1 \in 2 .. m - 1
    BY <1>14, Zenon DEF Indices
  <2> QED BY <1>1, <1>8, <2>1
<1>12. ASSUME NEW k \in 2 .. m - 2 PROVE Waits(tree', x.stack[k], x.stack[k - 1])
  <2>3. k \in 1 .. m - 1 /\ k - 1 \in 1 .. m - 1 /\ (k - 1) + 1 = k
    BY <1>14, Zenon DEF Indices
  <2>4. k + 1 \in 2 .. m - 1 /\ (k + 1) - 1 = k
    BY <1>14, Zenon DEF Indices
  <2>2. x.stack[k] = p.stack[k + 1] /\ x.stack[k - 1] = p.stack[k]
    BY <1>1, <2>3
  <2> QED BY <1>8, <2>2, <2>4
<1>13. Len(x.stack) - 1 = m - 2
  BY <1>1, <1>14, Zenon DEF Indices
<1> QED BY <1>0, <1>1, <1>6, <1>9, <1>10, <1>11, <1>12, <1>13 DEF Cleared, x

LEMMA FoundDir ==
  ASSUME StoreInv, NEW f, f.d \in Dirs(tree), f.n \in Names, Found(tree, f)
  PROVE  f.ino \in Dirs(tree) /\ f.ino \in Ids
<1> DEFINE s == tree[f.d][f.n]
<1>1. tree \in [Ids -> [Names -> Seq(EntryType)]] /\ f.d \in Ids /\ Dirs(tree) \subseteq Ids
  BY DirsAreIds DEF StoreInv, StoreTypeOK
<1>2. s \in Seq(EntryType) /\ s # <<>>
  BY <1>1 DEF Found, Holds
<1>3. Head(s) = s[1] /\ 1 \in DOMAIN s
  <2> HIDE DEF s
  <2> QED BY <1>2
<1>4. s[1].type = "dir" /\ s[1].id = f.ino
  BY <1>3 DEF Found
<1> QED BY <1>1, <1>3, <1>4, DirIs

(* The states that a step of rm -r may lead to.                            *)
GoesOn(p, x) ==
  /\ x.cwd = p.cwd /\ (x.stack # <<>> => Base(x) = Base(p))
  /\ Cleared(tree', x) /\ Single(tree') /\ Dirs(tree') \subseteq Dirs(tree)

(* A step of remove_recursive, told the truth about what it asked for.     *)
LEMMA RemoveGoes ==
  ASSUME TypesOK, NEW s \in Shells, Busy(s), Remove(s) \/ RemoveEach(s), Goal(sh[s]) \in Names,
         \A k \in 1 .. Len(sh[s].stack) - 1 : sh[s].stack[k] \in RemoveFrames,
         Len(sh[s].stack) > 1, began'[s] # None, Single(tree), Cleared(tree, sh[s])
  PROVE  \E x : Goes(s, x) /\ GoesOn(sh[s], x)
<1> DEFINE p == sh[s]
           f == Top(s)
           m == Len(p.stack)
<1> SUFFICES \E x : Goes(s, x) /\ GoesOn(p, x)
  OBVIOUS
<1>1. p \in ShellType /\ StoreInv /\ p.stack # <<>>
  BY DEF TypesOK, Busy
<1>2. /\ m \in Nat /\ m > 1 /\ f = Head(p.stack) /\ f = p.stack[1] /\ f \in FrameType
      /\ Goal(p) \in Names /\ Dirs(tree) \subseteq Ids
      /\ tree \in [Ids -> [Names -> Seq(EntryType)]]
  BY <1>1, StackIs, DirsAreIds DEF Top, StoreInv, StoreTypeOK
<1>3. \A k \in 1 .. m - 1 : p.stack[k] \in RemoveFrames
  OBVIOUS
<1> HIDE DEF p, f, m
<1>4. f \in RemoveFrames /\ Opened(tree, f) /\ (f.at = "each" => Within(tree, f, {}))
  <2>1. 1 \in 1 .. m - 1
    BY <1>2
  <2> QED BY <1>2, <1>3, <2>1 DEF Cleared, p, m
<1>5. f.n \in Names /\ f.d \in Dirs(tree) /\ f.op = "remove" /\ f.ino \in Inodes
  BY <1>4 DEF RemoveFrames, Opened
<1>6. ASSUME NEW g \in RemoveFrames, g.d = f.d, g.n = f.n, Opened(tree, g),
             g.at = "each" => Within(tree, g, {}), tree' = tree
      PROVE  GoesOn(p, At(p, g))
  <2>1. g \in FrameType /\ g.op = f.op
    BY <1>5 DEF RemoveFrames, FrameType
  <2>2. Cleared(tree, At(p, g))
    BY <1>1, <1>2, <1>6, <2>1, ClearedAt DEF p, m
  <2>3. At(p, g).cwd = p.cwd /\ Base(At(p, g)) = Base(p)
    BY <1>1, <1>2, <2>1, AtStack DEF m
  <2> QED BY <1>6, <2>2, <2>3 DEF GoesOn
<1>7. ASSUME \/ tree' = tree /\ ~Holds(tree, f.d, f.n)
             \/ /\ Holds(tree, f.d, f.n) /\ tree' = Pop(tree, f.d, f.n)
                /\ Head(tree[f.d][f.n]).type = "reg" \/ tree[Head(tree[f.d][f.n]).id] = Nothing
      PROVE  GoesOn(p, Back(p, 0))
  <2>1. Cleared(tree', Back(p, 0)) /\ Single(tree') /\ Dirs(tree') \subseteq Dirs(tree)
    BY <1>1, <1>2, <1>3, <1>7, ClearedBack DEF p, m
  <2>2. Back(p, 0).cwd = p.cwd /\ (Back(p, 0).stack # <<>> => Base(Back(p, 0)) = Base(p))
    BY <1>1, BackStack
  <2> QED BY <2>1, <2>2 DEF GoesOn
<1>8. CASE /\ f.at = "file"
           /\ Deleting(s, f.d, f.n, "reg", Back(p, 0), At(p, [f EXCEPT !.at = "find"]))
  <2> DEFINE g == [f EXCEPT !.at = "find"]
             x == At(p, g)
  <2>1. \/ /\ Holds(tree, f.d, f.n) /\ Head(tree[f.d][f.n]).type = "reg"
           /\ tree' = Pop(tree, f.d, f.n) /\ Goes(s, Back(p, 0))
        \/ /\ ~Holds(tree, f.d, f.n) \/ Head(tree[f.d][f.n]).type # "reg"
           /\ tree' = tree /\ Goes(s, x)
    <3>1. Deleting(s, f.d, f.n, "reg", Back(p, 0), x)
      BY <1>8
    <3> HIDE DEF x
    <3> QED BY <1>5, <3>1, DeleteEnds
  <2>2. CASE /\ Holds(tree, f.d, f.n) /\ Head(tree[f.d][f.n]).type = "reg"
             /\ tree' = Pop(tree, f.d, f.n) /\ Goes(s, Back(p, 0))
    BY <1>7, <2>2
  <2>3. CASE /\ ~Holds(tree, f.d, f.n) \/ Head(tree[f.d][f.n]).type # "reg"
             /\ tree' = tree /\ Goes(s, x)
    <3>1. Holds(tree, f.d, f.n) => Head(tree[f.d][f.n]).type = "dir"
      <4> SUFFICES ASSUME Holds(tree, f.d, f.n) PROVE Head(tree[f.d][f.n]).type = "dir"
        OBVIOUS
      <4> DEFINE e == Head(tree[f.d][f.n])
      <4>1. e \in EntryType
        BY <1>1, <1>5, FoundIs
      <4>2. e.type # "reg"
        BY <2>3
      <4> HIDE DEF e
      <4>3. e.type = "dir"
        BY <4>1, <4>2 DEF EntryType
      <4> QED BY <4>3 DEF e
    <3>2. g \in RemoveFrames /\ g.d = f.d /\ g.n = f.n /\ g.at = "find"
      BY <1>4 DEF RemoveFrames
    <3> HIDE DEF g
    <3>3. Opened(tree, g)
      BY <1>5, <3>1, <3>2 DEF Opened
    <3>4. GoesOn(p, x)
      BY <1>6, <2>3, <3>2, <3>3
    <3> QED BY <2>3, <3>4
  <2> QED BY <2>1, <2>2, <2>3
<1>9. CASE /\ f.at = "find"
           /\ Finding(s, f.d, f.n,
                      At(p, [f EXCEPT !.at = "list", !.ino = InodeNamed(f.d, f.n)]), Back(p, 0))
  <2> DEFINE i == InodeNamed(f.d, f.n)
             g == [f EXCEPT !.at = "list", !.ino = i]
             x == At(p, g)
  <2>1. tree' = tree /\ Goes(s, IF i = None THEN Back(p, 0) ELSE x)
    BY <1>5, <1>9, FindCases, FindEnds
  <2>2. CASE Holds(tree, f.d, f.n)
    <3>1. i = Head(tree[f.d][f.n]).id /\ i \in Ids
      BY <1>1, <1>5, <2>2, FoundIs DEF InodeNamed
    <3>2. i # None
      BY <3>1, ShellAssumption
    <3>3. Head(tree[f.d][f.n]).type = "dir"
      BY <1>4, <1>9, <2>2 DEF Opened
    <3> HIDE DEF i
    <3>4. g \in RemoveFrames /\ g.d = f.d /\ g.n = f.n /\ g.at = "list" /\ g.ino = i
      BY <1>4, <3>1 DEF RemoveFrames, Inodes
    <3> HIDE DEF g
    <3>5. Opened(tree, g)
      BY <1>5, <2>2, <3>1, <3>3, <3>4 DEF Opened, Found
    <3>6. GoesOn(p, x)
      BY <1>6, <2>1, <3>4, <3>5
    <3> QED BY <2>1, <3>2, <3>6
  <2>3. CASE ~Holds(tree, f.d, f.n)
    <3>1. i = None
      BY <2>3 DEF InodeNamed
    <3> HIDE DEF i, x
    <3>2. Goes(s, Back(p, 0))
      BY <2>1, <3>1
    <3> QED BY <1>7, <2>1, <2>3, <3>2
  <2> QED BY <2>2, <2>3
<1>10. CASE /\ f.at = "list"
            /\ Looking(s, ListCode(tree, f.ino),
                       At(p, [f EXCEPT !.at = "each", !.todo = Listing(tree, f.ino)]), Back(p, 0))
  <2> DEFINE todo == Listing(tree, f.ino)
             g == [f EXCEPT !.at = "each", !.todo = todo]
             x == At(p, g)
  <2>1. Found(tree, f) /\ f.ino \in Dirs(tree) /\ f.ino \in Ids
    BY <1>1, <1>4, <1>5, <1>10, FoundDir DEF Opened
  <2>2. ListCode(tree, f.ino) = 0
    BY <2>1 DEF ListCode
  <2>3. tree' = tree /\ Goes(s, x)
    BY <1>10, <2>2, LookCases, LookEnds
  <2>4. todo \subseteq Todo
    BY <1>1, <2>2, ListingType
  <2>5. NamesIn(tree, f.ino) \subseteq {e.name : e \in todo}
    <3> SUFFICES ASSUME NEW n \in Names, Holds(tree, f.ino, n) PROVE n \in {e.name : e \in todo}
      BY DEF NamesIn
    <3> DEFINE e == [name |-> n, nth |-> 1, type |-> tree[f.ino][n][1].type]
    <3>1. 1 \in DOMAIN tree[f.ino][n]
      <4> DEFINE q == tree[f.ino][n]
      <4>1. q \in Seq(EntryType) /\ q # <<>>
        BY <1>2, <2>1 DEF Holds
      <4> HIDE DEF q
      <4>2. 1 \in DOMAIN q
        BY <4>1
      <4> QED BY <4>2 DEF q
    <3>2. e \in todo /\ e.name = n
      BY <3>1 DEF Listing
    <3> HIDE DEF e, todo
    <3> QED BY <3>2
  <2> HIDE DEF todo
  <2>6. g \in RemoveFrames /\ g.d = f.d /\ g.n = f.n /\ g.at = "each" /\ g.ino = f.ino /\ g.todo = todo
    BY <1>4, <2>4 DEF RemoveFrames
  <2> HIDE DEF g
  <2>7. Opened(tree, g) /\ Within(tree, g, {})
    BY <1>5, <2>1, <2>5, <2>6 DEF Opened, Found, Within
  <2>8. GoesOn(p, x)
    BY <1>6, <2>3, <2>6, <2>7
  <2> QED BY <2>3, <2>8
<1>11. CASE f.at = "dir" /\ Deleting(s, f.d, f.n, "dir", Back(p, 0), Back(p, 0))
  <2>1. Found(tree, f) /\ tree[f.ino] = Nothing
    BY <1>4, <1>11 DEF Opened
  <2>2. /\ Holds(tree, f.d, f.n) /\ Head(tree[f.d][f.n]).type = "dir"
        /\ tree[Head(tree[f.d][f.n]).id] = Nothing
    BY <2>1 DEF Found
  <2> DEFINE x == Back(p, 0)
  <2>3. Deleting(s, f.d, f.n, "dir", x, x)
    BY <1>11
  <2> HIDE DEF x
  <2>4. tree' = Pop(tree, f.d, f.n) /\ Goes(s, x)
    BY <1>5, <2>2, <2>3, DeleteEnds
  <2> QED BY <1>7, <2>2, <2>4 DEF x
<1>12. CASE f.at = "each" /\ f.todo = {} /\ Going(s, At(p, [f EXCEPT !.at = "dir"]))
  <2> DEFINE g == [f EXCEPT !.at = "dir"]
  <2>1. g \in RemoveFrames /\ g.d = f.d /\ g.n = f.n /\ g.at = "dir" /\ g.ino = f.ino
    BY <1>4 DEF RemoveFrames
  <2>2. tree' = tree /\ Goes(s, At(p, g))
    BY <1>12, GoCases
  <2> HIDE DEF g
  <2>3. Found(tree, f) /\ f.ino \in Ids
    BY <1>1, <1>4, <1>5, <1>12, FoundDir DEF Opened
  <2>4. tree[f.ino] = Nothing
    <3>1. \A n \in Names : tree[f.ino][n] = <<>>
      BY <1>4, <1>12 DEF Within, NamesIn, Holds
    <3>2. tree[f.ino] \in [Names -> Seq(EntryType)]
      BY <1>2, <2>3
    <3> QED BY <3>1, <3>2 DEF Nothing
  <2>5. Opened(tree, g)
    BY <1>5, <2>1, <2>3, <2>4 DEF Opened, Found
  <2>6. GoesOn(p, At(p, g))
    BY <1>6, <2>1, <2>2, <2>5
  <2> QED BY <2>2, <2>6
<1>13. ASSUME f.at = "each", NEW e \in f.todo, Going(s, Into(p, Later(f, e), RemoveChild(f, e)))
       PROVE  \E x : Goes(s, x) /\ GoesOn(p, x)
  <2> DEFINE g == Later(f, e)
             h == RemoveChild(f, e)
             x == Into(p, g, h)
  <2>1. e.name \in Names /\ Found(tree, f) /\ f.ino \in Dirs(tree) /\ Within(tree, f, {})
    BY <1>4, <1>13 DEF RemoveFrames, Todo, Opened
  <2>2. /\ g \in RemoveFrames /\ g.d = f.d /\ g.n = f.n /\ g.at = "each" /\ g.ino = f.ino
        /\ g.todo = f.todo \ {e}
    BY <1>4, <1>13 DEF RemoveFrames, Later
  <2>3. h \in RemoveFrames /\ h.d = f.ino /\ h.n = e.name /\ h.at = "file"
    BY <1>5, <2>1 DEF RemoveChild, RemoveFrame, RemoveFrames, Inodes
  <2>4. tree' = tree /\ Goes(s, x)
    BY <1>13, GoCases
  <2> HIDE DEF g, h
  <2>5. g \in FrameType /\ h \in FrameType /\ g.op = f.op
    BY <1>5, <2>2, <2>3 DEF RemoveFrames, FrameType
  <2>6. Opened(tree, g) /\ Opened(tree, h)
    BY <1>5, <2>1, <2>2, <2>3 DEF Opened, Found
  <2>7. Waits(tree, g, h)
    <3>1. {y.name : y \in f.todo} \subseteq {y.name : y \in f.todo \ {e}} \cup {e.name}
      OBVIOUS
    <3> QED BY <2>1, <2>2, <2>3, <3>1 DEF Waits, Within
  <2>8. Cleared(tree, x)
    BY <1>1, <1>2, <2>2, <2>3, <2>5, <2>6, <2>7, ClearedInto DEF p, m
  <2>9. x.cwd = p.cwd /\ Base(x) = Base(p)
    BY <1>1, <1>2, <2>5, IntoStack DEF m
  <2> HIDE DEF x
  <2>10. GoesOn(p, x)
    <3>1. Single(tree)
      OBVIOUS
    <3> QED BY <2>4, <2>8, <2>9, <3>1 DEF GoesOn
  <2> QED BY <2>4, <2>10
<1>14. CASE Remove(s)
  BY <1>8, <1>9, <1>10, <1>11, <1>14 DEF Remove, f, p
<1>15. CASE RemoveEach(s)
  BY <1>12, <1>13, <1>15 DEF RemoveEach, f, p
<1> QED BY <1>14, <1>15

-----------------------------------------------------------------------------
LEMMA StartRemoves ==
  ASSUME RemoveInv, NEW s \in Shells, Start(s)
  PROVE  \A z \in Shells : Inner(sh'[z]) /\ Removing(tree', sh'[z], began'[z], scope'[z])
<1> DEFINE p == sh[s]
<1>1. PICK line \in Lines[s] :
        /\ line[1] \in {"cd", "rm", "rmr", "cp", "cpr", "mv"}
        /\ Frames(line, p.cwd) # <<>>
        /\ sh' = [sh EXCEPT ![s].stack = Frames(line, p.cwd)]
        /\ began' = [began EXCEPT ![s] =
             IF line[1] \in {"rmr", "cp", "cpr", "mv"} /\ Single(tree) /\ p.cwd \in Dirs(tree)
             THEN tree ELSE None]
        /\ scope' = [scope EXCEPT ![s] =
             IF line[1] = "rmr" THEN Reach(tree, Named(tree, p.cwd, line[2])) ELSE {}]
        /\ tree' = tree
  BY DEF Start
<1>2. /\ sh \in [Shells -> ShellType] /\ scope \in [Shells -> SUBSET Ids] /\ StoreInv
      /\ p.cwd \in Ids /\ p \in ShellType
  BY DEF RemoveInv, IInv, TypesOK, ShellType
<1> DEFINE st == Frames(line, p.cwd)
           x  == [p EXCEPT !.stack = st]
<1>3. /\ st \in Seq(FrameType)
      /\ st[Len(st)].op = "rmr" => line[1] = "rmr"
      /\ line[1] # "rmr" => Len(st) = 1
      /\ line[1] = "rmr" =>
           /\ line[2] \in Names
           /\ st = <<RemoveFrame(p.cwd, line[2]), [op |-> "rmr", n |-> line[2]]>>
  BY <1>1, <1>2, FramesAre
<1>4. sh' = [sh EXCEPT ![s] = x]
  BY <1>1
<1> HIDE DEF st
<1>5. x.cwd = p.cwd /\ x.stack = st
  BY <1>2 DEF ShellType
<1> HIDE DEF x
<1>6. /\ sh'[s] = x /\ \A z \in Shells \ {s} : sh'[z] = sh[z]
  BY <1>2, <1>4
<1>7. Inner(x) /\ Removing(tree, x, began'[s], scope'[s])
  <2>1. CASE line[1] # "rmr"
    <3>1. \A k \in 1 .. Len(st) - 1 : FALSE
      BY <1>3, <2>1
    <3>2. x.stack # <<>> => Base(x).op # "rmr"
      BY <1>3, <1>5, <2>1 DEF Base
    <3> QED BY <1>5, <3>1, <3>2 DEF Inner, Removing
  <2>2. CASE line[1] = "rmr"
    <3> DEFINE f == RemoveFrame(p.cwd, line[2])
               g == [op |-> "rmr", n |-> line[2]]
               S == Reach(tree, Named(tree, p.cwd, line[2]))
    <3>1. /\ f.op = "remove" /\ f.at = "file" /\ f.d = p.cwd /\ f.n = line[2]
          /\ g.op = "rmr" /\ g.n = line[2]
      BY DEF RemoveFrame
    <3>2. st = <<f, g>>
      BY <1>3, <2>2
    <3> HIDE DEF f, g
    <3>3. Len(st) = 2 /\ st[1] = f /\ st[2] = g
      BY <3>2
    <3>4. Base(x) = g
      BY <1>5, <3>3 DEF Base
    <3>5. Inner(x)
      BY <1>5, <3>1, <3>3 DEF Inner, Called
    <3>6. ASSUME began'[s] # None PROVE began'[s] = tree /\ Single(tree) /\ p.cwd \in Dirs(tree)
      BY <1>1, <3>6 DEF RemoveInv
    <3>7. scope'[s] = S
      BY <1>1, <1>2, <2>2
    <3> HIDE DEF S
    <3>8. ASSUME p.cwd \in Dirs(tree) PROVE Cleared(tree, x)
      <4>1. Opened(tree, f)
        BY <3>1, <3>8 DEF Opened
      <4>2. Len(x.stack) = 2 /\ x.stack[1] = f
        BY <1>5, <3>3
      <4>3. Goal(x) = line[2]
        BY <3>1, <3>4 DEF Goal
      <4> QED BY <1>5, <3>1, <4>1, <4>2, <4>3 DEF Cleared
    <3>9. Dirs(tree) \subseteq Ids
      BY <1>2, DirsAreIds DEF StoreInv, StoreTypeOK
    <3>10. S = Reach(tree, Named(tree, x.cwd, Base(x).n))
      BY <1>5, <3>1, <3>4 DEF S
    <3> QED BY <3>5, <3>6, <3>7, <3>8, <3>9, <3>10 DEF Removing
  <2> QED BY <2>1, <2>2
<1>8. ASSUME NEW z \in Shells, z # s
      PROVE  Inner(sh'[z]) /\ Removing(tree', sh'[z], began'[z], scope'[z])
  <2>1. sh'[z] = sh[z] /\ scope'[z] = scope[z] /\ tree' = tree
    BY <1>1, <1>2, <1>6, <1>8
  <2>2. began'[z] = began[z]
    BY <1>1, <1>8
  <2> QED BY <2>1, <2>2 DEF RemoveInv
<1> QED BY <1>1, <1>6, <1>7, <1>8

(* What another shell, or a shell that is not busy, is left with.          *)
LEMMA RemovesOn ==
  ASSUME RemoveInv, NEW s \in Shells, Histories(s), ScopeStep, NEW z \in Shells,
         sh'[z] = sh[z], z # s \/ sh[z].stack = <<>>
  PROVE  Removing(tree', sh'[z], began'[z], scope'[z])
<1> SUFFICES ASSUME sh[z].stack # <<>>, began'[z] # None, Base(sh[z]).op = "rmr"
             PROVE  Removing(tree', sh'[z], began'[z], scope'[z])
  BY DEF Removing
<1>1. tree' = tree /\ began'[z] = began[z]
  BY DEF Histories
<1>2. scope'[z] = scope[z]
  BY <1>1 DEF ScopeStep
<1> QED BY <1>1, <1>2 DEF RemoveInv

LEMMA StepRemoves ==
  ASSUME RemoveInv, NEW s \in Shells, Step(s)
  PROVE  \A z \in Shells : Inner(sh'[z]) /\ Removing(tree', sh'[z], began'[z], scope'[z])
<1> DEFINE p == sh[s]
           S == scope[s]
           b == began[s]
<1>1. /\ IInv /\ TypesOK /\ sh \in [Shells -> ShellType] /\ p \in ShellType /\ Busy(s)
      /\ p.stack # <<>> /\ RmInv(tree, p, S) /\ Inner(p)
  BY DEF RemoveInv, IInv, TypesOK, Step, Busy
<1>2. PICK x : ScopeStep /\ Follows(s, x) /\ Goes(s, x)
  BY <1>1, StepMoves DEF Moves
<1>3. sh'[s] = x /\ \A z \in Shells \ {s} : sh'[z] = sh[z]
  BY <1>1, <1>2 DEF Goes
<1>4. Histories(s)
  BY StepEnds
<1>5. ASSUME NEW z \in Shells, z # s
      PROVE  Inner(sh'[z]) /\ Removing(tree', sh'[z], began'[z], scope'[z])
  BY <1>2, <1>3, <1>4, <1>5, RemovesOn DEF RemoveInv
<1>6. Inner(x)
  BY <1>1, <1>2 DEF Follows
<1>7. Removing(tree', x, began'[s], scope'[s])
  <2> SUFFICES ASSUME x.stack # <<>>, Base(x).op = "rmr", began'[s] # None
               PROVE  Removing(tree', x, began'[s], scope'[s])
    BY DEF Removing
  <2>1. Base(p).op = "rmr" /\ began'[s] = b
    BY <1>2, <1>4 DEF Follows, Histories
  <2>2. /\ Dirs(b) \subseteq Ids /\ S = Reach(b, Named(b, p.cwd, Base(p).n))
        /\ \A c \in Ids \ S, m \in Names : (c # p.cwd \/ m # Base(p).n) => tree[c][m] = b[c][m]
        /\ Single(tree) /\ Cleared(tree, p)
    BY <1>1, <2>1 DEF RemoveInv, Removing
  <2>3. Len(p.stack) \in Nat \ {0} /\ Top(s) = p.stack[1]
    BY <1>1, StackIs DEF Top
  <2>4. Len(p.stack) > 1
    <3>0. \A k \in Nat \ {0} : k = 1 \/ k > 1
      OBVIOUS
    <3> SUFFICES ASSUME Len(p.stack) = 1 PROVE FALSE
      BY <2>3, <3>0, Zenon
    <3>1. Top(s).op = "rmr"
      BY <2>1, <2>3 DEF Base
    <3>2. RmrStep(s)
      BY <3>1 DEF Step, CopyFile, CopyDir, CopyEach, Remove, RemoveEach, RmStep, CpStep, MvStep, CdStep
    <3>3. Goes(s, Back(p, 0))
      BY <3>2, GoCases DEF RmrStep
    <3>4. x = Back(p, 0)
      BY <1>1, <1>3, <3>3 DEF Goes
    <3>5. x.stack # <<>> <=> Len(p.stack) > 1
      BY <1>1, <3>4, BackStack
    <3> QED BY <3>5
  <2>5. Remove(s) \/ RemoveEach(s)
    <3>1. 1 \in 1 .. Len(p.stack) - 1
      BY <2>3, <2>4
    <3>2. Top(s).op = "remove"
      BY <1>1, <2>1, <2>3, <3>1 DEF RmInv, Erasing, RemovesIn
    <3> QED BY <3>2 DEF Step, CopyFile, CopyDir, CopyEach, RmStep, RmrStep, CpStep, MvStep, CdStep
  <2>6. \E y : Goes(s, y) /\ GoesOn(p, y)
    <3>1. Goal(p) \in Names
      BY <1>1, <2>1, BaseName
    <3>2. \A k \in 1 .. Len(p.stack) - 1 : p.stack[k] \in RemoveFrames
      BY <1>1, <2>1, RemovesType DEF RmInv, Erasing
    <3> QED BY <1>1, <2>2, <2>4, <2>5, <3>1, <3>2, RemoveGoes
  <2>7. GoesOn(p, x)
    BY <1>1, <1>3, <2>6 DEF Goes
  <2>8. \A c \in Ids \ S, m \in Names : tree'[c][m] # tree[c][m] => c = p.cwd /\ m = Base(p).n
    BY <1>1, <2>1, RmOwn
  <2>9. scope'[s] = S
    BY <1>2, <1>3, <2>7 DEF ScopeStep, GoesOn
  <2> HIDE DEF p, S, b
  <2>10. x.cwd = p.cwd /\ Base(x) = Base(p) /\ Cleared(tree', x) /\ Single(tree')
    BY <2>7 DEF GoesOn
  <2>11. \A c \in Ids \ S, m \in Names : (c # x.cwd \/ m # Base(x).n) => tree'[c][m] = b[c][m]
    BY <2>2, <2>8, <2>10
  <2> QED BY <2>1, <2>2, <2>9, <2>10, <2>11 DEF Removing
<1> QED BY <1>3, <1>5, <1>6, <1>7

LEMMA RemoveKept ==
  ASSUME RemoveInv, [ShellNext]_vars
  PROVE  RemoveInv'
<1>1. IInv /\ IInv'
  BY ShellNextInv DEF RemoveInv
<1>3. DOMAIN began' = Shells
  <2>1. ASSUME NEW s \in Shells, Start(s) PROVE DOMAIN began' = Shells
    <3>1. \E y : began' = [began EXCEPT ![s] = y]
      BY <2>1 DEF Start
    <3> QED BY <3>1 DEF RemoveInv
  <2>2. ASSUME NEW s \in Shells, Create(s) \/ Step(s) PROVE DOMAIN began' = Shells
    BY <2>2, StepEnds DEF Histories
  <2>3. CASE UNCHANGED vars
    BY <2>3 DEF vars, RemoveInv
  <2> QED BY <2>1, <2>2, <2>3 DEF ShellNext
<1>2. \A z \in Shells : Inner(sh'[z]) /\ Removing(tree', sh'[z], began'[z], scope'[z])
  <2>1. ASSUME NEW s \in Shells, Start(s)
        PROVE  \A z \in Shells : Inner(sh'[z]) /\ Removing(tree', sh'[z], began'[z], scope'[z])
    BY <2>1, StartRemoves
  <2>2. ASSUME NEW s \in Shells, Create(s)
        PROVE  \A z \in Shells : Inner(sh'[z]) /\ Removing(tree', sh'[z], began'[z], scope'[z])
    <3>1. ScopeStep /\ sh' = sh /\ sh[s].stack = <<>>
      BY <1>1, <2>2, CreateKeeps DEF IInv, Create, Busy
    <3>2. Histories(s)
      BY <2>2, StepEnds
    <3> QED BY <3>1, <3>2, RemovesOn DEF RemoveInv
  <2>3. ASSUME NEW s \in Shells, Step(s)
        PROVE  \A z \in Shells : Inner(sh'[z]) /\ Removing(tree', sh'[z], began'[z], scope'[z])
    BY <2>3, StepRemoves
  <2>4. CASE UNCHANGED vars
    BY <2>4 DEF vars, RemoveInv
  <2> QED BY <2>1, <2>2, <2>3, <2>4 DEF ShellNext
<1> QED BY <1>1, <1>2, <1>3 DEF RemoveInv

LEMMA RemoveBegins ==
  ASSUME ShellInit
  PROVE  RemoveInv
<1>1. \A s \in Shells : sh[s].stack = <<>>
  BY DEF ShellInit
<1>2. \A s \in Shells : Inner(sh[s]) /\ Removing(tree, sh[s], began[s], scope[s])
  BY <1>1 DEF Inner, Removing
<1>3. DOMAIN began = Shells
  BY DEF ShellInit
<1> QED BY <1>2, <1>3, ShellStart DEF RemoveInv

(* rm -r, told the truth and left alone, leaves nothing under its name and *)
(* everything else as it was, for any tree and any depth of it             *)
(* (rm.c:109-242).                                                         *)
THEOREM RmRemovesAll == ShellSpec => []RemoveExact
<1>1. ShellInit => RemoveInv
  BY RemoveBegins
<1>2. RemoveInv /\ [ShellNext]_vars => RemoveInv'
  BY RemoveKept
<1>3. RemoveInv => RemoveExact
  <2> SUFFICES ASSUME RemoveInv, NEW s \in Shells, Ending(s, "rmr")
               PROVE  LET d == sh[s].cwd
                      IN  /\ tree[d][Top(s).n] = <<>>
                          /\ OthersSame(began[s], tree, d, {Top(s).n})
    BY DEF RemoveExact
  <2> DEFINE p == sh[s]
             b == began[s]
             n == Top(s).n
  <2>1. p \in ShellType /\ p.stack # <<>> /\ Top(s).op = "rmr" /\ b # None /\ Inner(p)
    BY DEF RemoveInv, IInv, TypesOK, Ending, Busy
  <2>2. Len(p.stack) \in Nat \ {0} /\ Top(s) = p.stack[1]
    BY <2>1, StackIs DEF Top
  <2>3. Len(p.stack) = 1
    <3> SUFFICES ASSUME Len(p.stack) # 1 PROVE FALSE
      OBVIOUS
    <3>0. \A k \in Nat \ {0} : k # 1 => 1 \in 1 .. k - 1
      OBVIOUS
    <3>1. 1 \in 1 .. Len(p.stack) - 1
      BY <2>2, <3>0, Zenon
    <3> QED BY <2>1, <2>2, <3>1 DEF Inner, Called
  <2>4. Base(p) = Top(s)
    BY <2>2, <2>3 DEF Base
  <2>5. /\ Dirs(b) \subseteq Ids /\ scope[s] = Reach(b, Named(b, p.cwd, n))
        /\ \A c \in Ids \ scope[s], m \in Names : (c # p.cwd \/ m # n) => tree[c][m] = b[c][m]
        /\ Cleared(tree, p)
    BY <2>1, <2>4 DEF RemoveInv, Removing
  <2>6. tree[p.cwd][n] = <<>>
    BY <2>1, <2>3, <2>4, <2>5, BaseName DEF Cleared, Holds
  <2>7. UNION {Named(b, p.cwd, y) : y \in {n}} = Named(b, p.cwd, n)
    OBVIOUS
  <2>8. OthersSame(b, tree, p.cwd, {n})
    <3> HIDE DEF p, b, n
    <3>1. Reach(b, UNION {Named(b, p.cwd, y) : y \in {n}}) = scope[s]
      BY <2>5, <2>7
    <3> QED BY <2>5, <3>1 DEF OthersSame
  <2> QED BY <2>6, <2>8
<1> QED BY <1>1, <1>2, <1>3, PTL DEF ShellSpec
=============================================================================
