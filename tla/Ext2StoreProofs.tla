--------------------------- MODULE Ext2StoreProofs ---------------------------
(***************************************************************************)
(* The theorems about what the calls of Ext2 do for a caller: what a name  *)
(* stands for, and that the driver implements FileStore.                   *)
(***************************************************************************)
EXTENDS Ext2Proofs, Ext2Crash, SequenceTheorems

-----------------------------------------------------------------------------
(* Entries in the order of a scan.                                         *)

Pairs == Nat \X Nat

LEMMA Order ==
  ASSUME NEW p \in Pairs, NEW q \in Pairs
  PROVE  /\ p = q \/ Before(p, q) \/ Before(q, p)
         /\ ~(Before(p, q) /\ Before(q, p)) /\ ~Before(p, p)
         /\ \A r \in Pairs : Before(p, q) /\ Before(q, r) => Before(p, r)
  BY DEF Pairs, Before

Earlier(P, p) == {q \in P : Before(q, p)}
Rank(P, p)    == Cardinality(Earlier(P, p))

LEMMA RankedIs ==
  ASSUME NEW P, NEW k
  PROVE  Ranked(P, k) = {p \in P : Rank(P, p) = k - 1}
  BY DEF Ranked, Rank, Earlier

LEMMA Renamed ==
  ASSUME NEW P, IsFiniteSet(P), NEW pos, \A p, q \in P : p # q => pos[p] # pos[q]
  PROVE  LET Q == {pos[p] : p \in P} IN IsFiniteSet(Q) /\ Cardinality(Q) = Cardinality(P)
<1> DEFINE Q == {pos[p] : p \in P}
           g == [p \in P |-> pos[p]]
<1>1. g \in Bijection(P, Q)
  BY DEF Bijection, Injection, Surjection, IsInjective
<1>2. ExistsBijection(P, Q)
  BY <1>1 DEF ExistsBijection
<1> QED BY <1>2, FS_Bijection

(* The places move and keep their order.                                   *)
Moves(P, Q, pos) ==
  /\ Q = {pos[p] : p \in P} /\ Q \subseteq Pairs
  /\ \A p, q \in P : Before(p, q) => Before(pos[p], pos[q])

LEMMA RanksMoved ==
  ASSUME NEW P \in SUBSET Pairs, IsFiniteSet(P), NEW Q, NEW pos, Moves(P, Q, pos)
  PROVE  /\ IsFiniteSet(Q) /\ Cardinality(Q) = Cardinality(P)
         /\ \A k : Ranked(Q, k) = {pos[p] : p \in Ranked(P, k)}
<1>1. /\ Q = {pos[p] : p \in P} /\ Q \subseteq Pairs
      /\ \A p, q \in P : Before(p, q) => Before(pos[p], pos[q])
  BY DEF Moves
<1>2. \A p, q \in P : p # q => pos[p] # pos[q]
  BY <1>1, Order
<1>3. ASSUME NEW T \in SUBSET P
      PROVE  LET R == {pos[p] : p \in T} IN IsFiniteSet(R) /\ Cardinality(R) = Cardinality(T)
  <2>1. IsFiniteSet(T)
    BY FS_Subset
  <2> QED BY <1>2, <2>1, Renamed
<1>4. ASSUME NEW p \in P PROVE Rank(Q, pos[p]) = Rank(P, p)
  <2>1. \A q \in P : Before(pos[q], pos[p]) <=> Before(q, p)
    BY <1>1, Order
  <2>2. Earlier(Q, pos[p]) = {pos[q] : q \in Earlier(P, p)}
    BY <1>1, <2>1 DEF Earlier
  <2>3. Earlier(P, p) \subseteq P
    BY DEF Earlier
  <2> QED BY <1>3, <2>2, <2>3 DEF Rank
<1>5. ASSUME NEW k PROVE Ranked(Q, k) = {pos[p] : p \in Ranked(P, k)}
  BY <1>1, <1>4, RankedIs
<1> QED BY <1>1, <1>3, <1>5

LEMMA StackMoved ==
  ASSUME NEW f, NEW h, NEW d, NEW P \in SUBSET Pairs, IsFiniteSet(P), NEW Q, NEW pos,
         Moves(P, Q, pos),
         \A p \in P : EntrySeen(h, EntryAt(h, d, pos[p])) = EntrySeen(f, EntryAt(f, d, p))
  PROVE  Stack(h, d, Q) = Stack(f, d, P)
<1>1. Cardinality(Q) = Cardinality(P) /\ \A k : Ranked(Q, k) = {pos[p] : p \in Ranked(P, k)}
  BY RanksMoved
<1>2. \A k : Ranked(P, k) \subseteq P
  BY DEF Ranked
<1>3. ASSUME NEW k
      PROVE  {EntrySeen(h, EntryAt(h, d, p)) : p \in Ranked(Q, k)}
               = {EntrySeen(f, EntryAt(f, d, p)) : p \in Ranked(P, k)}
  BY <1>1, <1>2
<1> QED BY <1>1, <1>3 DEF Stack

(* A place before all the others.                                          *)
LEMMA RankedFirst ==
  ASSUME NEW P \in SUBSET Pairs, IsFiniteSet(P), NEW x \in Pairs, \A p \in P : Before(x, p)
  PROVE  LET Q == P \cup {x}
         IN  /\ Cardinality(Q) = Cardinality(P) + 1 /\ Cardinality(P) \in Nat
             /\ Ranked(Q, 1) = {x}
             /\ \A k \in 1 .. Cardinality(P) : Ranked(Q, k + 1) = Ranked(P, k)
<1> DEFINE Q == P \cup {x}
<1>1. x \notin P
  BY Order
<1>2. Cardinality(Q) = Cardinality(P) + 1 /\ Cardinality(P) \in Nat
  BY <1>1, FS_AddElement, FS_CardinalityType
<1>3. Earlier(Q, x) = {}
  BY Order DEF Earlier
<1>4. ASSUME NEW p \in P
      PROVE  Rank(P, p) \in Nat /\ Rank(Q, p) = Rank(P, p) + 1
  <2> DEFINE E == Earlier(P, p)
  <2>1. IsFiniteSet(E) /\ x \notin E
    BY <1>1, FS_Subset DEF Earlier
  <2>2. Earlier(Q, p) = E \cup {x}
    BY DEF Earlier
  <2> HIDE DEF E
  <2>3. Cardinality(E \cup {x}) = Cardinality(E) + 1 /\ Cardinality(E) \in Nat
    BY <2>1, FS_AddElement, FS_CardinalityType
  <2> QED BY <2>2, <2>3 DEF E, Rank
<1>5. Rank(Q, x) = 0
  BY <1>3, FS_EmptySet DEF Rank
<1>6. Ranked(Q, 1) = {x}
  <2>1. Ranked(Q, 1) = {q \in Q : Rank(Q, q) = 1 - 1}
    BY RankedIs
  <2>2. ASSUME NEW q \in Q PROVE Rank(Q, q) = 1 - 1 <=> q = x
    BY <1>4, <1>5
  <2> QED BY <2>1, <2>2
<1>7. ASSUME NEW k \in 1 .. Cardinality(P)
      PROVE  Ranked(Q, k + 1) = Ranked(P, k)
  <2>1. /\ Ranked(Q, k + 1) = {q \in Q : Rank(Q, q) = (k + 1) - 1}
        /\ Ranked(P, k) = {q \in P : Rank(P, q) = k - 1}
    BY RankedIs
  <2>2. ASSUME NEW q \in P PROVE Rank(Q, q) = (k + 1) - 1 <=> Rank(P, q) = k - 1
    BY <1>2, <1>4
  <2>3. Rank(Q, x) # (k + 1) - 1
    BY <1>2, <1>5
  <2> QED BY <1>1, <2>1, <2>2, <2>3
<1> QED BY <1>2, <1>6, <1>7

LEMMA OneBefore ==
  ASSUME NEW S, NEW u \in Seq(S), Len(u) = 1, NEW s \in Seq(S)
  PROVE  /\ u \o s \in Seq(S) /\ Len(u \o s) = Len(s) + 1 /\ (u \o s)[1] = u[1]
         /\ \A k \in 1 .. Len(s) : (u \o s)[k + 1] = s[k]
<1>1. Len(s) \in Nat /\ u \o s \in Seq(S) /\ Len(u \o s) = Len(u) + Len(s)
  BY ConcatProperties
<1>2. \A k \in 1 .. Len(u) + Len(s) : (u \o s)[k] = IF k <= Len(u) THEN u[k] ELSE s[k - Len(u)]
  BY ConcatProperties
<1>3. 1 \in 1 .. Len(u) + Len(s)
  BY <1>1
<1>4. ASSUME NEW k \in 1 .. Len(s) PROVE (u \o s)[k + 1] = s[k]
  <2>1. k + 1 \in 1 .. Len(u) + Len(s) /\ ~(k + 1 <= Len(u)) /\ (k + 1) - Len(u) = k
    BY <1>1
  <2> QED BY <1>2, <2>1
<1> QED BY <1>1, <1>2, <1>3, <1>4

LEMMA StackPushed ==
  ASSUME NEW f, NEW d, NEW P \in SUBSET Pairs, IsFiniteSet(P), NEW x \in Pairs,
         \A p \in P : Before(x, p)
  PROVE  Stack(f, d, P \cup {x}) = <<EntrySeen(f, EntryAt(f, d, x))>> \o Stack(f, d, P)
<1> DEFINE Q == P \cup {x}
           seen(p) == EntrySeen(f, EntryAt(f, d, p))
           n == Cardinality(P)
           s == Stack(f, d, P)
           t == Stack(f, d, Q)
<1>1. /\ Cardinality(Q) = n + 1 /\ n \in Nat /\ Ranked(Q, 1) = {x}
      /\ \A k \in 1 .. n : Ranked(Q, k + 1) = Ranked(P, k)
  BY RankedFirst
<1>2. t = [k \in 1 .. n + 1 |-> TheOne({seen(p) : p \in Ranked(Q, k)})]
  BY <1>1 DEF Stack
<1>3. s = [k \in 1 .. n |-> TheOne({seen(p) : p \in Ranked(P, k)})]
  BY DEF Stack
<1> HIDE DEF n, s, t, Q
<1>4. t[1] = seen(x)
  <2>1. t[1] = TheOne({seen(p) : p \in Ranked(Q, 1)})
    BY <1>1, <1>2
  <2>2. {seen(p) : p \in Ranked(Q, 1)} = {seen(x)}
    BY <1>1
  <2>3. ASSUME NEW y PROVE TheOne({y}) = y
    BY DEF TheOne
  <2> HIDE DEF seen
  <2> QED BY <2>1, <2>2, <2>3
<1>5. ASSUME NEW k \in 1 .. n PROVE t[k + 1] = s[k]
  <2>1. t[k + 1] = TheOne({seen(p) : p \in Ranked(Q, k + 1)})
    BY <1>1, <1>2
  <2>2. s[k] = TheOne({seen(p) : p \in Ranked(P, k)})
    BY <1>3
  <2> HIDE DEF seen
  <2> QED BY <1>1, <2>1, <2>2
<1> DEFINE S == {s[k] : k \in 1 .. n} \cup {seen(x)}
<1>6. s \in Seq(S) /\ Len(s) = n /\ DOMAIN s = 1 .. n
  <2>1. DOMAIN s = 1 .. n /\ \A k \in 1 .. n : s[k] \in S
    BY <1>3
  <2>2. s = [k \in 1 .. n |-> s[k]]
    BY <1>3, Zenon
  <2> HIDE DEF S
  <2>3. s \in [1 .. n -> S]
    BY <2>1, <2>2
  <2> QED BY <1>1, <2>3
<1> HIDE DEF S
<1>7. <<seen(x)>> \in Seq(S) /\ Len(<<seen(x)>>) = 1
  BY DEF S
<1> DEFINE u == <<seen(x)>>
<1>8. u \in Seq(S) /\ Len(u) = 1 /\ u[1] = seen(x)
  BY <1>7
<1> HIDE DEF u
<1>9. u \o s \in Seq(S) /\ Len(u \o s) = n + 1 /\ (u \o s)[1] = u[1]
      /\ \A k \in 1 .. n : (u \o s)[k + 1] = s[k]
  BY <1>6, <1>8, OneBefore
<1>11. DOMAIN t = 1 .. n + 1 /\ DOMAIN (u \o s) = 1 .. n + 1
  BY <1>1, <1>2, <1>9
<1>12. \A k \in 1 .. n + 1 : t[k] = (u \o s)[k]
  <2> SUFFICES ASSUME NEW k \in 1 .. n + 1 PROVE t[k] = (u \o s)[k]
    OBVIOUS
  <2>1. CASE k = 1
    BY <1>4, <1>8, <1>9, <2>1
  <2>2. CASE k # 1
    <3>1. k - 1 \in 1 .. n /\ (k - 1) + 1 = k
      BY <1>1, <2>2
    <3> QED BY <1>5, <1>9, <3>1
  <2> QED BY <2>1, <2>2
<1>13. t = u \o s
  <2> DEFINE v == u \o s
  <2>1. v \in Seq(S) /\ DOMAIN v = 1 .. n + 1
    BY <1>9, <1>11
  <2>2. t = [k \in 1 .. n + 1 |-> t[k]]
    BY <1>2, Zenon
  <2> HIDE DEF v
  <2>3. v = [k \in 1 .. n + 1 |-> v[k]]
    BY <2>1
  <2>4. t = v
    BY <1>12, <2>2, <2>3 DEF v
  <2> QED BY <2>4 DEF v
<1> QED BY <1>13 DEF t, u, s, Q

LEMMA StackEmpty ==
  ASSUME NEW f, NEW d
  PROVE  Stack(f, d, {}) = <<>>
  BY FS_EmptySet DEF Stack

LEMMA StackSeq ==
  ASSUME NEW f, NEW d, NEW P, IsFiniteSet(P)
  PROVE  LET s == Stack(f, d, P)
         IN  \E S : s \in Seq(S) /\ Len(s) = Cardinality(P) /\ DOMAIN s = 1 .. Cardinality(P)
<1> DEFINE s == Stack(f, d, P)
           n == Cardinality(P)
           S == {s[k] : k \in 1 .. n}
           F == [k \in 1 .. n |-> TheOne({EntrySeen(f, EntryAt(f, d, p)) : p \in Ranked(P, k)})]
<1>1. n \in Nat
  BY FS_CardinalityType
<1>2. s = F
  BY DEF Stack
<1>3. DOMAIN s = 1 .. n /\ s = [k \in 1 .. n |-> s[k]]
  BY <1>2, Zenon
<1> HIDE DEF s, F, n
<1>4. s \in [1 .. n -> S]
  BY <1>3
<1>5. s \in Seq(S) /\ Len(s) = n
  BY <1>1, <1>4
<1> QED BY <1>3, <1>5 DEF s, n

(* The top of a stack and what is below it.                                *)
LEMMA StackTop ==
  ASSUME NEW f, NEW d, NEW P \in SUBSET Pairs, IsFiniteSet(P), NEW x \in Pairs,
         \A p \in P : Before(x, p), NEW Q, Q = P \cup {x}
  PROVE  /\ Stack(f, d, Q) # <<>> /\ Head(Stack(f, d, Q)) = EntrySeen(f, EntryAt(f, d, x))
         /\ Tail(Stack(f, d, Q)) = Stack(f, d, P)
<1> DEFINE e == EntrySeen(f, EntryAt(f, d, x))
           s == Stack(f, d, P)
           u == <<e>>
<1>1. Stack(f, d, Q) = u \o s
  BY StackPushed
<1>2. PICK S : s \in Seq(S)
  BY StackSeq
<1>3. s \in Seq(S \cup {e}) /\ u \in Seq(S \cup {e}) /\ Len(u) = 1 /\ u[1] = e
  BY <1>2
<1> HIDE DEF s, u, e
<1>4. /\ u \o s \in Seq(S \cup {e}) /\ Len(u \o s) = Len(s) + 1 /\ (u \o s)[1] = u[1]
      /\ \A k \in 1 .. Len(s) : (u \o s)[k + 1] = s[k]
  BY <1>3, OneBefore
<1> DEFINE v == u \o s
<1>5. /\ v \in Seq(S \cup {e}) /\ Len(v) = Len(s) + 1 /\ v[1] = u[1]
      /\ \A k \in 1 .. Len(s) : v[k + 1] = s[k]
  BY <1>4
<1> HIDE DEF v
<1>6. Len(s) \in Nat /\ v # <<>>
  BY <1>3, <1>5
<1>7. /\ Tail(v) \in Seq(S \cup {e}) /\ Len(Tail(v)) = Len(v) - 1
      /\ \A k \in 1 .. Len(Tail(v)) : Tail(v)[k] = v[k + 1]
  BY <1>5, <1>6, HeadTailProperties
<1> DEFINE w == Tail(v)
<1>8. w \in Seq(S \cup {e}) /\ Len(w) = Len(s) /\ \A k \in 1 .. Len(s) : w[k] = s[k]
  BY <1>5, <1>6, <1>7
<1> HIDE DEF w
<1>9. w = s
  BY <1>3, <1>8
<1>10. Head(v) = v[1]
  BY <1>5, <1>6
<1> QED BY <1>1, <1>3, <1>5, <1>6, <1>9, <1>10 DEF v, w, s, u, e

(* A stack holds the entries at its places and nothing else.               *)
LEMMA StackHolds ==
  ASSUME NEW f, NEW d, NEW P \in SUBSET Pairs, IsFiniteSet(P)
  PROVE  LET s == Stack(f, d, P)
         IN  {s[k] : k \in DOMAIN s} = {EntrySeen(f, EntryAt(f, d, p)) : p \in P}
<1> DEFINE n == Cardinality(P)
           s == Stack(f, d, P)
           seen(p) == EntrySeen(f, EntryAt(f, d, p))
           R == {Rank(P, p) : p \in P}
<1>1. n \in Nat
  BY FS_CardinalityType
<1>2. ASSUME NEW p \in P PROVE Rank(P, p) \in 0 .. n - 1 /\ IsFiniteSet(Earlier(P, p))
  <2>1. Earlier(P, p) \subseteq P \ {p}
    BY Order DEF Earlier
  <2>2. IsFiniteSet(P \ {p}) /\ Cardinality(P \ {p}) = n - 1
    BY FS_RemoveElement
  <2>3. IsFiniteSet(Earlier(P, p)) /\ Cardinality(Earlier(P, p)) <= n - 1
    BY <2>1, <2>2, FS_Subset
  <2>4. Cardinality(Earlier(P, p)) \in Nat
    BY <2>3, FS_CardinalityType
  <2> QED BY <1>1, <2>3, <2>4 DEF Rank
<1>3. ASSUME NEW p \in P, NEW q \in P, Before(p, q) PROVE Rank(P, p) < Rank(P, q)
  <2>1. Earlier(P, p) \cup {p} \subseteq Earlier(P, q)
    BY <1>3, Order DEF Earlier
  <2>2. p \notin Earlier(P, p)
    BY Order DEF Earlier
  <2>3. Cardinality(Earlier(P, p) \cup {p}) = Cardinality(Earlier(P, p)) + 1
    BY <1>2, <2>2, FS_AddElement
  <2>4. Cardinality(Earlier(P, p) \cup {p}) <= Cardinality(Earlier(P, q))
    BY <1>2, <2>1, FS_Subset
  <2> QED BY <1>2, <2>3, <2>4 DEF Rank
<1>4. \A p, q \in P : p # q => Rank(P, p) # Rank(P, q)
  <2> SUFFICES ASSUME NEW p \in P, NEW q \in P, p # q PROVE Rank(P, p) # Rank(P, q)
    OBVIOUS
  <2>1. Rank(P, p) \in Int /\ Rank(P, q) \in Int
    BY <1>2
  <2> QED BY <1>3, <2>1, Order
<1>5. R = 0 .. n - 1
  <2> DEFINE rank == [p \in P |-> Rank(P, p)]
  <2>1. \A p, q \in P : p # q => rank[p] # rank[q]
    BY <1>4
  <2>2. R = {rank[p] : p \in P}
    OBVIOUS
  <2> HIDE DEF rank, R
  <2>3. IsFiniteSet(R) /\ Cardinality(R) = n
    BY <2>1, <2>2, Renamed
  <2>4. R \subseteq 0 .. n - 1
    BY <1>2 DEF R
  <2>5. IsFiniteSet(0 .. n - 1) /\ Cardinality(0 .. n - 1) = n
    BY <1>1, FS_Interval
  <2> QED BY <2>3, <2>4, <2>5, FS_Subset
<1>6. DOMAIN s = 1 .. n
  BY DEF Stack
<1>7. ASSUME NEW p \in P
      PROVE  Rank(P, p) + 1 \in 1 .. n /\ s[Rank(P, p) + 1] = seen(p)
  <2> DEFINE k == Rank(P, p) + 1
  <2>1. k \in 1 .. n /\ k - 1 = Rank(P, p)
    BY <1>1, <1>2
  <2> HIDE DEF k
  <2>2. Ranked(P, k) = {p}
    BY <1>4, <2>1, RankedIs
  <2>3. s[k] = TheOne({seen(q) : q \in Ranked(P, k)})
    BY <2>1 DEF Stack
  <2>4. {seen(q) : q \in Ranked(P, k)} = {seen(p)}
    BY <2>2
  <2>5. ASSUME NEW y PROVE TheOne({y}) = y
    BY DEF TheOne
  <2> HIDE DEF seen
  <2> QED BY <2>1, <2>3, <2>4, <2>5 DEF k
<1>8. ASSUME NEW k \in 1 .. n PROVE \E p \in P : s[k] = seen(p)
  <2>1. k - 1 \in 0 .. n - 1
    BY <1>1
  <2>2. PICK p \in P : Rank(P, p) = k - 1
    BY <1>5, <2>1
  <2>3. Rank(P, p) + 1 = k
    BY <2>2
  <2> QED BY <1>7, <2>3
<1> HIDE DEF s, seen
<1>9. {s[k] : k \in DOMAIN s} = {seen(p) : p \in P}
  BY <1>6, <1>7, <1>8
<1> QED BY <1>9 DEF s, seen

-----------------------------------------------------------------------------
(* Where the links of a directory are after a call.                        *)

(* The link at j of block s is at m after the call.                        *)
KeptAt(f, h, d, s, j, m) ==
  Carried(f, h, d, s, j, m) /\ Entries(h, d, s)[m].name = Entries(f, d, s)[j].name

(* pos[s][j] is the new place of the link at j of block s.  Those at L are *)
(* gone and those at X are new.                                            *)
Passed(f, h, d, pos, L, X) ==
  /\ \A s, j \in Nat : LinkAt(f, d, s, j) /\ <<s, j>> \notin L =>
       pos[s][j] \in Nat /\ KeptAt(f, h, d, s, j, pos[s][j])
  /\ \A s, m \in Nat : LinkAt(h, d, s, m) /\ <<s, m>> \notin X =>
       \E j \in Nat : LinkAt(f, d, s, j) /\ <<s, j>> \notin L /\ m = pos[s][j]
  /\ \A s, i, j \in Nat :
       LinkAt(f, d, s, i) /\ LinkAt(f, d, s, j) /\ <<s, i>> \notin L /\ <<s, j>> \notin L /\ i < j
         => pos[s][i] < pos[s][j]

SamePos           == [s \in Nat |-> [m \in Nat |-> m]]
InsertPos(s0, k)  == [s \in Nat |-> [m \in Nat |-> IF s = s0 /\ m > k THEN m + 1 ELSE m]]
RemovePos(s0, k)  == [s \in Nat |-> [m \in Nat |-> IF s = s0 /\ k # 1 /\ m > k THEN m - 1 ELSE m]]

LEMMA PassedSame ==
  ASSUME NEW f, NEW h, NEW d, SameDir(f, h, d)
  PROVE  Passed(f, h, d, SamePos, {}, {})
<1>1. \A s, m \in Nat : SamePos[s][m] = m
  BY DEF SamePos
<1>2. \A s, m : LinkAt(f, d, s, m) <=> LinkAt(h, d, s, m)
  BY DEF SameDir, LinkAt
<1>3. \A s, m : LinkAt(f, d, s, m) => KeptAt(f, h, d, s, m, m)
  BY DEF SameDir, LinkAt, KeptAt, Carried, Child, Kind
<1> QED BY <1>1, <1>2, <1>3 DEF Passed

LEMMA KeptOther ==
  ASSUME NEW f, NEW h, NEW d, NEW s0, NEW es, DirRewritten(f, h, d, s0, es), NEW s, s # s0, NEW m
  PROVE  /\ LinkAt(f, d, s, m) <=> LinkAt(h, d, s, m)
         /\ LinkAt(f, d, s, m) => KeptAt(f, h, d, s, m, m)
  BY DEF DirRewritten, KeptAt, Carried, LinkAt, Child, Kind

(* The entry m of the new block is the entry j of the old one, up to the   *)
(* lengths.                                                                *)
SameEntry(new, old) == new.ino = old.ino /\ new.name = old.name /\ new.type = old.type

LEMMA KeptHere ==
  ASSUME NEW f, NEW h, NEW d, NEW s0, NEW es, DirRewritten(f, h, d, s0, es),
         NEW old, old = Entries(f, d, s0), NEW j \in 1 .. Len(old), NEW m \in 1 .. Len(es),
         SameEntry(es[m], old[j])
  PROVE  /\ LinkAt(f, d, s0, j) <=> LinkAt(h, d, s0, m)
         /\ LinkAt(f, d, s0, j) => KeptAt(f, h, d, s0, j, m)
  BY DEF DirRewritten, KeptAt, Carried, LinkAt, Child, Kind, SameEntry

LEMMA PassedInserted ==
  ASSUME NEW f, NEW h, NEW d, NEW s0 \in Nat, NEW old \in Seq(EntryType), NEW k \in 1 .. Len(old),
         old = Entries(f, d, s0), Fit(old), NEW new \in EntryType,
         Hole(old[k]) = new.len, RecLen[new.name] <= new.len, new.name \in Names, new.ino # 0,
         DirRewritten(f, h, d, s0, Inserted(old, k, new)), NEW m0, m0 = k + 1
  PROVE  Passed(f, h, d, InsertPos(s0, k), {}, {<<s0, m0>>})
<1> DEFINE es  == Inserted(old, k, new)
           cut == [old[k] EXCEPT !.len = RecLen[old[k].name]]
           n   == Len(old)
           pos == InsertPos(s0, k)
<1>1. n \in Nat /\ k \in 1 .. n /\ old[k] \in EntryType
  OBVIOUS
<1>2. /\ es \in Seq(EntryType) /\ Len(es) = n + 1
      /\ \A m \in 1 .. k - 1 : es[m] = old[m]
      /\ es[k] = cut /\ es[k + 1] = new
      /\ \A m \in k + 2 .. n + 1 : es[m] = old[m - 1]
  <2>1. HasInserted(es, old, k, new)
    BY InsertedIs
  <2> HIDE DEF es
  <2> QED BY <2>1 DEF HasInserted
<1>3. SameEntry(cut, old[k])
  BY <1>1 DEF EntryType, SameEntry
<1>4. DirRewritten(f, h, d, s0, es)
  OBVIOUS
<1>5. \A s, m \in Nat : pos[s][m] = IF s = s0 /\ m > k THEN m + 1 ELSE m
  BY DEF InsertPos
<1> HIDE DEF es, cut, pos
<1>6. ASSUME NEW m \in 1 .. n
      PROVE  /\ pos[s0][m] \in 1 .. n + 1 /\ pos[s0][m] # k + 1
             /\ SameEntry(es[pos[s0][m]], old[m])
  <2>1. CASE m \in 1 .. k - 1
    <3>1. pos[s0][m] = m /\ m # k + 1 /\ m \in 1 .. n + 1
      BY <1>1, <1>5, <2>1
    <3>2. es[m] = old[m]
      BY <1>2, <2>1
    <3> QED BY <3>1, <3>2 DEF SameEntry
  <2>2. CASE m = k
    <3>1. pos[s0][m] = m /\ m # k + 1 /\ m \in 1 .. n + 1
      BY <1>1, <1>5, <2>2
    <3> QED BY <1>2, <1>3, <2>2, <3>1
  <2>3. CASE m \in k + 1 .. n
    <3>1. m + 1 \in k + 2 .. n + 1 /\ (m + 1) - 1 = m /\ m \in Nat /\ m > k
      BY <1>1, <2>3
    <3>2. pos[s0][m] = m + 1
      BY <1>5, <3>1
    <3> QED BY <1>1, <1>2, <3>1, <3>2 DEF SameEntry
  <2> QED BY <1>1, <2>1, <2>2, <2>3
<1>7. ASSUME NEW m \in 1 .. n + 1, m # k + 1
      PROVE  \E j \in 1 .. n : m = pos[s0][j]
  <2>1. CASE m \in 1 .. k
    BY <1>1, <1>5, <2>1
  <2>2. CASE m \in k + 2 .. n + 1
    <3>1. m - 1 \in 1 .. n /\ m - 1 > k /\ (m - 1) + 1 = m /\ m - 1 \in Nat
      BY <1>1, <2>2
    <3>2. pos[s0][m - 1] = m
      BY <1>5, <3>1
    <3> QED BY <3>1, <3>2
  <2> QED BY <1>1, <1>7, <2>1, <2>2
<1>8. ASSUME NEW j \in 1 .. n
      PROVE  /\ LinkAt(f, d, s0, j) <=> LinkAt(h, d, s0, pos[s0][j])
             /\ LinkAt(f, d, s0, j) => KeptAt(f, h, d, s0, j, pos[s0][j])
  BY <1>2, <1>4, <1>6, KeptHere
<1>9. ASSUME NEW s \in Nat, NEW j \in Nat, LinkAt(f, d, s, j)
      PROVE  pos[s][j] \in Nat /\ KeptAt(f, h, d, s, j, pos[s][j])
  <2>1. CASE s # s0
    BY <1>4, <1>5, <1>9, <2>1, KeptOther
  <2>2. CASE s = s0
    <3>1. j \in 1 .. n
      BY <1>9, <2>2 DEF LinkAt
    <3> QED BY <1>5, <1>6, <1>8, <1>9, <2>2, <3>1
  <2> QED BY <2>1, <2>2
<1>10. ASSUME NEW s \in Nat, NEW m \in Nat, LinkAt(h, d, s, m), <<s, m>> # <<s0, k + 1>>
       PROVE  \E j \in Nat : LinkAt(f, d, s, j) /\ m = pos[s][j]
  <2>1. CASE s # s0
    BY <1>4, <1>5, <1>10, <2>1, KeptOther
  <2>2. CASE s = s0
    <3>1. m \in 1 .. n + 1 /\ m # k + 1
      BY <1>2, <1>4, <1>10, <2>2 DEF LinkAt, DirRewritten
    <3>2. PICK j \in 1 .. n : m = pos[s0][j]
      BY <1>7, <3>1
    <3> QED BY <1>8, <1>10, <2>2, <3>2
  <2> QED BY <2>1, <2>2
<1>11. ASSUME NEW s \in Nat, NEW i \in Nat, NEW j \in Nat, i < j PROVE pos[s][i] < pos[s][j]
  BY <1>1, <1>5, <1>11
<1>12. Passed(f, h, d, pos, {}, {<<s0, k + 1>>})
  BY <1>9, <1>10, <1>11 DEF Passed
<1> QED BY <1>12 DEF pos

LEMMA EntryPut ==
  ASSUME NEW h, NEW f, NEW d, NEW s0, NEW es, DirRewritten(f, h, d, s0, es),
         NEW old \in Seq(EntryType), NEW k \in 1 .. Len(old), NEW new,
         HasInserted(es, old, k, new), new.name \in Names, new.ino # 0, NEW m0, m0 = k + 1
  PROVE  LinkAt(h, d, s0, m0) /\ Entries(h, d, s0)[m0] = new
<1>1. es[m0] = new /\ m0 \in 1 .. Len(es)
  BY DEF HasInserted
<1> QED BY <1>1 DEF LinkAt, DirRewritten

LEMMA PassedRemoved ==
  ASSUME NEW f, NEW h, NEW d, NEW s0 \in Nat, NEW old \in Seq(EntryType), NEW k \in 1 .. Len(old),
         old = Entries(f, d, s0), Fit(old), DirRewritten(f, h, d, s0, Removed(old, k))
  PROVE  Passed(f, h, d, RemovePos(s0, k), {<<s0, k>>}, {})
<1> DEFINE es  == Removed(old, k)
           n   == Len(old)
           pos == RemovePos(s0, k)
<1>1. n \in Nat /\ k \in 1 .. n
  OBVIOUS
<1>2. DirRewritten(f, h, d, s0, es)
  OBVIOUS
<1>3. \A s, m \in Nat : pos[s][m] = IF s = s0 /\ k # 1 /\ m > k THEN m - 1 ELSE m
  BY DEF RemovePos
<1> HIDE DEF pos
<1>4. /\ \A m \in 1 .. n : m # k => pos[s0][m] \in 1 .. Len(es) /\ SameEntry(es[pos[s0][m]], old[m])
      /\ \A m \in 1 .. Len(es) : es[m].ino # 0 => \E j \in 1 .. n : j # k /\ m = pos[s0][j]
  <2>1. CASE k = 1
    <3>1. Len(es) = n /\ es[1].ino = 0 /\ \A m \in 2 .. n : es[m] = old[m]
      BY <1>1, <2>1, FirstCleared
    <3> HIDE DEF es
    <3>2. \A m \in 1 .. n : pos[s0][m] = m /\ (m # 1 => m \in 2 .. n)
      BY <1>1, <1>3, <2>1
    <3> QED BY <1>1, <2>1, <3>1, <3>2 DEF SameEntry
  <2>2. CASE k # 1
    <3>0. k \in 2 .. n
      BY <1>1, <2>2
    <3>1. /\ Len(es) = n - 1
          /\ \A m \in 1 .. k - 2 : es[m] = old[m]
          /\ es[k - 1] = [old[k - 1] EXCEPT !.len = old[k - 1].len + old[k].len]
          /\ \A m \in k .. n - 1 : es[m] = old[m + 1]
      BY <3>0, RemovedIs
    <3>2. SameEntry(es[k - 1], old[k - 1])
      <4>1. old[k - 1] \in EntryType
        BY <3>0
      <4> QED BY <3>1, <4>1 DEF EntryType, SameEntry
    <3> HIDE DEF es
    <3>3. ASSUME NEW m \in 1 .. n, m # k
          PROVE  pos[s0][m] \in 1 .. Len(es) /\ SameEntry(es[pos[s0][m]], old[m])
      <4>1. CASE m < k - 1
        BY <1>1, <1>3, <3>1, <3>3, <4>1 DEF SameEntry
      <4>2. CASE m = k - 1
        BY <1>1, <1>3, <3>0, <3>1, <3>2, <3>3, <4>2
      <4>3. CASE m > k
        <5>1. m - 1 \in k .. n - 1 /\ (m - 1) + 1 = m /\ m \in Nat
          BY <1>1, <3>3, <4>3
        <5>2. pos[s0][m] = m - 1
          BY <1>3, <2>2, <4>3, <5>1
        <5> QED BY <1>1, <3>1, <5>1, <5>2 DEF SameEntry
      <4> QED BY <1>1, <3>3, <4>1, <4>2, <4>3
    <3>4. ASSUME NEW m \in 1 .. Len(es)
          PROVE  \E j \in 1 .. n : j # k /\ m = pos[s0][j]
      <4>1. CASE m < k
        BY <1>1, <1>3, <3>1, <4>1
      <4>2. CASE m >= k
        <5>1. m + 1 \in 1 .. n /\ m + 1 > k /\ m + 1 # k /\ (m + 1) - 1 = m /\ m + 1 \in Nat
          BY <1>1, <3>1, <4>2
        <5>2. pos[s0][m + 1] = m
          BY <1>3, <2>2, <5>1
        <5> QED BY <5>1, <5>2
      <4> QED BY <1>1, <3>1, <4>1, <4>2
    <3> QED BY <3>3, <3>4
  <2> QED BY <2>1, <2>2
<1> HIDE DEF es
<1>5. ASSUME NEW j \in 1 .. n, j # k
      PROVE  /\ LinkAt(f, d, s0, j) <=> LinkAt(h, d, s0, pos[s0][j])
             /\ LinkAt(f, d, s0, j) => KeptAt(f, h, d, s0, j, pos[s0][j])
  BY <1>2, <1>4, <1>5, KeptHere
<1>6. ASSUME NEW s \in Nat, NEW j \in Nat, LinkAt(f, d, s, j), <<s, j>> # <<s0, k>>
      PROVE  pos[s][j] \in Nat /\ KeptAt(f, h, d, s, j, pos[s][j])
  <2>1. CASE s # s0
    BY <1>2, <1>3, <1>6, <2>1, KeptOther
  <2>2. CASE s = s0
    <3>1. j \in 1 .. n /\ j # k
      BY <1>6, <2>2 DEF LinkAt
    <3>2. pos[s0][j] \in Nat
      BY <1>1, <1>3, <3>1
    <3> QED BY <1>5, <1>6, <2>2, <3>1, <3>2
  <2> QED BY <2>1, <2>2
<1>7. ASSUME NEW s \in Nat, NEW m \in Nat, LinkAt(h, d, s, m)
      PROVE  \E j \in Nat : LinkAt(f, d, s, j) /\ <<s, j>> # <<s0, k>> /\ m = pos[s][j]
  <2>1. CASE s # s0
    BY <1>2, <1>3, <1>7, <2>1, KeptOther
  <2>2. CASE s = s0
    <3>1. m \in 1 .. Len(es) /\ es[m].ino # 0
      BY <1>2, <1>7, <2>2 DEF LinkAt, DirRewritten
    <3>2. PICK j \in 1 .. n : j # k /\ m = pos[s0][j]
      BY <1>4, <3>1
    <3> QED BY <1>5, <1>7, <2>2, <3>2
  <2> QED BY <2>1, <2>2
<1>8. ASSUME NEW s \in Nat, NEW i \in Nat, NEW j \in Nat, i < j, <<s, i>> # <<s0, k>>, <<s, j>> # <<s0, k>>
      PROVE  pos[s][i] < pos[s][j]
  <2>1. CASE s # s0
    BY <1>3, <1>8, <2>1
  <2>2. CASE s = s0
    <3>1. i # k /\ j # k
      BY <1>8, <2>2
    <3> QED BY <1>1, <1>3, <1>8, <2>2, <3>1
  <2> QED BY <2>1, <2>2
<1>9. Passed(f, h, d, pos, {<<s0, k>>}, {})
  BY <1>6, <1>7, <1>8 DEF Passed
<1> QED BY <1>9 DEF pos

LEMMA PassedGrown ==
  ASSUME NEW f \in FsInts, NEW h \in FsInts, NEW d \in Inodes, Shape(f, d), DirSound(f, d),
         f.inode[d].blocks < Direct, NEW b \in Blocks \ {Null}, b \notin OwnedBlocks(f, d),
         h.inode[d] = GrownParent(f, d, b), NEW new \in EntryType, h.dir[b] = <<new>>,
         new.ino # 0, new.name \in Names, new.len = BlockLen,
         \A x \in OwnedBlocks(f, d) : h.dir[x] = f.dir[x]
  PROVE  LET s0 == f.inode[d].blocks
         IN  /\ s0 \in Nat /\ Passed(f, h, d, SamePos, {}, {<<s0, 1>>})
             /\ LinkAt(h, d, s0, 1) /\ Entries(h, d, s0)[1] = new
<1> DEFINE s0  == f.inode[d].blocks
<1>0. DirShape(f, d)
  BY DEF DirSound
<1>1. /\ DirSlots(h, d) = DirSlots(f, d) \cup {s0} /\ h.inode[d].block[s0] = b
      /\ s0 \notin DirSlots(f, d)
      /\ \A s \in DirSlots(f, d) : h.inode[d].block[s] = f.inode[d].block[s]
  BY <1>0, DirGrown
<1>2. s0 \in Nat
  BY <1>0, Positive DEF DirShape
<1> HIDE DEF s0
<1>3. \A s \in DirSlots(f, d) : f.inode[d].block[s] \in OwnedBlocks(f, d)
  BY <1>0, DirOwns
<1>4. \A s \in DirSlots(f, d) : Entries(h, d, s) = Entries(f, d, s)
  BY <1>1, <1>3 DEF Entries
<1>5. Entries(h, d, s0) = <<new>>
  BY <1>1 DEF Entries
<1>6. Len(<<new>>) = 1 /\ <<new>>[1] = new
  OBVIOUS
<1>7. \A s, m : LinkAt(f, d, s, m) => KeptAt(f, h, d, s, m, m)
  BY <1>1, <1>4 DEF LinkAt, KeptAt, Carried, Child, Kind
<1>8. \A s, m : s # s0 /\ LinkAt(h, d, s, m) => LinkAt(f, d, s, m)
  BY <1>1, <1>4 DEF LinkAt
<1>9. \A m : LinkAt(h, d, s0, m) => m = 1
  BY <1>5, <1>6 DEF LinkAt
<1>10. LinkAt(h, d, s0, 1) /\ Entries(h, d, s0)[1] = new
  BY <1>1, <1>5, <1>6 DEF LinkAt
<1>11. \A s, m \in Nat : SamePos[s][m] = m
  BY DEF SamePos
<1>12. Passed(f, h, d, SamePos, {}, {<<s0, 1>>})
  BY <1>7, <1>8, <1>9, <1>11 DEF Passed
<1> QED BY <1>2, <1>10, <1>12 DEF s0

LEMMA NamedIs ==
  ASSUME NEW f, Sound(f), NEW d \in UsedDirs(f), NEW n \in Names
  PROVE  /\ Named(f, d, n) \in SUBSET Pairs /\ IsFiniteSet(Named(f, d, n))
         /\ \A s, m : <<s, m>> \in Named(f, d, n)
                        <=> LinkAt(f, d, s, m) /\ Entries(f, d, s)[m].name = n
         /\ \A s, m : LinkAt(f, d, s, m) => s \in Nat /\ m \in Nat
<1>1. f \in FsInts /\ d \in Inodes /\ Shape(f, d) /\ DirSound(f, d)
  BY SoundDir
<1>2. /\ Places(f, d) \subseteq Nat \X Nat
      /\ \A p \in Places(f, d) :
           /\ p[1] \in DirSlots(f, d) /\ p[2] \in 1 .. Len(Entries(f, d, p[1]))
           /\ EntryAt(f, d, p) = Entries(f, d, p[1])[p[2]]
           /\ Entries(f, d, p[1]) \in Seq(EntryType)
      /\ \A s \in DirSlots(f, d) : \A m \in 1 .. Len(Entries(f, d, s)) :
           <<s, m>> \in Places(f, d) /\ EntryAt(f, d, <<s, m>>) = Entries(f, d, s)[m]
  BY <1>1, PlacesIs
<1>3. ASSUME NEW s, NEW m
      PROVE  <<s, m>> \in Named(f, d, n) <=> LinkAt(f, d, s, m) /\ Entries(f, d, s)[m].name = n
  <2>1. ASSUME <<s, m>> \in Named(f, d, n)
        PROVE  LinkAt(f, d, s, m) /\ Entries(f, d, s)[m].name = n
    <3>1. /\ <<s, m>> \in Places(f, d) /\ EntryAt(f, d, <<s, m>>).ino # 0
          /\ EntryAt(f, d, <<s, m>>).name = n
      BY <2>1 DEF Named
    <3>2. s \in DirSlots(f, d) /\ m \in 1 .. Len(Entries(f, d, s))
          /\ EntryAt(f, d, <<s, m>>) = Entries(f, d, s)[m]
      BY <1>2, <3>1
    <3> QED BY <3>1, <3>2 DEF LinkAt
  <2>2. ASSUME LinkAt(f, d, s, m), Entries(f, d, s)[m].name = n
        PROVE  <<s, m>> \in Named(f, d, n)
    BY <1>2, <2>2 DEF LinkAt, Named
  <2> QED BY <2>1, <2>2
<1>4. Named(f, d, n) \subseteq Places(f, d)
  BY DEF Named
<1>5. ASSUME NEW s, NEW m, LinkAt(f, d, s, m) PROVE s \in Nat /\ m \in Nat
  <2>1. <<s, m>> \in Places(f, d)
    BY <1>2, <1>5 DEF LinkAt
  <2> QED BY <1>2, <2>1
<1>6. IsFiniteSet(Named(f, d, n))
  <2>1. f.inode[d].blocks \in Nat /\ BlockLen \in Nat
    BY <1>1, Ext2Assumption, Positive DEF DirSound, DirShape
  <2>2. IsFiniteSet(DirSlots(f, d)) /\ IsFiniteSet(1 .. BlockLen)
    BY <2>1, FS_Interval DEF DirSlots
  <2>3. IsFiniteSet(DirSlots(f, d) \X (1 .. BlockLen))
    BY <2>2, FS_Product
  <2>4. ASSUME NEW p \in Places(f, d) PROVE p \in DirSlots(f, d) \X (1 .. BlockLen)
    <3>1. p = <<p[1], p[2]>>
      BY <1>2
    <3>2. p[1] \in DirSlots(f, d) /\ p[2] \in 1 .. Len(Entries(f, d, p[1]))
          /\ Entries(f, d, p[1]) \in Seq(EntryType)
      BY <1>2
    <3>3. PICK off : Fits(Entries(f, d, p[1]), off)
      BY <1>1, <3>2 DEF DirSound, Fit
    <3>4. Len(Entries(f, d, p[1])) \in 1 .. BlockLen
      BY <3>2, <3>3, FitLen
    <3>5. p[2] \in 1 .. BlockLen
      BY <2>1, <3>2, <3>4
    <3> QED BY <3>1, <3>2, <3>5
  <2>5. Named(f, d, n) \subseteq DirSlots(f, d) \X (1 .. BlockLen)
    BY <1>4, <2>4
  <2> QED BY <2>3, <2>5, FS_Subset
<1> QED BY <1>2, <1>3, <1>4, <1>5, <1>6 DEF Pairs

(* What a directory shows of inode i stays.                                *)
SeenKept(f, h, i) == h.inode[i].blocks = f.inode[i].blocks /\ FileData(h, i) = FileData(f, i)

Moved(pos) == [p \in Pairs |-> <<p[1], pos[p[1]][p[2]]>>]

LEMMA SeenIs ==
  ASSUME NEW f, NEW h, NEW d, NEW s, NEW j, NEW m, KeptAt(f, h, d, s, j, m),
         Kind(f, d, s, j) = "reg" => SeenKept(f, h, Child(f, d, s, j))
  PROVE  EntrySeen(h, EntryAt(h, d, <<s, m>>)) = EntrySeen(f, EntryAt(f, d, <<s, j>>))
  BY DEF KeptAt, Carried, Child, Kind, SeenKept, EntrySeen, EntryAt, Entries

(* The files in d, but for those of the entries L, are as they were.       *)
FilesSeen(f, h, d, L) ==
  \A s, j \in Nat : LinkAt(f, d, s, j) /\ <<s, j>> \notin L /\ Kind(f, d, s, j) = "reg"
    => SeenKept(f, h, Child(f, d, s, j))

LEMMA SeenMoved ==
  ASSUME NEW f, NEW h, NEW d, NEW pos, NEW L, NEW X, Passed(f, h, d, pos, L, X),
         FilesSeen(f, h, d, L), NEW p \in Pairs, p \notin L, LinkAt(f, d, p[1], p[2]),
         NEW g, g = Moved(pos)
  PROVE  EntrySeen(h, EntryAt(h, d, g[p])) = EntrySeen(f, EntryAt(f, d, p))
<1> DEFINE s == p[1]
           j == p[2]
           m == pos[s][j]
<1>1. s \in Nat /\ j \in Nat /\ p = <<s, j>> /\ g[p] = <<s, m>>
  BY DEF Pairs, Moved
<1>2. KeptAt(f, h, d, s, j, m)
  BY <1>1 DEF Passed
<1>3. Kind(f, d, s, j) = "reg" => SeenKept(f, h, Child(f, d, s, j))
  BY <1>1 DEF FilesSeen
<1> HIDE DEF s, j, m
<1>4. EntrySeen(h, EntryAt(h, d, <<s, m>>)) = EntrySeen(f, EntryAt(f, d, <<s, j>>))
  BY <1>2, <1>3, SeenIs
<1> QED BY <1>1, <1>4

LEMMA StackPassed ==
  ASSUME NEW f, NEW h, Sound(f), Sound(h), NEW d \in UsedDirs(f), d \in UsedDirs(h),
         NEW pos, NEW L, NEW X, Passed(f, h, d, pos, L, X), NEW n \in Names,
         FilesSeen(f, h, d, L),
         NEW P, P = Named(f, d, n) \ L, NEW Q, Q = {Moved(pos)[p] : p \in P}
  PROVE  /\ P \in SUBSET Pairs /\ IsFiniteSet(P)
         /\ Q \in SUBSET Pairs /\ IsFiniteSet(Q)
         /\ Stack(h, d, Q) = Stack(f, d, P)
         /\ Q \subseteq Named(h, d, n) /\ Named(h, d, n) \ X \subseteq Q
<1> DEFINE g == Moved(pos)
<1>1. /\ Named(f, d, n) \in SUBSET Pairs /\ IsFiniteSet(Named(f, d, n))
      /\ \A s, m : <<s, m>> \in Named(f, d, n)
                     <=> LinkAt(f, d, s, m) /\ Entries(f, d, s)[m].name = n
  BY NamedIs
<1>2. /\ Named(h, d, n) \in SUBSET Pairs
      /\ \A s, m : <<s, m>> \in Named(h, d, n)
                     <=> LinkAt(h, d, s, m) /\ Entries(h, d, s)[m].name = n
  BY NamedIs
<1>3. P \in SUBSET Pairs /\ IsFiniteSet(P)
  BY <1>1, FS_Subset
<1>4. ASSUME NEW p \in P
      PROVE  /\ p = <<p[1], p[2]>> /\ p[1] \in Nat /\ p[2] \in Nat /\ p \notin L
             /\ LinkAt(f, d, p[1], p[2]) /\ Entries(f, d, p[1])[p[2]].name = n
  <2>1. p = <<p[1], p[2]>> /\ p[1] \in Nat /\ p[2] \in Nat
    BY <1>1 DEF Pairs
  <2> QED BY <1>1, <2>1
<1>5. ASSUME NEW p \in P
      PROVE  /\ g[p] = <<p[1], pos[p[1]][p[2]]>> /\ pos[p[1]][p[2]] \in Nat
             /\ KeptAt(f, h, d, p[1], p[2], pos[p[1]][p[2]])
  <2>1. p \in Pairs
    BY <1>3
  <2>2. g[p] = <<p[1], pos[p[1]][p[2]]>>
    BY <2>1 DEF Moved
  <2>3. <<p[1], p[2]>> \notin L
    BY <1>4
  <2> QED BY <1>4, <2>2, <2>3 DEF Passed
<1>q. Q = {g[p] : p \in P}
  OBVIOUS
<1>g. g = Moved(pos)
  OBVIOUS
<1> HIDE DEF g
<1>6. Q \subseteq Pairs
  BY <1>4, <1>5, <1>q DEF Pairs
<1>7. ASSUME NEW p \in P, NEW q \in P, Before(p, q) PROVE Before(g[p], g[q])
  <2> DEFINE a == g[p]
             b == g[q]
  <2>0. /\ a[1] = p[1] /\ a[2] = pos[p[1]][p[2]] /\ b[1] = q[1] /\ b[2] = pos[q[1]][q[2]]
    BY <1>5
  <2>1. p[1] < q[1] \/ (p[1] = q[1] /\ p[2] < q[2])
    BY <1>7 DEF Before
  <2>2. CASE p[1] < q[1]
    BY <2>0, <2>2 DEF Before
  <2>3. CASE p[1] = q[1] /\ p[2] < q[2]
    <3>1. <<p[1], p[2]>> \notin L /\ <<p[1], q[2]>> \notin L /\ LinkAt(f, d, p[1], q[2])
      BY <1>4, <2>3
    <3>2. pos[p[1]][p[2]] < pos[p[1]][q[2]]
      BY <1>4, <2>3, <3>1 DEF Passed
    <3> HIDE DEF a, b
    <3> QED BY <2>0, <2>3, <3>2 DEF Before, a, b
  <2> QED BY <2>1, <2>2, <2>3
<1>8. Moves(P, Q, g)
  BY <1>q, <1>6, <1>7 DEF Moves
<1>9. IsFiniteSet(Q)
  BY <1>3, <1>8, RanksMoved
<1>10. ASSUME NEW p \in P
       PROVE  EntrySeen(h, EntryAt(h, d, g[p])) = EntrySeen(f, EntryAt(f, d, p))
  BY <1>3, <1>4, <1>g, SeenMoved
<1>11. Stack(h, d, Q) = Stack(f, d, P)
  BY <1>3, <1>8, <1>10, StackMoved
<1>12. ASSUME NEW p \in P PROVE g[p] \in Named(h, d, n)
  <2> DEFINE s == p[1]
             m == pos[s][p[2]]
  <2>1. g[p] = <<s, m>> /\ LinkAt(h, d, s, m) /\ Entries(h, d, s)[m].name = n
    BY <1>4, <1>5 DEF KeptAt, Carried
  <2> HIDE DEF s, m
  <2> QED BY <1>2, <2>1
<1>13. ASSUME NEW q \in Named(h, d, n) \ X PROVE q \in Q
  <2>1. q = <<q[1], q[2]>> /\ q[1] \in Nat /\ q[2] \in Nat
    BY <1>2 DEF Pairs
  <2>2. LinkAt(h, d, q[1], q[2]) /\ Entries(h, d, q[1])[q[2]].name = n /\ <<q[1], q[2]>> \notin X
    BY <1>2, <2>1
  <2>3. PICK j \in Nat : LinkAt(f, d, q[1], j) /\ <<q[1], j>> \notin L /\ q[2] = pos[q[1]][j]
    BY <2>1, <2>2 DEF Passed
  <2>4. KeptAt(f, h, d, q[1], j, q[2])
    BY <2>1, <2>3 DEF Passed
  <2>5. Entries(f, d, q[1])[j].name = n
    BY <2>2, <2>4 DEF KeptAt
  <2>6. <<q[1], j>> \in P
    BY <1>1, <2>3, <2>5
  <2>7. g[<<q[1], j>>] = q
    BY <1>5, <2>1, <2>3, <2>6
  <2> QED BY <1>q, <2>6, <2>7
<1>14. Q \in SUBSET Pairs /\ Q \subseteq Named(h, d, n) /\ Named(h, d, n) \ X \subseteq Q
  BY <1>q, <1>6, <1>12, <1>13
<1> QED BY <1>3, <1>9, <1>11, <1>14

-----------------------------------------------------------------------------
(* What a call does to the tree.                                           *)

Pile(f, d, n) == IF f.imap[d] /\ IsDir(f, d) THEN Stack(f, d, Named(f, d, n)) ELSE <<>>

LEMMA PileIs ==
  ASSUME NEW f, NEW d \in Inodes, NEW n \in Names
  PROVE  /\ TreeOf(f)[d][n] = Pile(f, d, n)
         /\ d \in UsedDirs(f) => Pile(f, d, n) = Stack(f, d, Named(f, d, n))
         /\ d \notin UsedDirs(f) => Pile(f, d, n) = <<>>
  BY DEF TreeOf, Pile, UsedDirs, Used

LEMMA NoLinks ==
  ASSUME NEW f, Sound(f), NEW d \in Inodes, NEW n \in Names, \A s, m \in Nat : ~LinkAt(f, d, s, m)
  PROVE  Pile(f, d, n) = <<>>
<1>1. CASE d \notin UsedDirs(f)
  BY <1>1, PileIs
<1>2. CASE d \in UsedDirs(f)
  <2>1. Named(f, d, n) = {}
    <3> SUFFICES ASSUME NEW p \in Named(f, d, n) PROVE FALSE
      OBVIOUS
    <3>1. p = <<p[1], p[2]>> /\ p[1] \in Nat /\ p[2] \in Nat
      BY <1>2, NamedIs DEF Pairs
    <3>2. LinkAt(f, d, p[1], p[2])
      BY <1>2, <3>1, NamedIs
    <3> QED BY <3>1, <3>2
  <2>2. Stack(f, d, Named(f, d, n)) = <<>>
    BY <2>1, StackEmpty
  <2> QED BY <1>2, <2>2, PileIs
<1> QED BY <1>1, <1>2

(* A directory whose entries stay where they are.                          *)
LEMMA PileSame ==
  ASSUME NEW f, NEW h, Sound(f), Sound(h), NEW d \in UsedDirs(f), d \in UsedDirs(h),
         SameDir(f, h, d), NEW n \in Names,
         \A s, j \in Nat : LinkAt(f, d, s, j) /\ Kind(f, d, s, j) = "reg"
           => SeenKept(f, h, Child(f, d, s, j))
  PROVE  Pile(h, d, n) = Pile(f, d, n)
<1>1. Passed(f, h, d, SamePos, {}, {})
  BY PassedSame
<1>s. FilesSeen(f, h, d, {})
  BY DEF FilesSeen
<1> DEFINE P == Named(f, d, n) \ {}
           Q == {Moved(SamePos)[p] : p \in P}
<1>p. P = Named(f, d, n)
  OBVIOUS
<1>q. Q = {Moved(SamePos)[p] : p \in P} /\ P = Named(f, d, n) \ {}
  OBVIOUS
<1> HIDE DEF P, Q
<1>2. Stack(h, d, Q) = Stack(f, d, P) /\ Q \subseteq Named(h, d, n) /\ Named(h, d, n) \ {} \subseteq Q
  BY <1>1, <1>s, <1>q, StackPassed
<1>3. Q = Named(h, d, n)
  BY <1>2
<1>4. d \in Inodes
  BY DEF UsedDirs, Used
<1> QED BY <1>2, <1>3, <1>p, <1>4, PileIs

(* The place x comes before all those that the places P move to.           *)
Ahead(x, pos, P) == \A p \in P : Before(x, Moved(pos)[p])

(* A write is done: the free inode i has come, with the entry new in the   *)
(* parent, and the tree is the one before with the new entry on top.       *)
Written(f, h, req, i, new) ==
  /\ i \in Inodes \ Used(f) /\ req.parent \in UsedDirs(f) /\ i = NewInode(f)
  /\ new.ino = i /\ new.type = req.type /\ h.inode[i].mode = req.type
  /\ FileStored(h, i, req, HasSpace(f, i, req)) /\ OwnedBlocks(h, i) \subseteq Clear(f)
  /\ \A e \in Inodes, n \in Names :
       Pile(h, e, n) = IF e = req.parent /\ n = req.name THEN <<EntrySeen(h, new)>> \o Pile(f, e, n)
                                                         ELSE Pile(f, e, n)

(* Inode i has come with an entry in d, which precedes the others of its   *)
(* name.                                                                   *)
LEMMA WrittenIs ==
  ASSUME NEW f, NEW h, Sound(f), Sound(h), NEW i, i = NewInode(f), i \in Inodes \ Used(f),
         NEW d, NEW req \in WriteRequests, req.parent = d, d \in UsedDirs(f),
         NEW A, NEW c, NEW es, Created(f, h, i, d, req, A, c, es), c \in OwnedBlocks(f, d) \cup A,
         h.inode[d].mode = f.inode[d].mode,
         NEW pos, NEW s0 \in Nat, NEW m0 \in Nat, Passed(f, h, d, pos, {}, {<<s0, m0>>}),
         LinkAt(h, d, s0, m0), NEW new, Entries(h, d, s0)[m0] = new, new.name = req.name,
         new.ino = i, new.type = req.type,
         Ahead(<<s0, m0>>, pos, Named(f, d, req.name))
  PROVE  Written(f, h, req, i, new)
<1>0. /\ h.imap = [f.imap EXCEPT ![i] = TRUE] /\ h.inode[i].mode = req.type
      /\ \A j \in Inodes \ {d, i} : h.inode[j] = f.inode[j]
      /\ IsDir(h, i) => /\ DirShape(h, i) /\ h.inode[i].blocks = 1
                        /\ h.dir[h.inode[i].block[0]] = DirTable(i, d)
  BY DEF Created
<1>1. f \in FsInts /\ d \in Inodes /\ d \in Used(f) /\ d # i /\ IsDir(f, d)
  BY SoundDir DEF UsedDirs
<1>2. d \in UsedDirs(h) /\ \A e \in Inodes \ {i} : e \in UsedDirs(h) <=> e \in UsedDirs(f)
  <2>1. f.imap \in [Inodes -> BOOLEAN]
    BY <1>1 DEF FsInts
  <2>2. \A e \in Inodes \ {i} : h.imap[e] = f.imap[e] /\ h.inode[e].mode = f.inode[e].mode
    BY <1>0, <2>1
  <2> QED BY <1>1, <2>2 DEF UsedDirs, Used, IsDir
<1>3. \A j \in Used(f) \ {d} : OtherKept(f, h, j)
  BY CreatedOthers
<1>4. ASSUME NEW e \in UsedDirs(f), NEW s \in Nat, NEW j \in Nat, LinkAt(f, e, s, j), Kind(f, e, s, j) = "reg"
      PROVE  SeenKept(f, h, Child(f, e, s, j))
  <2> DEFINE x == Child(f, e, s, j)
  <2>1. x \in Used(f) /\ f.inode[x].mode = "reg"
    BY <1>4 DEF Sound, LinksTrue
  <2>2. x # d
    BY <1>1, <2>1 DEF IsDir
  <2>3. OtherKept(f, h, x)
    BY <1>3, <2>1, <2>2
  <2> HIDE DEF x
  <2>4. SeenKept(f, h, x)
    BY <2>3 DEF OtherKept, SeenKept
  <2> QED BY <2>4 DEF x
<1>5. ASSUME NEW n \in Names
      PROVE  Pile(h, d, n) = IF n = req.name THEN <<EntrySeen(h, new)>> \o Pile(f, d, n) ELSE Pile(f, d, n)
  <2> DEFINE P == Named(f, d, n) \ {}
             Q == {Moved(pos)[p] : p \in P}
             x == <<s0, m0>>
  <2>s. FilesSeen(f, h, d, {})
    BY <1>4 DEF FilesSeen
  <2>p. P = Named(f, d, n) \ {} /\ Q = {Moved(pos)[p] : p \in P}
    OBVIOUS
  <2>x. d \in UsedDirs(h) /\ Passed(f, h, d, pos, {}, {x})
    BY <1>2
  <2>b. n = req.name => \A q \in Q : Before(x, q)
    BY DEF Ahead
  <2>2. P = Named(f, d, n)
    OBVIOUS
  <2> HIDE DEF P, Q
  <2>1. /\ P \in SUBSET Pairs /\ IsFiniteSet(P) /\ Q \in SUBSET Pairs /\ IsFiniteSet(Q)
        /\ Stack(h, d, Q) = Stack(f, d, P)
        /\ Q \subseteq Named(h, d, n) /\ Named(h, d, n) \ {x} \subseteq Q
    BY <2>s, <2>p, <2>x, StackPassed, SMTT(30)
  <2>3. x \in Named(h, d, n) <=> n = req.name
    BY <1>2, NamedIs
  <2>4. x \in Pairs
    BY DEF Pairs
  <2>5. EntryAt(h, d, x) = new
    BY DEF EntryAt, Entries
  <2>6. Pile(h, d, n) = Stack(h, d, Named(h, d, n)) /\ Pile(f, d, n) = Stack(f, d, P)
    BY <1>1, <1>2, <2>2, PileIs
  <2>7. CASE n # req.name
    <3>1. Named(h, d, n) = Q
      BY <2>1, <2>3, <2>7
    <3> QED BY <2>1, <2>6, <2>7, <3>1
  <2>8. CASE n = req.name
    <3>1. Named(h, d, n) = Q \cup {x}
      BY <2>1, <2>3, <2>8
    <3>2. \A q \in Q : Before(x, q)
      BY <2>8, <2>b
    <3> HIDE DEF x
    <3>3. Stack(h, d, Q \cup {x}) = <<EntrySeen(h, EntryAt(h, d, x))>> \o Stack(h, d, Q)
      BY <2>1, <2>4, <3>2, StackPushed, SMTT(30)
    <3> QED BY <2>1, <2>5, <2>6, <2>8, <3>1, <3>3
  <2> QED BY <2>7, <2>8
<1>6. ASSUME NEW n \in Names PROVE Pile(h, i, n) = Pile(f, i, n)
  <2>1. i \notin UsedDirs(f)
    BY DEF UsedDirs
  <2>2. Pile(f, i, n) = <<>>
    BY <2>1, PileIs
  <2>3. CASE IsDir(h, i)
    <3>1. \A s, m : ~LinkAt(h, i, s, m)
      BY <1>0, <1>1, <2>3, TableSound
    <3> QED BY <2>2, <3>1, NoLinks
  <2>4. CASE ~IsDir(h, i)
    BY <2>2, <2>4, PileIs DEF UsedDirs
  <2> QED BY <2>3, <2>4
<1>7. ASSUME NEW e \in Inodes, e # d, e # i, NEW n \in Names PROVE Pile(h, e, n) = Pile(f, e, n)
  <2>1. CASE e \in UsedDirs(f)
    <3>1. OtherKept(f, h, e)
      BY <1>3, <1>7, <2>1 DEF UsedDirs
    <3>2. SameDir(f, h, e)
      BY <2>1, <3>1 DEF OtherKept
    <3>3. e \in UsedDirs(h)
      BY <1>2, <1>7, <2>1
    <3> QED BY <1>4, <2>1, <3>2, <3>3, PileSame
  <2>2. CASE e \notin UsedDirs(f)
    BY <1>2, <1>7, <2>2, PileIs
  <2> QED BY <2>1, <2>2
<1>8. FileStored(h, i, req, HasSpace(f, i, req)) /\ OwnedBlocks(h, i) \subseteq Clear(f)
  BY DEF Created
<1>9. \A e \in Inodes, n \in Names :
        Pile(h, e, n) = IF e = d /\ n = req.name THEN <<EntrySeen(h, new)>> \o Pile(f, e, n)
                                                 ELSE Pile(f, e, n)
  BY <1>1, <1>5, <1>6, <1>7
<1> QED BY <1>0, <1>8, <1>9 DEF Written

(* Inode i has gone with its entry in d, the first of its name.            *)
LEMMA PoppedTree ==
  ASSUME NEW f, NEW h, Sound(f), Sound(h), NEW req \in DeleteRequests, NEW s0, NEW k, NEW i,
         EntryRemoved(f, h, req, s0, k, i)
  PROVE  LET d == req.parent
         IN  \A e \in Inodes, n \in Names :
               Pile(h, e, n) = IF e = i THEN <<>>
                               ELSE IF e = d /\ n = req.name THEN Tail(Pile(f, e, n))
                               ELSE Pile(f, e, n)
<1> DEFINE d   == req.parent
           old == Entries(f, d, s0)
           es  == Removed(old, k)
           c   == f.inode[d].block[s0]
           x   == <<s0, k>>
<1>1. /\ d \in UsedDirs(f) /\ s0 \in DirSlots(f, d) /\ s0 \in Nat /\ k \in Nat
      /\ k \in 1 .. Len(old) /\ LinkAt(f, d, s0, k) /\ i = Child(f, d, s0, k)
      /\ i \in Used(f) /\ i # d /\ i \in Inodes
      /\ Unlinked(f, h, i, c, es)
      /\ Named(f, d, req.name) # {} /\ x = FirstOf(Named(f, d, req.name))
  BY DEF EntryRemoved
<1>2. f \in FsInts /\ d \in Inodes /\ DirSound(f, d) /\ c \in OwnedBlocks(f, d) /\ req.name \in Names
  BY <1>1, SoundDir, DeleteRequestFields
<1>3. h.imap = [f.imap EXCEPT ![i] = FALSE] /\ h.inode = [f.inode EXCEPT ![i] = Zeroed]
  BY <1>1 DEF Unlinked
<1>4. i \notin UsedDirs(h) /\ \A e \in Inodes \ {i} : e \in UsedDirs(h) <=> e \in UsedDirs(f)
  BY <1>1, <1>2, <1>3 DEF UsedDirs, Used, IsDir, FsInts
<1>5. DirRewritten(f, h, d, s0, es)
  BY <1>1, UnlinkedSound
<1>6. \A j \in Used(f) : j # d /\ j # i => OtherKept(f, h, j)
  BY <1>1, <1>2, UnlinkedOthers
<1>7. ASSUME NEW e \in UsedDirs(f), NEW s \in Nat, NEW j \in Nat, LinkAt(f, e, s, j), Kind(f, e, s, j) = "reg",
             ~(e = d /\ <<s, j>> = x)
      PROVE  SeenKept(f, h, Child(f, e, s, j))
  <2> DEFINE y == Child(f, e, s, j)
  <2>1. y \in Used(f) /\ f.inode[y].mode = "reg"
    BY <1>7 DEF Sound, LinksTrue
  <2>2. y # d
    BY <1>1, <2>1 DEF IsDir, UsedDirs
  <2>3. y # i
    <3>1. d \in UsedDirs(f) /\ e \in UsedDirs(f) /\ s0 \in Nat /\ k \in Nat /\ s \in Nat /\ j \in Nat
      BY <1>1
    <3>2. LinkAt(f, d, s0, k) /\ LinkAt(f, e, s, j) /\ LinksOnce(f)
      BY <1>1, <1>7 DEF Sound
    <3>3. Child(f, d, s0, k) = Child(f, e, s, j) => e = d /\ s = s0 /\ j = k
      BY <3>1, <3>2 DEF LinksOnce
    <3> QED BY <1>1, <1>7, <3>3
  <2>4. OtherKept(f, h, y)
    BY <1>6, <2>1, <2>2, <2>3
  <2> HIDE DEF y
  <2>5. SeenKept(f, h, y)
    BY <2>4 DEF OtherKept, SeenKept
  <2> QED BY <2>5 DEF y
<1>8. ASSUME NEW n \in Names
      PROVE  Pile(h, d, n) = IF n = req.name THEN Tail(Pile(f, d, n)) ELSE Pile(f, d, n)
  <2> DEFINE P   == Named(f, d, n) \ {x}
             pos == RemovePos(s0, k)
             Q   == {Moved(pos)[p] : p \in P}
  <2>0. /\ old \in Seq(EntryType) /\ Fit(old)
    <3>1. \A p \in Places(f, d) : Entries(f, d, p[1]) \in Seq(EntryType)
      BY <1>1, <1>2, SoundDir, PlacesIs
    <3>2. x \in Places(f, d)
      BY <1>1, <1>2, SoundDir, PlacesIs
    <3> QED BY <1>1, <1>2, <3>1, <3>2 DEF DirSound
  <2>1. Passed(f, h, d, pos, {x}, {})
    BY <1>1, <1>5, <2>0, PassedRemoved
  <2>2. FilesSeen(f, h, d, {x})
    BY <1>1, <1>7 DEF FilesSeen
  <2>3. d \in UsedDirs(h) /\ d \in UsedDirs(f)
    BY <1>1, <1>2, <1>4
  <2> DEFINE L == {x}
             X == {}
  <2>p. P = Named(f, d, n) \ L /\ Q = {Moved(pos)[p] : p \in P}
    OBVIOUS
  <2>l. Passed(f, h, d, pos, L, X) /\ FilesSeen(f, h, d, L) /\ L = {x} /\ X = {}
    BY <2>1, <2>2
  <2> HIDE DEF pos, x, P, Q, d, L, X
  <2>4. /\ P \in SUBSET Pairs /\ IsFiniteSet(P)
        /\ Stack(h, d, Q) = Stack(f, d, P)
        /\ Q \subseteq Named(h, d, n) /\ Named(h, d, n) \ X \subseteq Q
    BY <2>3, <2>p, <2>l, StackPassed
  <2>5. Q = Named(h, d, n)
    BY <2>4, <2>l
  <2>6. Pile(h, d, n) = Stack(f, d, P) /\ Pile(f, d, n) = Stack(f, d, Named(f, d, n))
    BY <1>1, <1>2, <2>3, <2>4, <2>5, PileIs
  <2>7. x \in Named(f, d, n) <=> n = req.name
    <3>1. \A m \in Names : x \in Named(f, d, m) <=> Entries(f, d, s0)[k].name = m
      BY <1>1, NamedIs DEF x
    <3>2. Named(f, d, req.name) \in SUBSET (Nat \X Nat)
      BY <1>1, <1>2, NamedIs DEF Pairs
    <3>3. x \in Named(f, d, req.name)
      BY <1>1, <3>2, FirstIs
    <3> QED BY <1>2, <3>1, <3>3
  <2>8. CASE n # req.name
    <3>1. P = Named(f, d, n)
      BY <2>p, <2>l, <2>7, <2>8
    <3> QED BY <2>6, <2>8, <3>1
  <2>9. CASE n = req.name
    <3>1. Named(f, d, n) = P \cup {x} /\ x \in Pairs
      <4>1. Named(f, d, n) \in SUBSET Pairs
        BY <2>3, NamedIs
      <4> QED BY <2>p, <2>l, <2>7, <2>9, <4>1
    <3>2. \A p \in P : Before(x, p)
      <4>1. Named(f, d, n) \in SUBSET (Nat \X Nat) /\ Named(f, d, n) # {}
        BY <1>1, <2>9, NamedIs DEF Pairs
      <4>2. \A q \in Named(f, d, n) : x[1] < q[1] \/ (x[1] = q[1] /\ x[2] <= q[2])
        BY <1>1, <2>9, <4>1, FirstIs
      <4>3. ASSUME NEW p \in P PROVE Before(x, p)
        <5>1. p \in Pairs /\ p # x /\ (x[1] < p[1] \/ (x[1] = p[1] /\ x[2] <= p[2]))
          BY <2>p, <2>l, <2>4, <4>2
        <5> QED BY <3>1, <5>1 DEF Pairs, Before
      <4> QED BY <4>3
    <3> HIDE DEF P
    <3>3. Tail(Stack(f, d, Named(f, d, n))) = Stack(f, d, P)
      BY <2>4, <3>1, <3>2, StackTop
    <3> QED BY <2>6, <2>9, <3>1, <3>3
  <2> QED BY <2>8, <2>9
<1>9. ASSUME NEW n \in Names PROVE Pile(h, i, n) = <<>>
  BY <1>1, <1>4, PileIs
<1>10. ASSUME NEW e \in Inodes, e # d, e # i, NEW n \in Names PROVE Pile(h, e, n) = Pile(f, e, n)
  <2>1. CASE e \in UsedDirs(f)
    <3>1. OtherKept(f, h, e)
      BY <1>6, <1>10, <2>1 DEF UsedDirs
    <3>2. SameDir(f, h, e)
      BY <2>1, <3>1 DEF OtherKept
    <3>3. e \in UsedDirs(h)
      BY <1>4, <1>10, <2>1
    <3>4. \A s, j \in Nat : LinkAt(f, e, s, j) /\ Kind(f, e, s, j) = "reg" => SeenKept(f, h, Child(f, e, s, j))
      BY <1>7, <1>10, <2>1
    <3> QED BY <2>1, <3>2, <3>3, <3>4, PileSame
  <2>2. CASE e \notin UsedDirs(f)
    BY <1>4, <1>10, <2>2, PileIs
  <2> QED BY <2>1, <2>2
<1> QED BY <1>1, <1>8, <1>9, <1>10

LEMMA InsertWritten ==
  ASSUME NEW f, Sound(f), NEW req \in WriteRequests, Inserts(f, req), req.parent \in UsedDirs(f),
         NEW h, Sound(h), NEW p, p = FirstOf(Stops(f, req)), NEW new,
         EntryInserted(f, h, req, p[1], p[2], new)
  PROVE  Written(f, h, req, NewInode(f), new)
<1> DEFINE d   == req.parent
           i   == NewInode(f)
           s0  == p[1]
           k   == p[2]
           c   == f.inode[d].block[s0]
           old == Entries(f, d, s0)
           es  == Inserted(old, k, new)
           pos == InsertPos(s0, k)
           m0  == k + 1
<1>1. /\ s0 \in DirSlots(f, d) /\ s0 \in Nat /\ k \in 1 .. Len(old)
      /\ old \in Seq(EntryType) /\ Fit(old)
      /\ new \in EntryType /\ new.ino = i /\ new.name = req.name /\ new.type = req.type
      /\ new.len = Hole(old[k]) /\ RecLen[new.name] <= new.len
      /\ i \in Inodes \ Used(f) /\ i # 0 /\ c \in OwnedBlocks(f, d)
      /\ Created(f, h, i, d, req, {}, c, es) /\ DirRewritten(f, h, d, s0, es)
      /\ h.inode[d] = f.inode[d]
  BY DEF EntryInserted
<1>2. new.name \in Names /\ k \in Nat /\ m0 \in Nat
  BY <1>1, RequestFields
<1>3. /\ Passed(f, h, d, pos, {}, {<<s0, m0>>})
      /\ LinkAt(h, d, s0, m0) /\ Entries(h, d, s0)[m0] = new
  <2>1. old = Entries(f, d, s0)
    OBVIOUS
  <2>2. DirRewritten(f, h, d, s0, Inserted(old, k, new))
    BY <1>1
  <2> HIDE DEF s0, k, old, d, i, c
  <2>3. /\ s0 \in Nat /\ k \in 1 .. Len(old) /\ old \in Seq(EntryType) /\ Fit(old)
        /\ new \in EntryType /\ new.name \in Names /\ new.ino # 0
        /\ Hole(old[k]) = new.len /\ RecLen[new.name] <= new.len
    BY <1>1, <1>2
  <2>4. m0 = k + 1
    OBVIOUS
  <2> HIDE DEF pos, m0
  <2>5. Passed(f, h, d, InsertPos(s0, k), {}, {<<s0, m0>>})
    BY <2>1, <2>2, <2>3, <2>4, PassedInserted
  <2>6. LinkAt(h, d, s0, m0) /\ Entries(h, d, s0)[m0] = new
    <3>1. HasInserted(Inserted(old, k, new), old, k, new)
      BY <2>3, InsertedIs
    <3> QED BY <2>2, <2>3, <2>4, <3>1, EntryPut
  <2> QED BY <2>5, <2>6 DEF pos
<1>4. ASSUME NEW q \in Named(f, d, req.name) PROVE Before(<<s0, m0>>, Moved(pos)[q])
  <2>1. /\ Places(f, d) \subseteq Nat \X Nat /\ Named(f, d, req.name) \subseteq Places(f, d)
        /\ Roomy(f, d, req.name) \subseteq Places(f, d)
    BY SoundDir, PlacesIs DEF Named, Roomy
  <2>2. Stops(f, req) \in SUBSET (Nat \X Nat) /\ Stops(f, req) # {} /\ q \in Stops(f, req)
        /\ q \in Nat \X Nat
    BY <2>1 DEF Stops
  <2>3. p \in Nat \X Nat /\ (s0 < q[1] \/ (s0 = q[1] /\ k <= q[2]))
    BY <2>2, FirstIs
  <2>4. p # q
    BY DEF Inserts
  <2> DEFINE a == q[1]
             b == q[2]
  <2>5. q = <<a, b>> /\ p = <<s0, k>> /\ a \in Nat /\ b \in Nat /\ s0 \in Nat /\ k \in Nat
    BY <2>2, <2>3
  <2>6. Moved(pos)[q] = <<a, IF a = s0 /\ b > k THEN b + 1 ELSE b>>
    BY <2>5 DEF Moved, Pairs, InsertPos
  <2>7. s0 < a \/ (s0 = a /\ k <= b)
    BY <2>3
  <2> HIDE DEF a, b, s0, k, pos
  <2>8. s0 < a \/ (s0 = a /\ k < b)
    BY <2>4, <2>5, <2>7
  <2> QED BY <2>5, <2>6, <2>8 DEF Before
<1>a. Ahead(<<s0, m0>>, pos, Named(f, d, req.name))
  BY <1>4 DEF Ahead
<1>5. c \in OwnedBlocks(f, d) \cup {} /\ h.inode[d].mode = f.inode[d].mode /\ i = NewInode(f) /\ req.parent = d
  BY <1>1
<1> HIDE DEF s0, k, old, d, i, c, pos, es, m0
<1>6. Written(f, h, req, i, new)
  BY <1>1, <1>2, <1>3, <1>a, <1>5, WrittenIs DEF d
<1> QED BY <1>6 DEF i

LEMMA GrowWritten ==
  ASSUME NEW f, Sound(f), NEW req \in WriteRequests, Stops(f, req) = {}, req.parent \in UsedDirs(f),
         NEW h, Sound(h), NEW b, NEW new, EntryGrown(f, h, req, b, new)
  PROVE  Written(f, h, req, NewInode(f), new)
<1> DEFINE d  == req.parent
           i  == NewInode(f)
           s0 == f.inode[d].blocks
<1>1. /\ b \in Clear(f) /\ b \in Blocks /\ b \notin Meta /\ b # Null /\ b \notin OwnedBlocks(f, d)
      /\ new \in EntryType /\ new.ino = i /\ new.name = req.name /\ new.type = req.type
      /\ new.len = BlockLen /\ i \in Inodes \ Used(f) /\ i # 0
      /\ Created(f, h, i, d, req, {b}, b, <<new>>)
      /\ h.inode[d] = GrownParent(f, d, b) /\ s0 < Direct
  BY DEF EntryGrown
<1>2. /\ f \in FsInts /\ d \in Inodes /\ Shape(f, d) /\ DirSound(f, d) /\ DirShape(f, d) /\ d \in UsedDirs(f)
      /\ OwnedBlocks(f, d) \subseteq Blocks \ Clear(f)
  BY SoundDir
<1>3. h \in FsInts /\ h.dir[b] = <<new>> /\ \A x \in OwnedBlocks(f, d) : h.dir[x] = f.dir[x]
  BY <1>1, <1>2 DEF Created
<1>4. new.name \in Names
  BY <1>1, RequestFields
<1>5. h.inode[d].mode = f.inode[d].mode /\ i = NewInode(f) /\ req.parent = d
  <2>1. i = NewInode(f) /\ req.parent = d
    OBVIOUS
  <2> HIDE DEF i, d
  <2>2. h.inode[d].mode = f.inode[d].mode
    BY <1>1, <1>2, <1>3, DirGrown
  <2> QED BY <2>1, <2>2
<1>6. \A x : Ahead(x, SamePos, Named(f, d, req.name))
  BY DEF Stops, Ahead
<1> HIDE DEF i, d
<1>7. /\ s0 \in Nat /\ Passed(f, h, d, SamePos, {}, {<<s0, 1>>})
      /\ LinkAt(h, d, s0, 1) /\ Entries(h, d, s0)[1] = new
  BY <1>1, <1>2, <1>3, <1>4, PassedGrown
<1>8. b \in OwnedBlocks(f, d) \cup {b} /\ 1 \in Nat
  OBVIOUS
<1> HIDE DEF s0
<1>9. Written(f, h, req, i, new)
  BY <1>1, <1>2, <1>5, <1>6, <1>7, <1>8, WrittenIs
<1> QED BY <1>9 DEF i

(* What a write does that ends as the code means it to.                    *)
Answered(f, req, h, code) ==
  \/ h = f /\ code = 2 /\ ~IsDir(f, req.parent)
  \/ h = f /\ code = -1 /\ IsDir(f, req.parent)
  \/ h = f /\ code = 1 /\ IsDir(f, req.parent) /\ Named(f, req.parent, req.name) # {}
  \/ code = 0 /\ \E new : Written(f, h, req, NewInode(f), new)

LEMMA WriteAnswers ==
  ASSUME NEW f, Sound(f), NEW req \in WriteRequests, Handled(f, req),
         NEW h, h = WriteResult(f, req).fs, NEW code, code = WriteResult(f, req).code
  PROVE  Answered(f, req, h, code)
<1> DEFINE d    == req.parent
           i    == NewInode(f)
           free == FreeFrom(f, inode_to_bgd(d))
<1>0. Sound(h)
  BY WriteSound
<1>1. d \in Inodes
  BY RequestFields
<1>2. CASE ~IsDir(f, d)
  BY <1>2 DEF WriteResult, Answered
<1>3. CASE IsDir(f, d) /\ Stops(f, req) = {}
  <2>1. d \in UsedDirs(f)
    BY <1>1, <1>3, DirUsed
  <2>2. h = GrowDirectory(f, req).fs /\ code = GrowDirectory(f, req).code
    BY <1>3 DEF WriteResult, Stops
  <2>3. CASE free = {}
    BY <1>3, <2>2, <2>3 DEF GrowDirectory, Answered
  <2>4. CASE free # {}
    <3>1. Grows(f, req)
      BY <1>3, <2>4 DEF Grows
    <3>2. /\ i # 0 /\ TableBlock(i) # TableBlock(d) /\ f.inode[d].blocks < Direct
          /\ RoomFor(TakeBlocks(f, {LeastOf(free)}), req, i)
      BY <3>1 DEF Handled
    <3>3. code = 0 /\ \E b, new : EntryGrown(f, h, req, b, new)
      BY <2>1, <2>2, <2>4, <3>2, GrowMade
    <3>4. PICK b, new : EntryGrown(f, h, req, b, new)
      BY <3>3
    <3>5. \E x : Written(f, h, req, NewInode(f), x)
      BY <1>0, <1>3, <2>1, <3>4, GrowWritten
    <3> QED BY <3>3, <3>5 DEF Answered
  <2> QED BY <2>3, <2>4
<1>4. CASE IsDir(f, d) /\ Stops(f, req) # {}
  <2> DEFINE p == FirstOf(Stops(f, req))
  <2>1. d \in UsedDirs(f)
    BY <1>1, <1>4, DirUsed
  <2>2. p \in Stops(f, req)
    <3>1. Places(f, d) \subseteq Nat \X Nat
      BY <2>1, SoundDir, PlacesIs
    <3>2. Stops(f, req) \in SUBSET (Nat \X Nat)
      BY <3>1 DEF Stops, Named, Roomy
    <3> QED BY <1>4, <3>2, FirstIs
  <2>3. CASE p \in Named(f, d, req.name)
    BY <1>4, <2>3 DEF WriteResult, Stops, Answered
  <2>4. CASE p \notin Named(f, d, req.name)
    <3>1. h = InsertEntry(f, req, p).fs /\ code = InsertEntry(f, req, p).code
      BY <1>4, <2>4 DEF WriteResult, Stops
    <3>2. CASE i = 0
      BY <1>4, <3>1, <3>2 DEF InsertEntry, Answered
    <3>3. CASE i # 0
      <4>1. Inserts(f, req)
        BY <1>4, <2>4 DEF Inserts
      <4>2. RoomFor(f, req, i)
        BY <3>3, <4>1 DEF Handled
      <4>3. p \in Roomy(f, d, req.name)
        BY <2>2, <2>4 DEF Stops
      <4>p. p = FirstOf(Stops(f, req))
        OBVIOUS
      <4> HIDE DEF p
      <4>4. code = 0 /\ \E new : EntryInserted(f, h, req, p[1], p[2], new)
        BY <2>1, <3>1, <3>3, <4>2, <4>3, InsertMade
      <4>5. PICK new : EntryInserted(f, h, req, p[1], p[2], new)
        BY <4>4
      <4>6. \E x : Written(f, h, req, NewInode(f), x)
        BY <1>0, <2>1, <4>1, <4>5, <4>p, InsertWritten
      <4> QED BY <4>4, <4>6 DEF Answered
    <3> QED BY <3>2, <3>3
  <2> QED BY <2>3, <2>4
<1> QED BY <1>2, <1>3, <1>4

LEMMA WriteDoes ==
  ASSUME NEW f, Sound(f), NEW req \in WriteRequests, Handled(f, req), NEW h, h = WriteResult(f, req).fs
  PROVE  h = f \/ \E new : Written(f, h, req, NewInode(f), new)
  BY WriteAnswers DEF Answered

-----------------------------------------------------------------------------
(* What a program sees of a name is the top of its pile.                   *)

LEMMA TopIs ==
  ASSUME NEW f, Sound(f), NEW d \in UsedDirs(f), NEW n \in Names
  PROVE  /\ Named(f, d, n) = {} => Pile(f, d, n) = <<>>
         /\ Named(f, d, n) # {} =>
              /\ Pile(f, d, n) # <<>>
              /\ Head(Pile(f, d, n)) = EntrySeen(f, EntryAt(f, d, FirstOf(Named(f, d, n))))
<1>1. d \in Inodes /\ Pile(f, d, n) = Stack(f, d, Named(f, d, n))
  BY SoundDir, PileIs
<1>2. CASE Named(f, d, n) = {}
  BY <1>1, <1>2, StackEmpty
<1>3. CASE Named(f, d, n) # {}
  <2> DEFINE P == Named(f, d, n)
             x == FirstOf(P)
             R == P \ {x}
  <2>1. P \in SUBSET Pairs /\ P \in SUBSET (Nat \X Nat) /\ IsFiniteSet(P)
    BY NamedIs DEF Pairs
  <2>2. x \in P /\ \A q \in P : x[1] < q[1] \/ (x[1] = q[1] /\ x[2] <= q[2])
    BY <1>3, <2>1, FirstIs
  <2>3. R \in SUBSET Pairs /\ IsFiniteSet(R) /\ x \in Pairs /\ P = R \cup {x}
    BY <2>1, <2>2, FS_Subset
  <2>4. ASSUME NEW p \in R PROVE Before(x, p)
    <3>1. p \in Pairs /\ x \in Pairs /\ p # x /\ (x[1] < p[1] \/ (x[1] = p[1] /\ x[2] <= p[2]))
      BY <2>2, <2>3
    <3> HIDE DEF P, R, x
    <3> QED BY <3>1 DEF Pairs, Before
  <2> HIDE DEF R, x, P
  <2>5. \A p \in R : Before(x, p)
    BY <2>4
  <2> DEFINE s == Stack(f, d, P)
  <2>6. s # <<>> /\ Head(s) = EntrySeen(f, EntryAt(f, d, x)) /\ Tail(s) = Stack(f, d, R)
    BY <2>3, <2>5, StackTop
  <2> QED BY <1>1, <1>3, <2>6 DEF x, P
<1> QED BY <1>2, <1>3

Topmost(s) == IF s = <<>> THEN Absent
              ELSE [type |-> Head(s).type, ino |-> Head(s).id, data |-> Head(s).data]

LEMMA LookupIs ==
  ASSUME NEW f, Sound(f), NEW d \in UsedDirs(f), NEW n \in Names
  PROVE  Lookup(f, d, n) = Topmost(Pile(f, d, n))
<1>1. CASE Named(f, d, n) = {}
  BY <1>1, TopIs DEF Lookup, Topmost
<1>2. CASE Named(f, d, n) # {}
  <2> DEFINE e == EntryAt(f, d, FirstOf(Named(f, d, n)))
             s == Pile(f, d, n)
  <2>1. s # <<>> /\ Head(s) = EntrySeen(f, e)
    BY <1>2, TopIs
  <2>2. Lookup(f, d, n) = [type |-> e.type, ino |-> e.ino,
                           data |-> IF e.type = "reg" THEN FileData(f, e.ino) ELSE <<>>]
    BY <1>2 DEF Lookup
  <2>3. /\ Head(s).type = e.type /\ Head(s).id = e.ino
        /\ Head(s).data = IF e.type = "reg" THEN FileData(f, e.ino) ELSE <<>>
    BY <2>1 DEF EntrySeen
  <2> HIDE DEF e, s
  <2>4. Topmost(s) = [type |-> Head(s).type, ino |-> Head(s).id, data |-> Head(s).data]
    BY <2>1 DEF Topmost
  <2> QED BY <2>2, <2>3, <2>4 DEF s
<1> QED BY <1>1, <1>2

-----------------------------------------------------------------------------
(* The steps of a program that stays clear of the mishaps.                 *)

LEMMA StepDoes ==
  ASSUME Invariant, [HandledNext]_fs, fs' # fs
  PROVE  /\ Sound(fs) /\ Sound(fs')
         /\ \/ \E req \in WriteRequests : \E new :
                 Write(req) /\ Written(fs, fs', req, NewInode(fs), new)
            \/ \E req \in DeleteRequests : \E s0, k, i :
                 Delete(req) /\ EntryRemoved(fs, fs', req, s0, k, i)
<1>1. Sound(fs)
  BY DEF Invariant
<1>2. Sound(fs')
  BY InvariantKept DEF Invariant
<1>3. ASSUME NEW req \in WriteRequests, Handled(fs, req), Write(req)
      PROVE  \E new : Written(fs, fs', req, NewInode(fs), new)
  <2>1. fs' = WriteResult(fs, req).fs
    BY <1>3 DEF Write
  <2> QED BY <1>1, <1>3, <2>1, WriteDoes
<1>4. ASSUME NEW req \in DeleteRequests, Delete(req)
      PROVE  \E s0, k, i : EntryRemoved(fs, fs', req, s0, k, i)
  <2>1. PICK empty : fs' = DeleteResult(fs, req, empty).fs
    BY <1>4 DEF Delete
  <2> QED BY <1>1, <2>1, DeleteMade
<1>5. ~Reboot
  BY <1>1 DEF Sound, Reboot, FsInts
<1> QED BY <1>1, <1>2, <1>3, <1>4, <1>5 DEF HandledNext

-----------------------------------------------------------------------------
(* No other name notices.                                                  *)

LEMMA OthersSeen ==
  ASSUME Invariant, [HandledNext]_fs, fs' # fs, NEW d \in Dirs, NEW n \in Names,
         IsDir(fs', d), Lookup(fs', d, n) # Lookup(fs, d, n)
  PROVE  \E req \in WriteRequests \cup DeleteRequests :
           /\ req.parent = d /\ req.name = n
           /\ req \in WriteRequests => Write(req)
           /\ req \in DeleteRequests => Delete(req)
<1>1. Sound(fs) /\ Sound(fs')
  BY StepDoes
<1>2. d \in UsedDirs(fs) /\ d \in Inodes
  BY DEF Dirs, InUse, UsedDirs, Used
<1>3. d \in UsedDirs(fs')
  BY <1>1, <1>2, DirUsed
<1>4. Pile(fs', d, n) # Pile(fs, d, n)
  BY <1>1, <1>2, <1>3, LookupIs
<1>5. WriteRequests \cap DeleteRequests = {}
  <2>1. \A r \in WriteRequests : DOMAIN r = {"parent", "name", "type", "size", "data"}
    BY DEF WriteRequests
  <2>2. \A r \in DeleteRequests : DOMAIN r = {"parent", "name", "type"}
    BY DEF DeleteRequests
  <2>3. {"parent", "name", "type", "size", "data"} # {"parent", "name", "type"}
    OBVIOUS
  <2> QED BY <2>1, <2>2, <2>3
<1>6. CASE \E req \in WriteRequests : \E new :
             Write(req) /\ Written(fs, fs', req, NewInode(fs), new)
  <2>1. PICK req \in WriteRequests : \E new : Write(req) /\ Written(fs, fs', req, NewInode(fs), new)
    BY <1>6
  <2>2. d = req.parent /\ n = req.name
    BY <1>2, <1>4, <2>1 DEF Written
  <2> QED BY <1>5, <2>1, <2>2
<1>7. CASE \E req \in DeleteRequests : \E s0, k, i :
             Delete(req) /\ EntryRemoved(fs, fs', req, s0, k, i)
  <2>1. PICK req \in DeleteRequests : \E s0, k, i :
          Delete(req) /\ EntryRemoved(fs, fs', req, s0, k, i)
    BY <1>7
  <2>p. PICK s0, k, i : Delete(req) /\ EntryRemoved(fs, fs', req, s0, k, i)
    BY <2>1
  <2>2. /\ Pile(fs', d, n) = IF d = i THEN <<>>
                             ELSE IF d = req.parent /\ n = req.name THEN Tail(Pile(fs, d, n))
                             ELSE Pile(fs, d, n)
    BY <1>1, <1>2, <2>p, PoppedTree
  <2>3. i \in Inodes /\ ~fs'.imap[i]
    BY <1>1, <2>p, SoundDir DEF EntryRemoved, Unlinked, FsInts
  <2>4. d # i
    BY <1>3, <2>3 DEF UsedDirs, Used
  <2>5. d = req.parent /\ n = req.name
    BY <1>4, <2>2, <2>4
  <2> QED BY <1>5, <2>p, <2>5
<1> QED BY <1>6, <1>7, StepDoes

(* Whatever is written, deleted or switched off and on, what a name stands *)
(* for - its inode, its type and all of its data - changes only in a call  *)
(* about that name (ext2.c:515-806).                                       *)
THEOREM OthersStayKept == HandledSpec => OthersKept
<1> DEFINE Kept == \A d \in Dirs, n \in Names :
              (fs' # fs /\ IsDir(fs', d) /\ Lookup(fs', d, n) # Lookup(fs, d, n))
                => \E req \in WriteRequests \cup DeleteRequests :
                     /\ req.parent = d /\ req.name = n
                     /\ req \in WriteRequests => Write(req)
                     /\ req \in DeleteRequests => Delete(req)
<1>1. Invariant /\ [HandledNext]_fs => [Kept]_fs
  BY OthersSeen
<1>2. OthersKept <=> [][Kept]_fs
  BY DEF OthersKept
<1> HIDE DEF Kept
<1> QED BY <1>1, <1>2, InvariantHolds, PTL DEF HandledSpec

-----------------------------------------------------------------------------
(* A write that returns 0 is one of those that end as they should, because *)
(* no other leaves a disk that the theorems are about.                     *)

LEMMA FirstDataIs ==
  ASSUME NEW g \in Groups
  PROVE  FirstData(g) \in Blocks \ {Null} /\ Group(FirstData(g)) = g
<1> DEFINE n == BlocksPerGroup
           m == TableBlocks + (IF g = 0 THEN 5 ELSE 2)
<1>1. n \in Nat \ {0} /\ m \in 1 .. n - 1 /\ g \in Nat /\ GroupCount \in Nat /\ g + 1 <= GroupCount
  BY Positive DEF Groups
<1>2. FirstData(g) = g * n + m
  <2> DEFINE x == g * n
  <2>1. x \in Nat /\ FirstData(g) = x + TableBlocks + (IF g = 0 THEN 5 ELSE 2)
    BY <1>1, TimesNat DEF FirstData
  <2> HIDE DEF x
  <2>2. FirstData(g) = x + m
    BY <2>1, Positive
  <2> QED BY <2>2 DEF x
<1> HIDE DEF n, m
<1>3. (g * n + m) \div n = g
  BY <1>1, DivIs
<1>4. (g + 1) * n <= GroupCount * n
  BY <1>1, TimesMono
<1>5. g * n \in Nat /\ (g + 1) * n = g * n + n /\ GroupCount * n \in Nat
  BY <1>1, TimesNat
<1>6. g * n + m \in 0 .. GroupCount * n - 1 /\ g * n + m # 0
  BY <1>1, <1>4, <1>5
<1> QED BY <1>2, <1>3, <1>6 DEF n, Blocks, Group, Null

LEMMA RoomlessTable ==
  ASSUME NEW f \in FsInts, NEW i \in Inodes, NEW parent \in Inodes,
         FreeFrom(f, inode_to_bgd(i)) = {}, NEW h, h = InitDirectory(f, i, parent)
  PROVE  /\ h \in FsInts /\ h.imap = f.imap /\ h.inode = [f.inode EXCEPT ![i] = h.inode[i]]
         /\ h.inode[i].block[0] = FirstData(inode_to_bgd(i))
<1> DEFINE g    == inode_to_bgd(i)
           b    == FirstData(g)
           at   == [Zeroed.block EXCEPT ![0] = b]
           node == [mode |-> "dir", blocks |-> 1, block |-> at]
           put  == PutDir(f, b, DirTable(i, parent))
           made == SyncMetadata(put)
           c    == [made.count EXCEPT !.dirs = [made.count.dirs EXCEPT ![g] = made.count.dirs[g] + 1]]
           up   == [made EXCEPT !.count = c]
<1>1. h = SyncNode(up, i, node)
  BY DEF InitDirectory
<1>2. g \in Groups /\ b \in Blocks
  BY InodeGroupIn, FirstDataIs
<1>b. b = FirstData(inode_to_bgd(i))
  OBVIOUS
<1> HIDE DEF b, g
<1>3. at \in [Slots -> Blocks] /\ at[0] = b
  <2>1. Null \in Blocks
    BY BootAndRoot
  <2> QED BY <1>2, <2>1, SlotKinds, Positive DEF Zeroed
<1> HIDE DEF at
<1>4. node \in InodeType /\ node.block = at
  BY <1>3 DEF InodeType, Modes
<1>5. put \in FsInts /\ SameTables(f, put)
  BY <1>2, PutDirIs, DirTableType
<1> HIDE DEF put
<1>6. made \in FsInts /\ SameTables(put, made)
  BY <1>5, SyncMetadataIs
<1> HIDE DEF made
<1>7. made.count \in CountInts
  BY <1>6 DEF FsInts
<1>8. c \in CountInts
  BY <1>2, <1>7 DEF CountInts
<1> HIDE DEF c
<1>9. up \in FsInts /\ SameTables(made, up)
  BY <1>6, <1>8 DEF FsInts, SameTables
<1> HIDE DEF up, node
<1>10. h \in FsInts /\ h.imap = up.imap /\ h.inode = [up.inode EXCEPT ![i] = node]
  BY <1>1, <1>4, <1>9, SyncNodeIs
<1>11. h.imap = f.imap /\ h.inode = [f.inode EXCEPT ![i] = node]
  BY <1>5, <1>6, <1>9, <1>10 DEF SameTables
<1>12. h.inode[i] = node
  BY <1>11 DEF FsInts
<1> QED BY <1>b, <1>3, <1>4, <1>10, <1>11, <1>12

(* With or without a block for a new directory.                            *)
LEMMA FillEither ==
  ASSUME NEW f \in FsInts, NEW i \in Inodes \ Used(f), NEW req \in WriteRequests,
         Meta \cap Clear(f) = {}, Counted(f), NEW h, h = FillInode(TakeInode(f, i), i, req)
  PROVE  /\ h \in FsInts /\ h.imap = [f.imap EXCEPT ![i] = TRUE]
         /\ h.inode = [f.inode EXCEPT ![i] = h.inode[i]]
         /\ ~RoomFor(f, req, i) => h.inode[i].block[0] = FirstData(inode_to_bgd(i))
<1>1. CASE RoomFor(f, req, i)
  BY <1>1, FillIs
<1>2. CASE ~RoomFor(f, req, i)
  <2> DEFINE t == TakeInode(f, i)
  <2>1. /\ t \in FsInts /\ t.bmap = f.bmap /\ t.inode = f.inode /\ t.imap = [f.imap EXCEPT ![i] = TRUE]
        /\ t.count.blocks = f.count.blocks
    BY TakeInodeIs
  <2>2. req.type = "dir" /\ FreeFrom(f, inode_to_bgd(i)) = {} /\ req.parent \in Inodes
    BY <1>2, RequestFields DEF RoomFor
  <2> HIDE DEF t
  <2>3. FreeFrom(t, inode_to_bgd(i)) = {}
    BY <2>1, <2>2, FreeSame
  <2>4. h = InitDirectory(t, i, req.parent)
    BY <2>2 DEF FillInode, t
  <2>5. /\ h \in FsInts /\ h.imap = t.imap /\ h.inode = [t.inode EXCEPT ![i] = h.inode[i]]
        /\ h.inode[i].block[0] = FirstData(inode_to_bgd(i))
    BY <2>1, <2>2, <2>3, <2>4, RoomlessTable
  <2> QED BY <2>1, <2>5
<1> QED BY <1>1, <1>2

(* What a growing directory leaves in the inodes, whatever goes wrong.     *)
LEMMA GrownTables ==
  ASSUME NEW f, Sound(f), NEW req \in WriteRequests, NEW d, d = req.parent, d \in UsedDirs(f),
         NEW b, b = LeastOf(FreeFrom(f, inode_to_bgd(d))), FreeFrom(f, inode_to_bgd(d)) # {},
         NEW i, i = NewInode(f), GrowDirectory(f, req).code = 0,
         NEW h, h = GrowDirectory(f, req).fs
  PROVE  /\ i \in Inodes \ Used(f) /\ i # d /\ b \in Clear(f) /\ b \in Blocks /\ b # Null
         /\ h.imap[i] /\ h.inode[d] = GrownParent(f, d, b)
         /\ TableBlock(i) = TableBlock(d) => h.inode[i] = f.inode[i]
         /\ TableBlock(i) # TableBlock(d) /\ ~RoomFor(TakeBlocks(f, {b}), req, i)
              => h.inode[i].block[0] = FirstData(inode_to_bgd(i))
<1> DEFINE free == FreeFrom(f, inode_to_bgd(d))
           e    == TakeBlocks(f, {b})
           new  == [ino |-> i, name |-> req.name, type |-> req.type, len |-> BlockLen]
           k    == FillInode(TakeInode(e, i), i, req)
           g    == PutDir(k, b, <<new>>)
           no   == TableWrittenBack(f.inode, g.inode, d, GrownParent(f, d, b))
           u    == [g EXCEPT !.inode = no]
<1>1. f \in FsInts /\ d \in Inodes /\ d \in Used(f) /\ Meta \cap Clear(f) = {} /\ Counted(f)
  BY SoundDir DEF Sound
<1>2. b \in Clear(f) /\ b \in Blocks /\ b \notin Meta /\ b # Null
  <2>1. free \in SUBSET Nat /\ free # {} /\ free \subseteq Clear(f) /\ free \subseteq Blocks
    BY FreeIsClear, FiniteSets
  <2>2. b = LeastOf(free)
    OBVIOUS
  <2> HIDE DEF free
  <2>3. b \in free
    BY <2>1, <2>2, LeastOfIs
  <2> QED BY <1>1, <2>1, <2>3, BootAndRoot
<1>3. /\ e \in FsInts /\ e.imap = f.imap /\ e.inode = f.inode
      /\ Clear(e) = Clear(f) \ {b} /\ Counted(e) /\ NewInode(e) = i
  BY <1>1, <1>2, OneTaken
<1>4. i # 0 /\ h = SyncMetadata(u)
  BY <1>3, SMTT(30) DEF GrowDirectory
<1>5. i \in Inodes \ Used(f) /\ i # d
  BY <1>1, <1>4, NewInodeIs
<1> HIDE DEF e
<1>6. i \in Inodes \ Used(e) /\ Meta \cap Clear(e) = {} /\ k = FillInode(TakeInode(e, i), i, req)
  BY <1>1, <1>3, <1>5 DEF Used
<1> HIDE DEF k
<1>c. e \in FsInts /\ Counted(e)
  BY <1>3
<1>f. /\ k \in FsInts /\ k.imap = [e.imap EXCEPT ![i] = TRUE]
      /\ k.inode = [e.inode EXCEPT ![i] = k.inode[i]]
      /\ ~RoomFor(e, req, i) => k.inode[i].block[0] = FirstData(inode_to_bgd(i))
  BY <1>c, <1>6, FillEither
<1>7. /\ k \in FsInts /\ k.imap = [e.imap EXCEPT ![i] = TRUE]
      /\ ~RoomFor(e, req, i) => k.inode[i].block[0] = FirstData(inode_to_bgd(i))
  BY <1>f
<1>8. new \in EntryType
  <2>1. BlockLen \in 1 .. BlockLen /\ req.name \in Names /\ req.type \in {"reg", "dir"}
    BY Lengths, RequestFields
  <2> QED BY <1>5, <2>1 DEF EntryType
<1> HIDE DEF new
<1>9. g \in FsInts /\ g.imap = k.imap /\ g.inode = k.inode
  <2> DEFINE es == <<new>>
  <2>1. es \in Seq(EntryType)
    BY <1>8
  <2>2. g = PutDir(k, b, es) /\ k \in FsInts /\ b \in Blocks
    BY <1>2, <1>7
  <2> HIDE DEF g, es
  <2>3. g \in FsInts /\ SameTables(k, g)
    BY <2>1, <2>2, DirPut
  <2> QED BY <2>3 DEF SameTables
<1> HIDE DEF g
<1>10. h.imap = g.imap /\ h.inode = no
  <2>1. u.imap = g.imap /\ u.inode = no
    BY <1>9 DEF FsInts
  <2> HIDE DEF u
  <2> QED BY <1>4, <2>1 DEF SyncMetadata
<1>11. /\ no[d] = GrownParent(f, d, b)
       /\ no[i] = IF TableBlock(i) = TableBlock(d) THEN f.inode[i] ELSE g.inode[i]
  BY <1>1, <1>5 DEF TableWrittenBack
<1>12. h.imap[i]
  BY <1>3, <1>5, <1>7, <1>9, <1>10 DEF FsInts
<1> HIDE DEF no
<1> QED BY <1>2, <1>5, <1>7, <1>9, <1>10, <1>11, <1>12 DEF e

LEMMA AcceptedHandled ==
  ASSUME Invariant, [HandledNext]_fs, NEW req \in WriteRequests, Accepted(req), HasRoom(req)
  PROVE  Handled(fs, req)
<1> DEFINE d == req.parent
           i == NewInode(fs)
           b == LeastOf(FreeFrom(fs, inode_to_bgd(d)))
<1>1. Sound(fs) /\ Sound(fs') /\ fs' # fs
  BY StepDoes DEF Accepted
<1>2. WriteResult(fs, req).code = 0 /\ fs' = WriteResult(fs, req).fs
  BY DEF Accepted, Write
<1>3. d \in Inodes /\ req.size \in Nat
  BY RequestFields
<1>4. RoomFor(fs, req, i)
  <2>1. TurnsFor(req.size) \in Nat
    BY <1>3, TurnsNeeded
  <2>2. Cardinality(FreeFrom(fs, inode_to_bgd(i))) > TurnsFor(req.size)
    BY DEF HasRoom
  <2>3. Cardinality({}) = 0
    BY FS_EmptySet
  <2>4. FreeFrom(fs, inode_to_bgd(i)) # {}
    <3> DEFINE F == FreeFrom(fs, inode_to_bgd(i))
               t == TurnsFor(req.size)
    <3>1. t \in Nat /\ Cardinality(F) > t
      BY <2>1, <2>2
    <3> HIDE DEF F, t
    <3>2. F # {}
      BY <2>3, <3>1
    <3> QED BY <3>2 DEF F
  <2> QED BY <2>4 DEF RoomFor
<1>5. ASSUME Grows(fs, req)
      PROVE  /\ i # 0 /\ TableBlock(i) # TableBlock(d)
             /\ fs.inode[d].blocks < Direct
             /\ RoomFor(TakeBlocks(fs, {b}), req, i)
  <2>1. d \in UsedDirs(fs) /\ FreeFrom(fs, inode_to_bgd(d)) # {}
    BY <1>1, <1>3, <1>5, DirUsed DEF Grows
  <2>2. WriteResult(fs, req) = GrowDirectory(fs, req)
    BY <1>5 DEF Grows, WriteResult, Stops
  <2>3. /\ i \in Inodes \ Used(fs) /\ i # d /\ b \in Clear(fs) /\ b \in Blocks /\ b # Null
        /\ fs'.imap[i] /\ fs'.inode[d] = GrownParent(fs, d, b)
        /\ TableBlock(i) = TableBlock(d) => fs'.inode[i] = fs.inode[i]
        /\ TableBlock(i) # TableBlock(d) /\ ~RoomFor(TakeBlocks(fs, {b}), req, i)
             => fs'.inode[i].block[0] = FirstData(inode_to_bgd(i))
    <3>1. GrowDirectory(fs, req).code = 0 /\ fs' = GrowDirectory(fs, req).fs
      BY <1>2, <2>2
    <3> QED BY <1>1, <2>1, <3>1, GrownTables
  <2> HIDE DEF i, b, d
  <2>4. i \in Used(fs') /\ i # 0
    BY <2>3, FiniteSets DEF Used
  <2>5. TableBlock(i) # TableBlock(d)
    <3>1. fs.inode[i].mode = "none" /\ fs'.inode[i].mode # "none"
      BY <1>1, <2>3, <2>4 DEF Sound
    <3> QED BY <2>3, <3>1
  <2>6. /\ fs \in FsInts /\ Shape(fs, d) /\ DirShape(fs, d) /\ IsDir(fs, d) /\ OwnedBlocks(fs, d) \cap Clear(fs) = {}
        /\ fs' \in FsInts
    BY <1>1, <2>1, SoundDir DEF UsedDirs, Sound
  <2>7. fs'.inode[d].blocks = fs.inode[d].blocks + 1 /\ fs'.inode[d].mode = "dir"
    <3>1. fs.inode[d] \in InodeType
      BY <1>3, <2>6 DEF FsInts, d
    <3>2. GrownParent(fs, d, b).blocks = fs.inode[d].blocks + 1 /\ GrownParent(fs, d, b).mode = fs.inode[d].mode
      BY <3>1 DEF GrownParent, InodeType
    <3> QED BY <2>3, <2>6, <3>2 DEF IsDir
  <2>8. d \in UsedDirs(fs') /\ d \in Inodes
    BY <1>1, <1>3, <2>7, DirUsed DEF IsDir, d
  <2>9. fs.inode[d].blocks < Direct
    <3>1. DirShape(fs', d)
      BY <1>1, <2>8, SoundDir
    <3>2. fs'.inode[d].blocks \in 1 .. Direct /\ fs.inode[d].blocks \in 1 .. Direct
      BY <2>6, <3>1 DEF DirShape
    <3> QED BY <2>7, <3>2, Positive
  <2>10. RoomFor(TakeBlocks(fs, {b}), req, i)
    <3> SUFFICES ASSUME ~RoomFor(TakeBlocks(fs, {b}), req, i) PROVE FALSE
      OBVIOUS
    <3> DEFINE g == inode_to_bgd(i)
               x == FirstData(g)
               e == TakeBlocks(fs, {b})
    <3>1. fs'.inode[i].block[0] = x /\ FreeFrom(e, g) = {}
      BY <2>3, <2>5 DEF RoomFor
    <3>2. x \in Blocks /\ x # Null /\ Group(x) = g /\ g \in Groups
      BY <2>3, InodeGroupIn, FirstDataIs
    <3>3. Counted(e) /\ Clear(e) = Clear(fs) \ {b}
      BY <1>1, <2>3, OneTaken DEF Sound
    <3>4. x \in OwnedBlocks(fs', i)
      <4> HIDE DEF x, e, g
      <4>0. 0 \in Slots
        BY Positive DEF Slots
      <4>1. Reached(fs', i, x)
        BY <3>1, <4>0 DEF Reached
      <4> QED BY <3>2, <4>1, OwnedReached
    <3>5. OwnedBlocks(fs', i) \subseteq Clear(fs)
      <4>1. CASE \E r \in WriteRequests : \E new : Write(r) /\ Written(fs, fs', r, NewInode(fs), new)
        BY <4>1 DEF Written, i
      <4>2. CASE \E r \in DeleteRequests : \E s0, k, j : Delete(r) /\ EntryRemoved(fs, fs', r, s0, k, j)
        <5>r. PICK r \in DeleteRequests : \E s0, k, j : Delete(r) /\ EntryRemoved(fs, fs', r, s0, k, j)
          BY <4>2
        <5>s. PICK s0, k, j : EntryRemoved(fs, fs', r, s0, k, j)
          BY <5>r
        <5> HIDE DEF x, e, g
        <5>1. fs'.imap = [fs.imap EXCEPT ![j] = FALSE]
          BY <5>s DEF EntryRemoved, Unlinked
        <5>2. ~fs'.imap[i]
          BY <2>3, <2>6, <5>1 DEF Used, FsInts
        <5> QED BY <2>3, <5>2
      <4> QED BY <1>1, <4>1, <4>2, StepDoes
    <3> HIDE DEF x, e, g
    <3>6. x \notin Clear(e)
      <4>1. FreeFrom(e, g) = {y \in Clear(e) : Group(y) >= g}
        BY <3>3, FreeCounted
      <4>2. g \in Int
        BY <3>2 DEF Groups
      <4> QED BY <3>1, <3>2, <4>1, <4>2
    <3>7. x = b
      BY <3>3, <3>4, <3>5, <3>6
    <3>8. b \in OwnedBlocks(fs', d)
      <4>1. b \notin OwnedBlocks(fs, d)
        BY <2>3, <2>6
      <4>2. OwnedBlocks(fs', d) = OwnedBlocks(fs, d) \cup {b}
        BY <2>3, <2>6, <2>8, <2>9, <4>1, DirGrown
      <4> QED BY <4>2
    <3>9. OwnedBlocks(fs', i) \cap OwnedBlocks(fs', d) = {}
      <4>1. d \in Used(fs')
        BY <2>8 DEF UsedDirs
      <4> QED BY <1>1, <2>3, <2>4, <4>1 DEF Sound, Owned
    <3> QED BY <3>4, <3>7, <3>8, <3>9
  <2> QED BY <2>4, <2>5, <2>9, <2>10
<1> QED BY <1>4, <1>5 DEF Handled

LEMMA PileSeq ==
  ASSUME NEW f, Sound(f), NEW d \in Inodes, NEW n \in Names
  PROVE  \E S : Pile(f, d, n) \in Seq(S)
<1>1. CASE d \in UsedDirs(f)
  BY <1>1, PileIs, NamedIs, StackSeq
<1>2. CASE d \notin UsedDirs(f)
  <2>1. <<>> \in Seq({})
    OBVIOUS
  <2> QED BY <1>2, <2>1, PileIs
<1> QED BY <1>1, <1>2

LEMMA HeadPushed ==
  ASSUME NEW S, NEW s \in Seq(S), NEW e
  PROVE  <<e>> \o s # <<>> /\ Head(<<e>> \o s) = e
<1> DEFINE u == <<e>>
           v == u \o s
<1>1. s \in Seq(S \cup {e}) /\ u \in Seq(S \cup {e}) /\ Len(u) = 1 /\ u[1] = e
  OBVIOUS
<1> HIDE DEF u
<1>2. v \in Seq(S \cup {e}) /\ Len(v) = Len(s) + 1 /\ v[1] = u[1]
  BY <1>1, OneBefore
<1> HIDE DEF v
<1>3. v # <<>> /\ Head(v) = v[1]
  BY <1>1, <1>2
<1> QED BY <1>1, <1>2, <1>3 DEF v, u

LEMMA AcceptedStored ==
  ASSUME Invariant, [HandledNext]_fs, NEW req \in WriteRequests, Accepted(req), HasRoom(req)
  PROVE  Stored(req)
<1> DEFINE d == req.parent
           n == req.name
           i == NewInode(fs)
           t == Pile(fs', d, n)
           l == Lookup(fs', d, n)
<1>1. Sound(fs) /\ Sound(fs') /\ fs' # fs
  BY StepDoes DEF Accepted
<1>2. fs' = WriteResult(fs, req).fs /\ Handled(fs, req)
  BY AcceptedHandled DEF Accepted, Write
<1>3. PICK new : Written(fs, fs', req, i, new)
  BY <1>1, <1>2, WriteDoes
<1>4. d \in Inodes /\ n \in Names /\ req.type \in {"reg", "dir"} /\ req.size \in Nat
  BY RequestFields
<1>5. /\ i \in Inodes \ Used(fs) /\ new.ino = i /\ new.type = req.type /\ fs'.inode[i].mode = req.type
      /\ FileStored(fs', i, req, HasSpace(fs, i, req)) /\ t = <<EntrySeen(fs', new)>> \o Pile(fs, d, n)
  BY <1>3, <1>4 DEF Written
<1> HIDE DEF t, i
<1>6. t # <<>> /\ Head(t) = EntrySeen(fs', new)
  BY <1>1, <1>4, <1>5, PileSeq, HeadPushed
<1>7. d \in UsedDirs(fs')
  BY <1>4, <1>6, PileIs DEF t
<1>8. l = Topmost(t)
  BY <1>1, <1>4, <1>7, LookupIs DEF t
<1>9. /\ l.ino = i /\ l.type = req.type
      /\ req.type = "reg" => l.data = FileData(fs', i)
  BY <1>5, <1>6, <1>8 DEF Topmost, EntrySeen
<1> HIDE DEF l
<1>10. i # 0
  BY <1>5, FiniteSets
<1>11. HasSpace(fs, i, req)
  <2> DEFINE c == Cardinality(FreeFrom(fs, inode_to_bgd(i)))
             k == TurnsFor(req.size)
  <2>1. c \in Nat /\ k \in Nat
    BY <1>4, TurnsNeeded, FreeIsClear, FiniteSets, FS_Subset, FS_CardinalityType
  <2>2. c > k
    BY DEF HasRoom, i
  <2> HIDE DEF c, k
  <2>3. k < c
    BY <2>1, <2>2
  <2> QED BY <2>3 DEF HasSpace, c, k
<1>12. req.type = "reg" => FileData(fs', i) = [j \in 1 .. req.size |-> <<req.data, j>>]
  BY <1>5, <1>11 DEF FileStored, HoldsData
<1> QED BY <1>5, <1>9, <1>10, <1>12 DEF Stored, l

(* A write that returns 0, with room for its blocks in the groups it looks *)
(* in, can be read back: the entry is there, first of its name, and reads  *)
(* as all of the data in its order (ext2.c:437-512, 1106-1379).            *)
THEOREM AcceptedStaysStored == HandledSpec => AcceptedIsStored
<1> DEFINE Kept == \A req \in WriteRequests : (Accepted(req) /\ HasRoom(req)) => Stored(req)
<1>1. Invariant /\ [HandledNext]_fs => [Kept]_fs
  BY AcceptedStored
<1>2. AcceptedIsStored <=> [][Kept]_fs
  BY DEF AcceptedIsStored
<1> HIDE DEF Kept
<1> QED BY <1>1, <1>2, InvariantHolds, PTL DEF HandledSpec

-----------------------------------------------------------------------------
(* A directory with children is not deleted.                               *)

(* No directory has outgrown its first block.                              *)
OneBlock == \A d \in Dirs : fs.inode[d].blocks = 1

LEMMA EmptyIsRight ==
  ASSUME NEW f, Sound(f), NEW i \in UsedDirs(f), f.inode[i].blocks = 1, TRUE \in EmptyAnswers(f, i)
  PROVE  \A s, m : ~LinkAt(f, i, s, m)
<1> DEFINE es == Entries(f, i, 0)
<1>1. DirSound(f, i) /\ IsDir(f, i)
  BY SoundDir DEF UsedDirs
<1>2. DirSlots(f, i) = {0}
  BY DEF DirSlots
<1>3. Begins(es, i) /\ es \in Seq(EntryType)
  <2>1. f.inode[i].block[0] \in Blocks /\ f \in FsInts
    BY <1>2, SoundDir
  <2>2. es \in Seq(EntryType)
    BY <2>1 DEF Entries, FsInts
  <2> QED BY <1>1, <2>2 DEF DirSound
<1> HIDE DEF es
<1>4. Len(es) \in Nat /\ Len(es) >= 2 /\ es[1].name = Dot /\ es[2].name = DotDot
      /\ \A m \in 1 .. Len(es) : es[m].ino # 0
  BY <1>3 DEF Begins
<1>5. Len(es) = 2
  <2> SUFFICES ASSUME Len(es) # 2 PROVE FALSE
    OBVIOUS
  <2>0. Len(es) >= 3 /\ 3 \in 1 .. Len(es)
    <3> DEFINE n == Len(es)
    <3>1. n \in Nat /\ n >= 2 /\ n # 2
      BY <1>4
    <3> HIDE DEF n
    <3>2. n >= 3 /\ 3 \in 1 .. n
      BY <3>1
    <3> QED BY <3>2 DEF n
  <2>1. es[3].ino # 0
    BY <1>4, <2>0
  <2>2. EmptyAnswers(f, i) = {es[3].ino = 0}
    BY <1>1, <2>0 DEF EmptyAnswers, Entries, es
  <2> QED BY <2>1, <2>2
<1>6. Dot \notin Names /\ DotDot \notin Names
  BY Ext2Assumption
<1>7. ASSUME NEW s, NEW m, LinkAt(f, i, s, m) PROVE FALSE
  <2>1. s = 0 /\ m \in 1 .. Len(Entries(f, i, s)) /\ Entries(f, i, s)[m].name \in Names
    BY <1>2, <1>7 DEF LinkAt
  <2>0. es = Entries(f, i, 0)
    BY DEF es
  <2>2. m = 1 \/ m = 2
    BY <1>5, <2>0, <2>1
  <2> QED BY <1>4, <1>6, <2>0, <2>1, <2>2
<1> QED BY <1>7

(* A directory goes only when is_directory_empty has said that it may.     *)
LEMMA SaidEmpty ==
  ASSUME NEW f, NEW h, Sound(f), NEW req \in DeleteRequests, NEW empty \in Answers(f, req),
         h = DeleteResult(f, req, empty).fs, h # f,
         NEW s0, NEW k, NEW i, EntryRemoved(f, h, req, s0, k, i), i \in UsedDirs(f)
  PROVE  TRUE \in EmptyAnswers(f, i)
<1> DEFINE d == req.parent
           p == FirstOf(Named(f, d, req.name))
           e == EntryAt(f, d, p)
<1>1. /\ d \in UsedDirs(f) /\ LinkAt(f, d, s0, k) /\ i = Child(f, d, s0, k) /\ s0 \in Nat /\ k \in Nat
      /\ Named(f, d, req.name) # {} /\ p = <<s0, k>>
  BY DEF EntryRemoved
<1>2. e.ino = i /\ e.type = Kind(f, d, s0, k)
  <2> HIDE DEF p, d
  <2> QED BY <1>1 DEF EntryAt, Child, Kind, Entries
<1>3. e.type = "dir"
  BY <1>1, <1>2 DEF Sound, LinksTrue, UsedDirs, IsDir
<1>4. IsDir(f, d)
  BY <1>1 DEF UsedDirs
<1>5. e.type = req.type /\ ~(req.type = "dir" /\ ~empty)
  <2> HIDE DEF p, e
  <2> QED BY <1>1, <1>4 DEF DeleteResult, p, e
<1>6. Target(f, req) = i
  BY <1>2 DEF Target
<1>7. Answers(f, req) = EmptyAnswers(f, i)
  BY <1>1, <1>3, <1>4, <1>5, <1>6 DEF Answers
<1>8. empty \in BOOLEAN
  BY <1>7 DEF EmptyAnswers
<1> QED BY <1>3, <1>5, <1>7, <1>8

LEMMA LinkPiled ==
  ASSUME NEW f, Sound(f), NEW d \in UsedDirs(f), NEW s, NEW m, LinkAt(f, d, s, m)
  PROVE  \E n \in Names : Pile(f, d, n) # <<>>
<1> DEFINE n == Entries(f, d, s)[m].name
<1>1. n \in Names
  BY DEF LinkAt
<1>2. <<s, m>> \in Named(f, d, n)
  BY <1>1, NamedIs
<1> HIDE DEF n
<1>3. Pile(f, d, n) # <<>>
  BY <1>1, <1>2, TopIs
<1> QED BY <1>1, <1>3

(* is_directory_empty is right about a directory of one block, because     *)
(* deletion merges every free record of that block into the one before it: *)
(* as long as no directory has outgrown its first block, none that has     *)
(* children is deleted (ext2.c:265-288, 755-765).                          *)
THEOREM SmallDirectoriesKept == HandledSpec /\ []OneBlock => NotEmptyKept
<1> DEFINE Kept == \A d \in Dirs : Links(fs, d) # {} => fs'.imap[d]
<1>1. Invariant /\ OneBlock /\ [HandledNext]_fs => [Kept]_fs
  <2> SUFFICES ASSUME Invariant, OneBlock, [HandledNext]_fs, fs' # fs, NEW d \in Dirs,
                      Links(fs, d) # {}
               PROVE  fs'.imap[d]
    OBVIOUS
  <2>1. Sound(fs) /\ Sound(fs')
    BY StepDoes
  <2>2. d \in UsedDirs(fs) /\ d \in Inodes /\ fs.inode[d].blocks = 1
    BY DEF OneBlock, Dirs, InUse, UsedDirs, Used
  <2>3. PICK s, m : LinkAt(fs, d, s, m)
    <3>1. PICK p : p \in Links(fs, d)
      OBVIOUS
    <3> QED BY <3>1, LinksAre
  <2>4. CASE \E req \in WriteRequests : \E new :
               Write(req) /\ Written(fs, fs', req, NewInode(fs), new)
    <3>1. PICK req \in WriteRequests : \E new : Write(req) /\ Written(fs, fs', req, NewInode(fs), new)
      BY <2>4
    <3>2. PICK new : Written(fs, fs', req, NewInode(fs), new)
      BY <3>1
    <3>3. PICK n \in Names : Pile(fs, d, n) # <<>>
      BY <2>1, <2>2, <2>3, LinkPiled
    <3>4. Pile(fs', d, n) # <<>>
      <4> DEFINE e == EntrySeen(fs', new)
                 q == Pile(fs, d, n)
      <4>1. Pile(fs', d, n) = <<e>> \o q \/ Pile(fs', d, n) = q
        BY <2>2, <3>2 DEF Written
      <4> HIDE DEF e, q
      <4>2. \E S : q \in Seq(S)
        BY <2>1, <2>2, PileSeq DEF q
      <4>3. <<e>> \o q # <<>>
        BY <4>2, HeadPushed
      <4> QED BY <3>3, <4>1, <4>3 DEF q
    <3>5. d \in UsedDirs(fs')
      BY <2>2, <3>4, PileIs
    <3> QED BY <3>5 DEF UsedDirs, Used
  <2>5. CASE \E req \in DeleteRequests : \E s0, k, i :
               Delete(req) /\ EntryRemoved(fs, fs', req, s0, k, i)
    <3>1. PICK req \in DeleteRequests : \E s0, k, i : Delete(req) /\ EntryRemoved(fs, fs', req, s0, k, i)
      BY <2>5
    <3>2. PICK s0, k, i : Delete(req) /\ EntryRemoved(fs, fs', req, s0, k, i)
      BY <3>1
    <3>3. d # i
      <4> SUFFICES ASSUME i \in UsedDirs(fs), i = d PROVE FALSE
        BY <2>2
      <4>1. PICK empty \in Answers(fs, req) : fs' = DeleteResult(fs, req, empty).fs
        BY <3>2 DEF Delete
      <4>2. TRUE \in EmptyAnswers(fs, i)
        BY <2>1, <3>2, <4>1, SaidEmpty
      <4> QED BY <2>1, <2>2, <2>3, <4>2, EmptyIsRight
    <3>4. fs'.imap = [fs.imap EXCEPT ![i] = FALSE]
      BY <3>2 DEF EntryRemoved, Unlinked
    <3>5. fs.imap[d] /\ fs \in FsInts
      BY <2>1, <2>2 DEF UsedDirs, Used, Sound
    <3> QED BY <2>2, <3>3, <3>4, <3>5 DEF FsInts
  <2> QED BY <2>4, <2>5, StepDoes
<1>2. NotEmptyKept <=> [][Kept]_fs
  BY DEF NotEmptyKept
<1> HIDE DEF Kept
<1> QED BY <1>1, <1>2, InvariantHolds, PTL DEF HandledSpec

-----------------------------------------------------------------------------
(* The driver is a store.                                                  *)

(* A state of the store, as the driver's entries show it.                  *)
LEMMA TreeIs ==
  ASSUME NEW f
  PROVE  /\ TreeOf(f) = [d \in Inodes |-> [n \in Names |-> Pile(f, d, n)]]
         /\ DOMAIN TreeOf(f) = Inodes
         /\ \A d \in Inodes : DOMAIN TreeOf(f)[d] = Names
  BY DEF TreeOf, Pile

(* An entry of the tree is a link, and a link an entry of the tree.        *)
LEMMA EntryLinked ==
  ASSUME NEW f, Sound(f), NEW e \in Store!Entries(TreeOf(f))
  PROVE  \E d \in UsedDirs(f) : \E s, m \in Nat :
           LinkAt(f, d, s, m) /\ e.id = Child(f, d, s, m) /\ e.type = Kind(f, d, s, m)
<1>1. PICK d \in Inodes : e \in Store!EntriesIn(TreeOf(f), d)
  BY DEF Store!Entries
<1>2. PICK n \in Names : e \in Store!EntriesAt(TreeOf(f), d, n)
  BY <1>1 DEF Store!EntriesIn
<1> DEFINE s == Pile(f, d, n)
           P == Named(f, d, n)
<1>3. e \in {s[k] : k \in DOMAIN s}
  BY <1>2, PileIs DEF Store!EntriesAt
<1>4. d \in UsedDirs(f)
  <2>1. s # <<>>
    BY <1>3
  <2> QED BY <2>1, PileIs
<1>5. s = Stack(f, d, P) /\ P \in SUBSET Pairs /\ IsFiniteSet(P)
  BY <1>4, PileIs, NamedIs
<1>6. {s[k] : k \in DOMAIN s} = {EntrySeen(f, EntryAt(f, d, p)) : p \in P}
  <2> HIDE DEF P, s
  <2> QED BY <1>5, StackHolds
<1>7. PICK p \in P : e = EntrySeen(f, EntryAt(f, d, p))
  BY <1>3, <1>6
<1>8. p = <<p[1], p[2]>> /\ p[1] \in Nat /\ p[2] \in Nat
  BY <1>5, <1>7 DEF Pairs
<1>9. LinkAt(f, d, p[1], p[2])
  BY <1>4, <1>7, <1>8, NamedIs
<1>10. e.id = Child(f, d, p[1], p[2]) /\ e.type = Kind(f, d, p[1], p[2])
  BY <1>7 DEF EntrySeen, EntryAt, Child, Kind, Entries
<1> QED BY <1>4, <1>8, <1>9, <1>10

LEMMA LinkEntered ==
  ASSUME NEW f, Sound(f), NEW d \in UsedDirs(f), NEW s \in Nat, NEW m \in Nat, LinkAt(f, d, s, m)
  PROVE  \E e \in Store!Entries(TreeOf(f)) : e.id = Child(f, d, s, m) /\ e.type = Kind(f, d, s, m)
<1> DEFINE n == Entries(f, d, s)[m].name
           p == <<s, m>>
           P == Named(f, d, n)
           e == EntrySeen(f, EntryAt(f, d, p))
           t == Pile(f, d, n)
<1>1. n \in Names /\ d \in Inodes
  BY DEF LinkAt, UsedDirs, Used
<1>2. p \in P
  BY <1>1, NamedIs
<1>3. t = Stack(f, d, P) /\ P \in SUBSET Pairs /\ IsFiniteSet(P)
  BY <1>1, PileIs, NamedIs
<1>4. e.id = Child(f, d, s, m) /\ e.type = Kind(f, d, s, m)
  BY DEF EntrySeen, EntryAt, Child, Kind, Entries
<1>5. e \in {t[k] : k \in DOMAIN t}
  <2> HIDE DEF t, P, n, p
  <2>1. {t[k] : k \in DOMAIN t} = {EntrySeen(f, EntryAt(f, d, q)) : q \in P}
    BY <1>3, StackHolds
  <2> QED BY <1>2, <2>1
<1> HIDE DEF e, n
<1>6. e \in Store!EntriesAt(TreeOf(f), d, n)
  BY <1>1, <1>5, PileIs DEF Store!EntriesAt
<1>7. e \in Store!EntriesIn(TreeOf(f), d)
  BY <1>1, <1>6 DEF Store!EntriesIn
<1>8. e \in Store!Entries(TreeOf(f))
  BY <1>1, <1>7 DEF Store!Entries
<1> QED BY <1>4, <1>8

(* The numbers that the store knows: the inodes in use, and where every    *)
(* inode has its entry, its directories.                                   *)
LEMMA StoreKnows ==
  ASSUME NEW f, Sound(f), LinksAll(f)
  PROVE  /\ Store!Used(TreeOf(f)) \subseteq Used(f)
         /\ UsedDirs(f) \subseteq Store!Dirs(TreeOf(f))
<1>1. ASSUME NEW e \in Store!Entries(TreeOf(f)) PROVE e.id \in Used(f)
  <2>1. PICK d \in UsedDirs(f) : \E s, m \in Nat : LinkAt(f, d, s, m) /\ e.id = Child(f, d, s, m)
    BY EntryLinked
  <2> QED BY <2>1 DEF Sound, LinksTrue
<1>2. Root \in Used(f)
  BY DEF Sound, UsedDirs
<1>3. ASSUME NEW i \in UsedDirs(f), i # Root PROVE i \in Store!Dirs(TreeOf(f))
  <2>1. PICK d \in UsedDirs(f) : \E s, m \in Nat : LinkAt(f, d, s, m) /\ Child(f, d, s, m) = i
    BY <1>3 DEF LinksAll, UsedDirs
  <2>2. PICK s \in Nat, m \in Nat : LinkAt(f, d, s, m) /\ Child(f, d, s, m) = i
    BY <2>1
  <2>3. Kind(f, d, s, m) = "dir"
    BY <2>2 DEF Sound, LinksTrue, UsedDirs, IsDir
  <2>4. PICK e \in Store!Entries(TreeOf(f)) : e.id = i /\ e.type = "dir"
    BY <2>2, <2>3, LinkEntered
  <2> QED BY <2>4 DEF Store!Dirs
<1> QED BY <1>1, <1>2, <1>3 DEF Store!Used, Store!Dirs

(* One stack of the tree is another one, and the tree is the store's.      *)
LEMMA TreeWith ==
  ASSUME NEW f, NEW h, NEW d \in Inodes, NEW n \in Names, NEW s,
         \A e \in Inodes, m \in Names : Pile(h, e, m) = IF e = d /\ m = n THEN s ELSE Pile(f, e, m)
  PROVE  TreeOf(h) = Store!With(TreeOf(f), d, n, s)
<1> DEFINE t == TreeOf(f)
           u == TreeOf(h)
           w == [t EXCEPT ![d] = [t[d] EXCEPT ![n] = s]]
<1>1. /\ t = [e \in Inodes |-> [m \in Names |-> Pile(f, e, m)]]
      /\ u = [e \in Inodes |-> [m \in Names |-> Pile(h, e, m)]]
  BY TreeIs
<1> HIDE DEF t, u
<1>2. u = [e \in Inodes |-> [m \in Names |->
             IF e = d /\ m = n THEN s ELSE Pile(f, e, m)]]
  BY <1>1
<1>3. u = w
  BY <1>1, <1>2
<1> QED BY <1>3 DEF Store!With, t, u

(* The first n blocks of the data v; a file that is cut off holds fewer.   *)
FirstOfData(v, n) == [j \in 1 .. n |-> <<v, j>>]

LEMMA CutIs ==
  ASSUME NEW v, NEW n \in Nat, NEW m \in 0 .. n
  PROVE  /\ Len(FirstOfData(v, n)) = n
         /\ FirstOfData(v, m) \in Store!CutShort(FirstOfData(v, n))
<1> DEFINE w == FirstOfData(v, n)
<1>1. w \in Seq({v} \X Nat) /\ Len(w) = n
  BY DEF FirstOfData
<1>2. SubSeq(w, 1, m) = FirstOfData(v, m)
  BY DEF FirstOfData
<1> HIDE DEF w
<1>3. SubSeq(w, 1, m) \in Store!CutShort(w)
  BY <1>1 DEF Store!CutShort
<1> QED BY <1>1, <1>2, <1>3 DEF w

(* The entry of a write is one that the store may have pushed.             *)
LEMMA NewEntry ==
  ASSUME NEW h, NEW i, NEW req \in WriteRequests, NEW room, FileStored(h, i, req, room),
         NEW new, new.ino = i, new.type = req.type, NEW data, data = DataOf(req)
  PROVE  \E q \in Store!CutShort(data) :
           EntrySeen(h, new) = Store!EntryOf(req.type, i, Len(data), q)
<1> DEFINE v == req.data
           n == req.size
<1>1. n \in Nat /\ req.type \in {"reg", "dir"} /\ (req.type = "dir" => n = 0)
  BY RequestFields DEF WriteRequests
<1>2. data = FirstOfData(v, n)
  BY DEF DataOf, FirstOfData
<1>3. CASE req.type = "reg"
  <2> DEFINE q == FileData(h, i)
  <2>1. PICK m \in 0 .. n : q = FirstOfData(v, m)
    BY <1>3 DEF FileStored, HoldsData, FirstOfData
  <2> HIDE DEF v, q
  <2>2. h.inode[i].blocks = n
    BY <1>3 DEF FileStored
  <2> HIDE DEF n
  <2>3. Len(data) = n /\ q \in Store!CutShort(data)
    BY <1>1, <1>2, <2>1, CutIs
  <2>4. EntrySeen(h, new) = Store!EntryOf(req.type, i, Len(data), q)
    BY <1>3, <2>2, <2>3 DEF EntrySeen, Store!EntryOf, q
  <2> QED BY <2>3, <2>4
<1>4. CASE req.type = "dir"
  <2>1. <<>> = FirstOfData(v, 0)
    BY DEF FirstOfData
  <2>2. n = 0
    BY <1>1, <1>4
  <2> HIDE DEF v, n
  <2> DEFINE q == <<>>
  <2>e. q = FirstOfData(v, 0) /\ 0 \in 0 .. n /\ n \in Nat
    BY <1>1, <2>1
  <2> HIDE DEF q
  <2>3. Len(data) = n /\ q \in Store!CutShort(data)
    BY <1>2, <2>e, CutIs
  <2>4. EntrySeen(h, new) = Store!EntryOf(req.type, i, Len(data), q)
    BY <1>4, <2>2, <2>3 DEF EntrySeen, Store!EntryOf, q
  <2> QED BY <2>3, <2>4
<1> QED BY <1>1, <1>3, <1>4

LEMMA WriteCalled ==
  ASSUME NEW f, NEW h, Sound(f), LinksAll(f), NEW req \in WriteRequests, NEW i, NEW new,
         Written(f, h, req, i, new), NEW data, data = DataOf(req)
  PROVE  Store!Outcome(TreeOf(h), 0)
           \in Store!WriteOutcomes(TreeOf(f), req.parent, req.name, req.type, data)
<1> DEFINE t == TreeOf(f)
           d == req.parent
           n == req.name
           e == EntrySeen(h, new)
<1>1. /\ i \in Inodes \ Used(f) /\ d \in UsedDirs(f)
      /\ new.ino = i /\ new.type = req.type /\ FileStored(h, i, req, HasSpace(f, i, req))
      /\ \A x \in Inodes, m \in Names :
           Pile(h, x, m) = IF x = d /\ m = n THEN <<e>> \o Pile(f, x, m) ELSE Pile(f, x, m)
  BY DEF Written
<1>2. d \in Inodes /\ n \in Names
  BY RequestFields
<1>3. TreeOf(h) = Store!Push(t, d, n, e)
  <2> DEFINE s == <<e>> \o Pile(f, d, n)
  <2>1. \A x \in Inodes, m \in Names : Pile(h, x, m) = IF x = d /\ m = n THEN s ELSE Pile(f, x, m)
    BY <1>1
  <2>2. s = <<e>> \o t[d][n]
    BY <1>2, PileIs
  <2> HIDE DEF s, e, d, n, t
  <2>3. TreeOf(h) = Store!With(TreeOf(f), d, n, s)
    BY <1>2, <2>1, TreeWith
  <2> QED BY <2>2, <2>3 DEF Store!Push, t
<1>4. PICK q \in Store!CutShort(data) : e = Store!EntryOf(req.type, i, Len(data), q)
  BY <1>1, NewEntry
<1>5. i \in Inodes \ Store!Used(t) /\ d \in Store!Dirs(t)
  BY <1>1, StoreKnows
<1> HIDE DEF e, d, n, t
<1>6. Store!Outcome(TreeOf(h), 0) \in Store!Stored(t, d, n, req.type, data)
  BY <1>3, <1>4, <1>5 DEF Store!Stored
<1> QED BY <1>5, <1>6 DEF Store!WriteOutcomes, t, d, n

LEMMA DeleteCalled ==
  ASSUME NEW f, NEW h, Sound(f), Sound(h), LinksAll(f), NEW req \in DeleteRequests,
         NEW s0, NEW k, NEW i, EntryRemoved(f, h, req, s0, k, i),
         i \in UsedDirs(f) => \A s, m \in Nat : ~LinkAt(f, i, s, m)
  PROVE  LET type == Kind(f, req.parent, s0, k)
         IN  /\ type \in {"reg", "dir"}
             /\ Store!Outcome(TreeOf(h), 0)
                  \in Store!DeleteOutcomes(TreeOf(f), req.parent, req.name, type)
<1> DEFINE t == TreeOf(f)
           d == req.parent
           n == req.name
           p == FirstOf(Named(f, d, n))
           s == Pile(f, d, n)
<1>1. /\ d \in UsedDirs(f) /\ LinkAt(f, d, s0, k) /\ i = Child(f, d, s0, k) /\ s0 \in Nat /\ k \in Nat
      /\ Named(f, d, n) # {} /\ p = <<s0, k>> /\ i \in Inodes /\ i # d
  BY DEF EntryRemoved
<1>2. d \in Inodes /\ n \in Names
  BY DeleteRequestFields
<1>3. s # <<>> /\ Head(s) = EntrySeen(f, EntryAt(f, d, p))
  BY <1>1, <1>2, TopIs
<1>4. Head(s).id = i /\ Head(s).type = Kind(f, d, s0, k)
  <2> HIDE DEF s, p, d
  <2>1. EntryAt(f, d, p).ino = i /\ EntryAt(f, d, p).type = Kind(f, d, s0, k)
    BY <1>1 DEF EntryAt, Child, Kind, Entries
  <2> QED BY <1>3, <2>1 DEF EntrySeen
<1>5. Kind(f, d, s0, k) \in {"reg", "dir"} /\ f.inode[i].mode = Kind(f, d, s0, k) /\ i \in Used(f)
  <2>1. f.inode[i].mode = Kind(f, d, s0, k) /\ i \in Used(f)
    BY <1>1 DEF Sound, LinksTrue
  <2>2. f.inode[i].mode \in Modes /\ f.inode[i].mode # "none"
    BY <1>1, <2>1 DEF Sound, FsInts, InodeType
  <2> QED BY <2>1, <2>2 DEF Modes
<1>6. \A m \in Names : Pile(f, i, m) = <<>>
  <2>1. CASE i \in UsedDirs(f)
    BY <1>1, <2>1, NoLinks
  <2>2. CASE i \notin UsedDirs(f)
    BY <1>1, <2>2, PileIs
  <2> QED BY <2>1, <2>2
<1>7. t[i] = Store!Nothing
  <2>1. t[i] = [m \in Names |-> Pile(f, i, m)]
    BY <1>1, TreeIs
  <2> QED BY <1>6, <2>1 DEF Store!Nothing
<1>8. t[d][n] = s /\ d \in Store!Dirs(t)
  BY <1>1, <1>2, PileIs, StoreKnows
<1>9. TreeOf(h) = Store!Pop(t, d, n)
  <2> DEFINE r == Tail(s)
  <2>1. \A e \in Inodes, m \in Names :
          Pile(h, e, m) = IF e = i THEN <<>>
                          ELSE IF e = d /\ m = n THEN Tail(Pile(f, e, m)) ELSE Pile(f, e, m)
    BY PoppedTree
  <2>2. \A e \in Inodes, m \in Names : Pile(h, e, m) = IF e = d /\ m = n THEN r ELSE Pile(f, e, m)
    BY <1>1, <1>6, <2>1
  <2>3. r = Tail(t[d][n])
    BY <1>8
  <2> HIDE DEF r, s, d, n, t, p
  <2>4. TreeOf(h) = Store!With(TreeOf(f), d, n, r)
    BY <1>2, <2>2, TreeWith
  <2> QED BY <2>3, <2>4 DEF Store!Pop, t
<1> DEFINE type == Kind(f, d, s0, k)
<1>10. /\ Store!Holds(t, d, n) /\ Head(t[d][n]).type = type /\ Head(t[d][n]).id = i
       /\ type \in {"reg", "dir"}
  BY <1>3, <1>4, <1>5, <1>8 DEF Store!Holds
<1> HIDE DEF t, d, n, s, p, type
<1>11. Store!Outcome(TreeOf(h), 0) \in Store!DeleteOutcomes(t, d, n, type)
  BY <1>7, <1>8, <1>9, <1>10 DEF Store!DeleteOutcomes
<1> QED BY <1>10, <1>11 DEF t, d, n, type

LEMMA StoreStep ==
  ASSUME Invariant, LinksAll(fs), [HandledNext]_fs,
         [\A d \in Dirs : Links(fs, d) # {} => fs'.imap[d]]_fs,
         NEW t, t = TreeOf(fs), NEW u, u = TreeOf(fs'), t # u
  PROVE  \E d \in Inodes, n \in Names : u \in {o.tree : o \in Store!Calls(t, d, n)}
<1>1. fs' # fs
  OBVIOUS
<1>2. Sound(fs) /\ Sound(fs')
  BY <1>1, StepDoes
<1> DEFINE o == Store!Outcome(u, 0)
<1>3. o.tree = u
  BY DEF Store!Outcome
<1> HIDE DEF o
<1>4. ASSUME NEW req \in WriteRequests, NEW new, Written(fs, fs', req, NewInode(fs), new)
      PROVE  o \in Store!Calls(t, req.parent, req.name)
  <2> DEFINE data == DataOf(req)
  <2>1. o \in Store!WriteOutcomes(t, req.parent, req.name, req.type, data)
    BY <1>2, <1>4, WriteCalled DEF o
  <2>2. CASE req.type = "reg"
    <3>1. data \in {[j \in 1 .. s |-> <<v, j>>] : s \in Sizes, v \in Datas}
      BY <2>2, RequestFields DEF DataOf
    <3> HIDE DEF data
    <3> QED BY <2>1, <2>2, <3>1 DEF Store!Calls
  <2>3. CASE req.type = "dir"
    <3>1. req.size = 0
      BY <2>3 DEF WriteRequests
    <3>2. data = <<>>
      BY <3>1 DEF DataOf
    <3> QED BY <2>1, <2>3, <3>2 DEF Store!Calls
  <2> QED BY <2>2, <2>3, RequestFields
<1>5. ASSUME NEW req \in DeleteRequests, NEW s0, NEW k, NEW i, EntryRemoved(fs, fs', req, s0, k, i)
      PROVE  o \in Store!Calls(t, req.parent, req.name)
  <2>1. i \in UsedDirs(fs) => \A s, m \in Nat : ~LinkAt(fs, i, s, m)
    <3> SUFFICES ASSUME i \in UsedDirs(fs), NEW s \in Nat, NEW m \in Nat, LinkAt(fs, i, s, m)
                 PROVE  FALSE
      OBVIOUS
    <3>1. i \in Dirs
      BY DEF Dirs, InUse, UsedDirs, Used
    <3>2. <<s, m>> \in Links(fs, i)
      BY <3>1, LinksAre
    <3>3. fs'.imap[i]
      BY <1>1, <3>1, <3>2
    <3>4. fs'.imap = [fs.imap EXCEPT ![i] = FALSE]
      BY <1>5 DEF EntryRemoved, Unlinked
    <3>5. fs \in FsInts /\ i \in Inodes
      BY <1>2 DEF Sound, UsedDirs, Used
    <3> QED BY <3>3, <3>4, <3>5 DEF FsInts
  <2>2. PICK type \in {"reg", "dir"} :
          o \in Store!DeleteOutcomes(t, req.parent, req.name, type)
    BY <1>2, <1>5, <2>1, DeleteCalled DEF o
  <2> QED BY <2>2 DEF Store!Calls
<1>6. ASSUME NEW d \in Inodes, NEW n \in Names, o \in Store!Calls(t, d, n)
      PROVE  \E c \in Inodes, m \in Names : u \in {x.tree : x \in Store!Calls(t, c, m)}
  BY <1>3, <1>6
<1>7. CASE \E req \in WriteRequests : \E new :
             Write(req) /\ Written(fs, fs', req, NewInode(fs), new)
  BY <1>4, <1>6, <1>7, RequestFields
<1>8. CASE \E req \in DeleteRequests : \E s0, k, i :
             Delete(req) /\ EntryRemoved(fs, fs', req, s0, k, i)
  BY <1>5, <1>6, <1>8, DeleteRequestFields
<1> QED BY <1>1, <1>7, <1>8, StepDoes

(* Seen through TreeOf, the driver is a FileStore: a call that changes     *)
(* what names stand for pushes one entry with a number nobody uses and all *)
(* or the beginning of the data, or pops one entry, never one that still   *)
(* holds others (ext2.c:515-806).                                          *)
THEOREM DriverIsAStore == HandledSpec /\ NotEmptyKept => StoreImplemented
<1> DEFINE Whole == Invariant /\ LinksAll(fs)
           Kept  == \A d \in Dirs : Links(fs, d) # {} => fs'.imap[d]
           t     == TreeOf(fs)
<1>1. Init => Whole
  BY InitSound DEF Init, Invariant
<1>2. Whole /\ [HandledNext]_fs /\ [Kept]_fs => Whole'
  BY InvariantKept, TreeKept
<1>3. Init => Store!StoreInit
  <2> SUFFICES ASSUME Init PROVE t = [d \in Inodes |-> Store!Nothing]
    BY DEF Store!StoreInit
  <2>1. ASSUME NEW d \in Inodes, NEW n \in Names PROVE Pile(fs, d, n) = <<>>
    <3>1. Sound(fs) /\ fs.imap = [i \in Inodes |-> i = Root]
      BY InitSound DEF Init, Formatted
    <3>2. \A i \in Used(fs) : i = Root
      BY <3>1 DEF Used
    <3>3. CASE d \in UsedDirs(fs)
      <4>1. \A s, m \in Nat : ~LinkAt(fs, d, s, m)
        BY <3>1, <3>2, <3>3 DEF Sound, LinksTrue
      <4> QED BY <3>1, <4>1, NoLinks
    <3>4. CASE d \notin UsedDirs(fs)
      BY <3>4, PileIs
    <3> QED BY <3>3, <3>4
  <2> QED BY <2>1, TreeIs DEF Store!Nothing
<1>4. Whole /\ [HandledNext]_fs /\ [Kept]_fs => [Store!StoreNext]_t
  <2> SUFFICES ASSUME Whole, [HandledNext]_fs, [Kept]_fs, TreeOf(fs') # t PROVE Store!StoreNext
    OBVIOUS
  <2>1. \E d \in Inodes, n \in Names : TreeOf(fs') \in {o.tree : o \in Store!Calls(t, d, n)}
    BY StoreStep
  <2> QED BY <2>1 DEF Store!StoreNext
<1>5. NotEmptyKept <=> [][Kept]_fs
  BY DEF NotEmptyKept
<1> HIDE DEF Whole, Kept, t
<1> QED BY <1>1, <1>2, <1>3, <1>4, <1>5, PTL DEF HandledSpec, StoreImplemented, Store!StoreSpec, t

-----------------------------------------------------------------------------
(* The directories of the store are those of the disk.                     *)
LEMMA SameDirs ==
  ASSUME NEW f, Sound(f), LinksAll(f), NEW d \in Inodes
  PROVE  d \in Store!Dirs(TreeOf(f)) <=> IsDir(f, d)
<1>1. ASSUME d \in Store!Dirs(TreeOf(f)) PROVE IsDir(f, d)
  <2>1. CASE d = Root
    BY <2>1 DEF Sound, UsedDirs
  <2>2. CASE d # Root
    <3>1. PICK e \in Store!Entries(TreeOf(f)) : e.type = "dir" /\ e.id = d
      BY <1>1, <2>2 DEF Store!Dirs
    <3>2. PICK c \in UsedDirs(f) : \E s, m \in Nat :
            LinkAt(f, c, s, m) /\ e.id = Child(f, c, s, m) /\ e.type = Kind(f, c, s, m)
      BY EntryLinked
    <3> QED BY <3>1, <3>2 DEF Sound, LinksTrue, IsDir
  <2> QED BY <2>1, <2>2
<1>2. ASSUME IsDir(f, d) PROVE d \in Store!Dirs(TreeOf(f))
  BY <1>2, DirUsed, StoreKnows
<1> QED BY <1>1, <1>2

(* What a name stands for, for the store and on the disk.                  *)
LEMMA StoreTop ==
  ASSUME NEW f, Sound(f), NEW d \in Inodes, IsDir(f, d), NEW n \in Names, NEW t, t = TreeOf(f)
  PROVE  /\ Store!Holds(t, d, n) <=> Named(f, d, n) # {}
         /\ Named(f, d, n) # {} =>
              Head(t[d][n]) = EntrySeen(f, EntryAt(f, d, FirstOf(Named(f, d, n))))
<1>1. d \in UsedDirs(f) /\ t[d][n] = Pile(f, d, n)
  BY DirUsed, PileIs
<1> QED BY <1>1, TopIs DEF Store!Holds

LEMMA WriteKeeps ==
  ASSUME Sound(fs), LinksAll(fs), NEW req \in WriteRequests, Handled(fs, req),
         NEW t, t = TreeOf(fs)
  PROVE  WritePromised(t, req)
<1> DEFINE d == req.parent
           n == req.name
           h == WriteResult(fs, req).fs
           code == WriteResult(fs, req).code
           data == DataOf(req)
           type == req.type
<1>1. d \in Inodes /\ n \in Names
  BY RequestFields
<1>2. Result(WriteResult(fs, req)) = Store!Outcome(TreeOf(h), code)
  BY DEF Result, Store!Outcome
<1>3. Answered(fs, req, h, code)
  BY WriteAnswers
<1>4. d \in Store!Dirs(t) <=> IsDir(fs, d)
  BY <1>1, SameDirs
<1> HIDE DEF h, code, data, type
<1>5. CASE h = fs /\ code = 2 /\ ~IsDir(fs, d)
  <2>1. Store!Outcome(TreeOf(h), code) \in Store!WriteOutcomes(t, d, n, type, data)
    BY <1>4, <1>5 DEF Store!WriteOutcomes
  <2> QED BY <1>2, <2>1 DEF WritePromised, data, type
<1>6. CASE h = fs /\ code = -1 /\ IsDir(fs, d)
  <2>1. Store!Outcome(TreeOf(h), code) \in Store!WriteOutcomes(t, d, n, type, data)
    BY <1>4, <1>6 DEF Store!WriteOutcomes
  <2> QED BY <1>2, <2>1 DEF WritePromised, data, type
<1>7. CASE h = fs /\ code = 1 /\ IsDir(fs, d) /\ Named(fs, d, n) # {}
  <2>1. Store!Holds(t, d, n)
    BY <1>1, <1>7, StoreTop
  <2>2. Store!Outcome(TreeOf(h), code) \in Store!WriteOutcomes(t, d, n, type, data)
    BY <1>4, <1>7, <2>1 DEF Store!WriteOutcomes
  <2> QED BY <1>2, <2>2 DEF WritePromised, data, type
<1>8. CASE code = 0 /\ \E new : Written(fs, h, req, NewInode(fs), new)
  <2>1. PICK new : Written(fs, h, req, NewInode(fs), new)
    BY <1>8
  <2>2. Store!Outcome(TreeOf(h), 0) \in Store!WriteOutcomes(t, d, n, type, data)
    BY <2>1, WriteCalled DEF type, data
  <2> QED BY <1>2, <1>8, <2>2 DEF WritePromised, data, type
<1> QED BY <1>3, <1>5, <1>6, <1>7, <1>8 DEF Answered

LEMMA ReadKeeps ==
  ASSUME Sound(fs), LinksAll(fs), NEW d \in Inodes, NEW n \in Names, NEW room,
         NEW t, t = TreeOf(fs)
  PROVE  ReadPromised(t, d, n, room)
<1> DEFINE r == ReadResult(fs, d, n, room)
           e == EntryAt(fs, d, FirstOf(Named(fs, d, n)))
<1>1. d \in Store!Dirs(t) <=> IsDir(fs, d)
  BY SameDirs
<1>2. CASE ~IsDir(fs, d)
  <2>1. r.code = -1
    BY <1>2 DEF ReadResult
  <2> QED BY <1>1, <1>2, <2>1 DEF ReadPromised, Store!ReadCode
<1>3. CASE IsDir(fs, d) /\ Named(fs, d, n) = {}
  <2>1. r.code = 2
    BY <1>3 DEF ReadResult
  <2>2. ~Store!Holds(t, d, n)
    BY <1>3, StoreTop
  <2> QED BY <1>1, <1>3, <2>1, <2>2 DEF ReadPromised, Store!ReadCode
<1>4. CASE IsDir(fs, d) /\ Named(fs, d, n) # {}
  <2>1. Store!Holds(t, d, n) /\ Head(t[d][n]) = EntrySeen(fs, e)
    BY <1>4, StoreTop
  <2>2. r = IF e.type # "reg" THEN [code |-> 1, data |-> <<>>]
            ELSE IF fs.inode[e.ino].blocks > room THEN [code |-> -1, data |-> <<>>]
            ELSE [code |-> 0, data |-> FileData(fs, e.ino)]
    BY <1>4 DEF ReadResult
  <2> HIDE DEF r, e
  <2>3. /\ Head(t[d][n]).type = e.type
        /\ e.type = "reg" => /\ Head(t[d][n]).size = fs.inode[e.ino].blocks
                             /\ Head(t[d][n]).data = FileData(fs, e.ino)
    BY <2>1 DEF EntrySeen
  <2>4. r.code = Store!ReadCode(t, d, n, room)
    BY <1>1, <1>4, <2>1, <2>2, <2>3 DEF Store!ReadCode
  <2>5. r.code = 0 => r.data = Head(t[d][n]).data
    BY <2>2, <2>3
  <2>6. Head(t[d][n]) = t[d][n][1]
    BY DEF Head
  <2> QED BY <2>4, <2>5, <2>6 DEF ReadPromised, r
<1> QED BY <1>2, <1>3, <1>4

LEMMA ListKeeps ==
  ASSUME Sound(fs), LinksAll(fs), NEW d \in Inodes, NEW t, t = TreeOf(fs)
  PROVE  ListPromised(t, d)
<1> DEFINE found == Named(fs, d, Dot)
           p == FirstOf(found)
           es == Entries(fs, d, 0)
<1>1. d \in Store!Dirs(t) <=> IsDir(fs, d)
  BY SameDirs
<1>2. CASE ~IsDir(fs, d)
  BY <1>1, <1>2 DEF ListPromised, DirectoryResult, Store!ListCode
<1>3. CASE IsDir(fs, d)
  <2>1. d \in UsedDirs(fs) /\ fs \in FsInts /\ Shape(fs, d) /\ DirSound(fs, d) /\ DirShape(fs, d)
    BY <1>3, DirUsed, SoundDir
  <2>2. Begins(es, d) /\ 0 \in DirSlots(fs, d) /\ fs.inode[d].blocks # 0
    BY <2>1 DEF DirSound, DirShape, DirSlots
  <2>3. 1 \in 1 .. Len(es) /\ es[1].name = Dot /\ es[1].ino = d /\ es[1].type = "dir" /\ d # 0
    BY <2>2, FiniteSets DEF Begins
  <2>4. /\ Places(fs, d) \subseteq Nat \X Nat
        /\ \A q \in Places(fs, d) :
             /\ q[1] \in DirSlots(fs, d) /\ q[2] \in 1 .. Len(Entries(fs, d, q[1]))
        /\ \A s \in DirSlots(fs, d) : \A m \in 1 .. Len(Entries(fs, d, s)) :
             <<s, m>> \in Places(fs, d) /\ EntryAt(fs, d, <<s, m>>) = Entries(fs, d, s)[m]
    BY <2>1, PlacesIs
  <2> DEFINE x == <<0, 1>>
  <2>5. x \in found /\ EntryAt(fs, d, x) = es[1] /\ found \in SUBSET (Nat \X Nat)
    BY <2>2, <2>3, <2>4 DEF Named
  <2>6. p \in found /\ \A q \in found : p[1] < q[1] \/ (p[1] = q[1] /\ p[2] <= q[2])
    <3> HIDE DEF found, x
    <3> QED BY <2>5, FirstIs
  <2>7. p = x
    <3>1. p \in Nat \X Nat /\ p[2] \in 1 .. Len(Entries(fs, d, p[1]))
      BY <2>4, <2>5, <2>6 DEF Named
    <3>2. p[1] < 0 \/ (p[1] = 0 /\ p[2] <= 1)
      BY <2>5, <2>6
    <3> HIDE DEF p
    <3> QED BY <3>1, <3>2
  <2> HIDE DEF p, x, found, es
  <2>8. DirectoryResult(fs, d, Dot).code = 0
    BY <1>3, <2>2, <2>3, <2>5, <2>7 DEF DirectoryResult, p, found
  <2> QED BY <1>1, <1>3, <2>8 DEF ListPromised, Store!ListCode
<1> QED BY <1>2, <1>3

LEMMA ReadsKeep ==
  ASSUME Sound(fs), LinksAll(fs)
  PROVE  ReadsPromised
  BY ReadKeeps, ListKeeps DEF ReadsPromised

LEMMA DeleteKeeps ==
  ASSUME Sound(fs), LinksAll(fs), OneBlock, NEW req \in DeleteRequests, NEW t, t = TreeOf(fs)
  PROVE  DeletePromised(t, req)
<1> SUFFICES ASSUME NEW empty \in Answers(fs, req)
             PROVE  Result(DeleteResult(fs, req, empty))
                      \in Store!DeleteOutcomes(t, req.parent, req.name, req.type)
  BY DEF DeletePromised
<1> DEFINE d == req.parent
           n == req.name
           type == req.type
           r == DeleteResult(fs, req, empty)
           h == r.fs
           code == r.code
           e == EntryAt(fs, d, FirstOf(Named(fs, d, n)))
           o == Store!Outcome(TreeOf(h), code)
<1>1. d \in Inodes /\ n \in Names /\ type \in {"reg", "dir"}
  BY DeleteRequestFields
<1>2. Result(r) = o
  BY DEF Result, Store!Outcome
<1>3. d \in Store!Dirs(t) <=> IsDir(fs, d)
  BY <1>1, SameDirs
<1>4. CASE ~IsDir(fs, d)
  <2>1. h = fs /\ code = -1
    BY <1>4 DEF DeleteResult
  <2> HIDE DEF h, code, d, n, type
  <2>2. o \in Store!DeleteOutcomes(t, d, n, type)
    BY <1>3, <1>4, <2>1 DEF Store!DeleteOutcomes
  <2> QED BY <1>2, <2>2 DEF d, n, type
<1>5. CASE IsDir(fs, d) /\ Named(fs, d, n) = {}
  <2>1. h = fs /\ code = 1
    BY <1>5 DEF DeleteResult
  <2>2. ~Store!Holds(t, d, n)
    BY <1>1, <1>5, StoreTop
  <2> HIDE DEF h, code, d, n, type
  <2>3. o \in Store!DeleteOutcomes(t, d, n, type)
    BY <1>3, <1>5, <2>1, <2>2 DEF Store!DeleteOutcomes
  <2> QED BY <1>2, <2>3 DEF d, n, type
<1>6. ASSUME IsDir(fs, d), Named(fs, d, n) # {}
      PROVE  Store!Holds(t, d, n) /\ Head(t[d][n]).type = e.type
  <2>1. Store!Holds(t, d, n) /\ Head(t[d][n]) = EntrySeen(fs, e)
    BY <1>1, <1>6, StoreTop
  <2> HIDE DEF e
  <2> QED BY <2>1 DEF EntrySeen
<1>7. CASE IsDir(fs, d) /\ Named(fs, d, n) # {} /\ e.type # type
  <2>1. h = fs /\ code = 1
    BY <1>7 DEF DeleteResult
  <2>2. Store!Holds(t, d, n) /\ Head(t[d][n]).type # type
    BY <1>6, <1>7
  <2> HIDE DEF h, code, d, n, type
  <2>3. o \in Store!DeleteOutcomes(t, d, n, type)
    BY <1>3, <1>7, <2>1, <2>2 DEF Store!DeleteOutcomes
  <2> QED BY <1>2, <2>3 DEF d, n, type
<1>8. CASE IsDir(fs, d) /\ Named(fs, d, n) # {} /\ e.type = type /\ type = "dir" /\ ~empty
  <2>1. h = fs /\ code = 2
    BY <1>8 DEF DeleteResult
  <2>2. Store!Holds(t, d, n) /\ Head(t[d][n]).type = type
    BY <1>6, <1>8
  <2> HIDE DEF h, code, d, n, type
  <2>3. o \in Store!DeleteOutcomes(t, d, n, type)
    BY <1>3, <1>8, <2>1, <2>2 DEF Store!DeleteOutcomes
  <2> QED BY <1>2, <2>3 DEF d, n, type
<1>9. CASE IsDir(fs, d) /\ Named(fs, d, n) # {} /\ e.type = type /\ ~(type = "dir" /\ ~empty)
  <2>1. code = 0
    BY <1>9 DEF DeleteResult
  <2>2. PICK s0, k, i : EntryRemoved(fs, h, req, s0, k, i)
    BY <2>1, DeleteMade
  <2>3. h # fs
    <3>1. h.imap = [fs.imap EXCEPT ![i] = FALSE] /\ i \in Used(fs) /\ fs \in FsInts
      BY <2>2 DEF EntryRemoved, Unlinked, Sound
    <3> HIDE DEF h
    <3> QED BY <3>1 DEF Used, FsInts
  <2>4. i \in UsedDirs(fs) => \A s, m \in Nat : ~LinkAt(fs, i, s, m)
    <3> SUFFICES ASSUME i \in UsedDirs(fs) PROVE \A s, m \in Nat : ~LinkAt(fs, i, s, m)
      OBVIOUS
    <3>1. TRUE \in EmptyAnswers(fs, i)
      BY <2>2, <2>3, SaidEmpty
    <3>2. fs.inode[i].blocks = 1
      BY SameSets DEF OneBlock
    <3> QED BY <3>1, <3>2, EmptyIsRight
  <2>5. Sound(h)
    BY DeleteSound
  <2>6. e.type = Kind(fs, d, s0, k)
    <3>1. FirstOf(Named(fs, d, n)) = <<s0, k>>
      BY <2>2 DEF EntryRemoved
    <3> QED BY <3>1 DEF EntryAt, Kind, Entries
  <2> HIDE DEF h, code, d, n, type, e
  <2>7. Store!Outcome(TreeOf(h), 0) \in Store!DeleteOutcomes(t, d, n, Kind(fs, d, s0, k))
    BY <2>2, <2>4, <2>5, DeleteCalled DEF d, n
  <2>8. o \in Store!DeleteOutcomes(t, d, n, type)
    BY <1>9, <2>1, <2>6, <2>7
  <2> QED BY <1>2, <2>8 DEF d, n, type
<1> HIDE DEF h, code, d, n, type, e, r, o
<1> QED BY <1>4, <1>5, <1>7, <1>8, <1>9 DEF r, d, n, type

(* No write that a program could ask for now meets one of the mishaps.     *)
AllHandled == \A req \in WriteRequests : Handled(fs, req)

LEMMA TreeHolds ==
  HandledSpec /\ NotEmptyKept => [](Sound(fs) /\ LinksAll(fs))
<1> DEFINE Whole == Sound(fs) /\ LinksAll(fs)
           Kept  == \A d \in Dirs : Links(fs, d) # {} => fs'.imap[d]
<1>1. Init => Whole
  BY InitSound DEF Init
<1>2. Whole /\ [HandledNext]_fs /\ [Kept]_fs => Whole'
  BY InvariantKept, TreeKept DEF Invariant
<1>3. NotEmptyKept <=> [][Kept]_fs
  BY DEF NotEmptyKept
<1> HIDE DEF Whole, Kept
<1>4. HandledSpec /\ NotEmptyKept => []Whole
  BY <1>1, <1>2, <1>3, PTL DEF HandledSpec
<1> QED BY <1>4 DEF Whole

(* read and read_directory find what the store holds: the code, the data   *)
(* of the first entry of the name, all of it in its order                  *)
(* (ext2.c:290-512).                                                       *)
THEOREM ReadsKept == HandledSpec /\ NotEmptyKept => []ReadsPromised
<1>1. Sound(fs) /\ LinksAll(fs) => ReadsPromised
  BY ReadsKeep
<1> QED BY <1>1, TreeHolds, PTL

(* As long as no directory has more than one block, every call answers     *)
(* what the store answers and leaves the disk holding what the store then  *)
(* holds, whichever program asks and whatever it asks for, wherever no     *)
(* write would meet one of the mishaps (ext2.c:290-806): write makes the   *)
(* entry or says why not, delete refuses what the store refuses, a         *)
(* directory that is not empty among it, and read and read_directory find  *)
(* what the store holds.                                                   *)
THEOREM CallsKept == HandledSpec /\ []OneBlock => [](AllHandled => CallsPromised)
<1>1. Sound(fs) /\ LinksAll(fs) /\ OneBlock => (AllHandled => CallsPromised)
  <2> SUFFICES ASSUME Sound(fs), LinksAll(fs), OneBlock, AllHandled PROVE CallsPromised
    OBVIOUS
  <2>1. \A req \in WriteRequests : WritePromised(TreeOf(fs), req)
    BY WriteKeeps DEF AllHandled
  <2>2. \A req \in DeleteRequests : DeletePromised(TreeOf(fs), req)
    BY DeleteKeeps
  <2> QED BY <2>1, <2>2, ReadsKeep DEF CallsPromised
<1> QED BY <1>1, TreeHolds, SmallDirectoriesKept, PTL

=============================================================================
