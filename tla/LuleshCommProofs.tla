-------------------------- MODULE LuleshCommProofs --------------------------
(***************************************************************************)
(* The functions of an exchange agree with each other, and after it so do  *)
(* the fields, for any number of ranks and any edge of their cubes.        *)
(*                                                                         *)
(* Every table of LuleshMessages lists the same 26 directions, faces,      *)
(* edges and corners, in the same order, so what a rank puts into a slot   *)
(* of its request array is a matter of how many of the entries before it   *)
(* the rank takes part in.  What it awaits and what it gives are sets of   *)
(* entries, chosen by where it has a neighbour and by who has the smaller  *)
(* number; the set a rank awaits answers the sets its neighbours give,     *)
(* because a neighbour sees the rank in the opposite direction, of the     *)
(* other sign.  The inductive invariant CommIInv says that each rank has   *)
(* posted and sent just these sets once it has made the call; ExchangeInv  *)
(* follows from it.                                                        *)
(*                                                                         *)
(* The nodes of a message are those of one side of a cube, and a           *)
(* neighbour's nodes at the same places are the same nodes of the whole    *)
(* cube.  So every message that is unpacked brings for each node on its    *)
(* side the copy of one neighbour, and all of them bring every copy.       *)
(* FieldInv says so of the ranks that have unpacked; FieldsAgree follows   *)
(* from it.                                                                *)
(***************************************************************************)
EXTENDS LuleshComm, LuleshMeshProofs

(* The places of a table whose messages a rank exchanges.                  *)
Places(r, table) == {i \in DOMAIN table : Exchanged(r, table[i])}

Selected(s, K, table, k) ==
  Len(s) = RankIn(K, k + 1) /\ \A i \in K : i <= k => s[RankIn(K, i) + 1] = table[i]

(* One step of Chosen: the next entry of the table is appended where it is *)
(* one of those selected, so the k-th chosen is the entry with k - 1 of the*)
(* selected before it.                                                     *)
LEMMA TakeNext ==
  ASSUME NEW M, NEW table \in Seq(M), NEW K \in SUBSET Int, IsFiniteSet(K),
         NEW k \in 1..Len(table), NEW s \in Seq(M), Selected(s, K, table, k - 1),
         NEW t, t = IF k \in K THEN Append(s, table[k]) ELSE s
  PROVE  t \in Seq(M) /\ Selected(t, K, table, k)
<1>1. Len(table) \in Nat /\ k \in Int /\ (k - 1) + 1 = k /\ table[k] \in M
  BY LenProperties, ElementOfSeq
<1>2. RankIn(K, k) \in Nat /\ RankIn(K, k + 1) = RankIn(K, k) + (IF k \in K THEN 1 ELSE 0)
  BY <1>1, RankNext
<1>3. Len(s) = RankIn(K, k) /\ \A i \in K : i <= k - 1 => s[RankIn(K, i) + 1] = table[i]
  BY <1>1 DEF Selected
<1>4. \A i \in K : i <= k <=> (i <= k - 1 \/ i = k)
  BY <1>1
<1>5. \A i \in K : i <= k - 1 => RankIn(K, i) + 1 \in 1..Len(s)
  <2> SUFFICES ASSUME NEW i \in K, i <= k - 1 PROVE RankIn(K, i) + 1 \in 1..Len(s)
    OBVIOUS
  <2> DEFINE T == {j \in K : j < k}
  <2>1. T \in SUBSET K /\ T \in SUBSET Int /\ i \in T
    <3>1. i < k
      BY <1>1
    <3>2. \A j \in T : j \in K /\ j \in Int
      OBVIOUS
    <3>3. i \in T
      BY <3>1
    <3> HIDE DEF T
    <3> QED
      BY <3>2, <3>3
  <2>2. IsFiniteSet(T) /\ RankIn(K, k) = Cardinality(T)
    <3>1. RankIn(K, k) = Cardinality(T)
      BY DEF RankIn
    <3>2. T \in SUBSET K
      BY <2>1
    <3> HIDE DEF T
    <3> QED
      BY <3>1, <3>2, FS_Subset
  <2>3. RankIn(T, i) = RankIn(K, i)
    <3>1. \A j \in K : j < i => j < k
      BY <1>1
    <3>2. {j \in T : j < i} = {j \in K : j < i}
      BY <3>1
    <3> QED
      BY <3>2 DEF RankIn
  <2> HIDE DEF T
  <2>4. RankIn(T, i) \in 0..Cardinality(T) - 1
    BY <2>1, <2>2, RankProperties
  <2> QED
    BY <1>2, <1>3, <2>2, <2>3, <2>4
<1>6. CASE k \in K
  <2>1. t = Append(s, table[k]) /\ t \in Seq(M) /\ Len(t) = Len(s) + 1 /\ t[Len(s) + 1] = table[k]
    BY <1>1, <1>6, AppendProperties
  <2>2. \A j \in 1..Len(s) : t[j] = s[j]
    BY <1>1, <2>1, AppendProperties
  <2>3. Len(t) = RankIn(K, k + 1)
    BY <1>2, <1>3, <1>6, <2>1
  <2>4. ASSUME NEW i \in K, i <= k PROVE t[RankIn(K, i) + 1] = table[i]
    <3>1. CASE i = k
      BY <1>3, <2>1, <3>1
    <3>2. CASE i <= k - 1
      BY <1>3, <1>5, <2>2, <3>2
    <3> QED
      BY <1>4, <2>4, <3>1, <3>2
  <2> QED
    BY <2>1, <2>3, <2>4 DEF Selected
<1>7. CASE k \notin K
  BY <1>2, <1>3, <1>4, <1>7 DEF Selected
<1> QED
  BY <1>6, <1>7

(* Chosen is the subsequence of the table at the places exchanged: an      *)
(* entry's position is the number of exchanged entries before it (the      *)
(* counting of pmsg, emsg and cmsg).                                       *)
LEMMA ChosenIs ==
  ASSUME NEW r, NEW M, NEW table \in Seq(M)
  PROVE  LET K == Places(r, table)
             c == Chosen(r, table)
         IN /\ K \in SUBSET Int /\ IsFiniteSet(K) /\ K \in SUBSET (1..Len(table))
            /\ c \in Seq(M) /\ Len(c) = Cardinality(K)
            /\ \A i \in K : RankIn(K, i) + 1 \in 1..Len(c) /\ c[RankIn(K, i) + 1] = table[i]
            /\ \A j \in 1..Len(c) : \E i \in K : j = RankIn(K, i) + 1
<1> DEFINE n == Len(table)
<1> DEFINE V == Seq(M)
<1> DEFINE K == Places(r, table)
<1> DEFINE Next(s, m) == IF Exchanged(r, m) THEN Append(s, m) ELSE s
<1> DEFINE G == [k \in 1..n |-> [v \in V |-> Next(v, table[k])]]
<1>1. n \in Nat /\ DOMAIN table = 1..n /\ \A i \in 1..n : table[i] \in M
  BY LenProperties, ElementOfSeq
<1> DEFINE Body(it) == [t \in SUBSET DOMAIN table |->
                          IF t = {} THEN << >> ELSE Next(it[t \ {Max(t)}], table[Max(t)])]
<1> DEFINE ch == CHOOSE it : it = Body(it)
<1>2. Chosen(r, table) = ch[1..n]
  <2> HIDE DEF n
  <2> QED
    BY <1>1 DEF Chosen, FoldLeft, MapThenFoldSet
<1>3. ASSUME NEW v \in V, NEW i \in 1..n
      PROVE  Next(v, table[i]) \in V /\ G[i][v] = Next(v, table[i])
  <2>1. table[i] \in M
    BY <1>1
  <2>2. Append(v, table[i]) \in V
    BY <2>1, AppendProperties
  <2>3. Next(v, table[i]) \in V
    BY <2>2
  <2> HIDE DEF V, Next
  <2> QED
    BY <2>3
<1>4. G \in [1..n -> [V -> V]]
  <2> HIDE DEF V, Next, n
  <2> QED
    BY <1>3
<1>5. << >> \in V
  OBVIOUS
<1> HIDE DEF n, V, G, Next
<1>6. ASSUME NEW t \in SUBSET (1..n), t # {}
      PROVE  Max(t) \in 1..n /\ t \ {Max(t)} \in SUBSET (1..n)
  <2>1. Max(t) \in t
    BY <1>1, <1>6, MaxMember, Zenon
  <2> QED
    BY <2>1
<1>7. \E it : it = Body(it)
  <2>1. PICK it : Folds(it, n, V, << >>, G)
    BY <1>1, <1>4, <1>5, FoldExists
  <2>2. ASSUME NEW t \in SUBSET (1..n), t # {}
        PROVE  G[Max(t)][it[t \ {Max(t)}]] = Next(it[t \ {Max(t)}], table[Max(t)])
    <3>1. Max(t) \in 1..n /\ it[t \ {Max(t)}] \in V
      BY <1>6, <2>1, <2>2 DEF Folds
    <3> QED
      BY <1>3, <3>1
  <2>3. it = Body(it)
    BY <1>1, <2>1, <2>2, Zenon DEF Folds
  <2> QED
    BY <2>3
<1>8. ch = Body(ch)
  <2> HIDE DEF Body
  <2> QED
    BY <1>7
<1> HIDE DEF ch
<1>9. ch[{}] = << >>
  BY <1>8
<1>10. ASSUME NEW t \in SUBSET (1..n), t # {}, ch[t \ {Max(t)}] \in V
       PROVE  ch[t] = G[Max(t)][ch[t \ {Max(t)}]]
  <2>1. ch[t] = Next(ch[t \ {Max(t)}], table[Max(t)])
    BY <1>1, <1>8, <1>10, Zenon
  <2> QED
    BY <1>3, <1>6, <1>10, <2>1
<1> HIDE DEF Body
<1>11. PICK part : Partials(part, n, V, << >>, G, ch[1..n])
  BY <1>1, <1>4, <1>5, <1>9, <1>10, FoldValue
<1>12. K \in SUBSET Int /\ IsFiniteSet(K) /\ K \in SUBSET (1..n)
  <2>1. K \in SUBSET (1..n)
    BY <1>1 DEF Places
  <2>2. IsFiniteSet(1..n)
    BY <1>1, FS_Interval
  <2> HIDE DEF K
  <2>3. IsFiniteSet(K)
    BY <2>1, <2>2, FS_Subset
  <2>4. K \in SUBSET Int
    BY <1>1, <2>1
  <2> QED
    BY <2>1, <2>3, <2>4
<1>13. \A k \in 1..n : k \in K <=> Exchanged(r, table[k])
  BY <1>1 DEF Places
<1> HIDE DEF K
<1> DEFINE W == [k \in 0..n |-> {s \in V : Selected(s, K, table, k)}]
<1>14. part[0] \in W[0]
  <2>1. {j \in K : j < 0 + 1} = {}
    <3>1. \A j \in K : ~(j < 0 + 1)
      BY <1>1, <1>12
    <3> QED
      BY <3>1
  <2>2. RankIn(K, 0 + 1) = 0
    BY <2>1, FS_EmptySet DEF RankIn
  <2>3. Selected(<< >>, K, table, 0)
    BY <1>1, <1>12, <2>2 DEF Selected
  <2> QED
    BY <1>1, <1>5, <1>11, <2>3 DEF Partials
<1>15. ASSUME NEW k \in 1..n, part[k - 1] \in W[k - 1] PROVE part[k] \in W[k]
  <2>1. k - 1 \in 0..n /\ k \in 0..n
    BY <1>1
  <2>2. part[k - 1] \in V /\ Selected(part[k - 1], K, table, k - 1)
    BY <1>15, <2>1
  <2>3. part[k] = Next(part[k - 1], table[k])
    BY <1>3, <1>11, <2>2 DEF Partials
  <2>4. part[k] = IF k \in K THEN Append(part[k - 1], table[k]) ELSE part[k - 1]
    BY <1>13, <2>3 DEF Next
  <2>5. part[k] \in Seq(M) /\ Selected(part[k], K, table, k)
    BY <1>12, <2>2, <2>4, TakeNext DEF V, n
  <2> QED
    BY <2>1, <2>5 DEF V
<1>16. \A k \in 0..n : part[k] \in W[k]
  <2> HIDE DEF W
  <2> QED
    BY <1>1, <1>14, <1>15, StagesHold
<1> DEFINE c == Chosen(r, table)
<1>17. c \in V /\ Selected(c, K, table, n)
  <2>1. n \in 0..n /\ part[n] = c
    BY <1>1, <1>2, <1>11 DEF Partials
  <2>2. part[n] \in W[n]
    BY <1>16, <2>1
  <2> QED
    BY <2>1, <2>2
<1> HIDE DEF c, W
<1>18. \A i \in K : i < n + 1 /\ i <= n
  BY <1>1, <1>12
<1>19. Len(c) = Cardinality(K)
  <2>1. {j \in K : j < n + 1} = K
    BY <1>18
  <2> QED
    BY <1>17, <2>1 DEF Selected, RankIn
<1>20. /\ Cardinality(K) \in Nat
       /\ \A i \in K : RankIn(K, i) \in 0..Cardinality(K) - 1
       /\ \A q \in 0..Cardinality(K) - 1 : \E i \in K : RankIn(K, i) = q
  BY <1>12, RankProperties
<1>21. ASSUME NEW i \in K PROVE RankIn(K, i) + 1 \in 1..Len(c) /\ c[RankIn(K, i) + 1] = table[i]
  BY <1>17, <1>18, <1>19, <1>20 DEF Selected
<1>22. ASSUME NEW j \in 1..Len(c) PROVE \E i \in K : j = RankIn(K, i) + 1
  <2>1. j - 1 \in 0..Cardinality(K) - 1
    BY <1>19, <1>20
  <2>2. PICK i \in K : RankIn(K, i) = j - 1
    BY <1>20, <2>1
  <2> QED
    BY <2>2
<1> QED
  BY <1>12, <1>17, <1>19, <1>21, <1>22 DEF V, n, c, K

-----------------------------------------------------------------------------
(* A neighbour is one step away along the axes of its direction, sees its   *)
(* rank in the opposite one, and is nobody's in another.                    *)
Steps == (-1..1) \X (-1..1) \X (-1..1)
Opposite(d) == <<-d[1], -d[2], -d[3]>>

(* A direction is a triple of -1, 0 and 1, and so is its opposite.         *)
LEMMA StepParts ==
  ASSUME NEW d \in Steps
  PROVE  /\ d[1] \in -1..1 /\ d[2] \in -1..1 /\ d[3] \in -1..1 /\ d = <<d[1], d[2], d[3]>>
         /\ Opposite(d) \in Steps /\ Opposite(Opposite(d)) = d
  BY DEF Steps, Opposite

(* A step along the axes is a step of the rank number, plus or minus 1, tp *)
(* and tp*tp.                                                              *)
LEMMA PointStep ==
  ASSUME NEW n \in Nat \ {0}, NEW x \in Int, NEW y \in Int, NEW z \in Int,
         NEW d \in Steps
  PROVE  Point(x + d[1], y + d[2], z + d[3], n) = Neighbour(Point(x, y, z, n), n, d)
<1> DEFINE a == d[1]
<1> DEFINE b == d[2]
<1> DEFINE c == d[3]
<1>0. a \in Int /\ b \in Int /\ c \in Int
  BY StepParts
<1> HIDE DEF a, b, c
<1>1. (y + b)*n = y*n + b*n
  BY <1>0, SMT
<1> DEFINE nn == n*n
<1>2. nn \in Nat /\ c*n*n = c*nn
  BY <1>0, SMT
<1> HIDE DEF nn
<1>3. (z + c)*nn = z*nn + c*nn
  BY <1>0, <1>2, SMT
<1>4. y*n \in Int /\ b*n \in Int /\ z*nn \in Int /\ c*nn \in Int
  BY <1>0, <1>2, SMT
<1> DEFINE yn == y*n
<1> DEFINE bn == b*n
<1> DEFINE zn == z*nn
<1> DEFINE cn == c*nn
<1>5. Point(x + a, y + b, z + c, n) = (x + a) + (yn + bn) + (zn + cn)
  BY <1>1, <1>3 DEF Point, nn
<1>6. Point(x, y, z, n) = x + yn + zn
  BY DEF Point, nn
<1>7. yn \in Int /\ bn \in Int /\ zn \in Int /\ cn \in Int
  BY <1>4
<1>8. c*n*n = cn /\ b*n = bn
  BY <1>2
<1> HIDE DEF yn, bn, zn, cn
<1>9. Point(x + a, y + b, z + c, n) = Point(x, y, z, n) + a + b*n + c*n*n
  BY <1>0, <1>5, <1>6, <1>7, <1>8
<1> QED
  BY <1>9 DEF Neighbour, a, b, c

(* There is a neighbour where the step does not leave the cube of ranks:   *)
(* rowMin, rowMax and the others of SetupCommBuffers.                      *)
LEMMA HasNeighbourIs ==
  ASSUME NEW n \in Nat \ {0}, NEW r \in 0..Cube(n) - 1, NEW d \in Steps
  PROVE  LET l == Digits(r, n)
         IN HasNeighbour(r, n, d) <=>
              /\ l.x + d[1] \in 0..n - 1 /\ l.y + d[2] \in 0..n - 1 /\ l.z + d[3] \in 0..n - 1
<1> DEFINE l == Digits(r, n)
<1>1. l.x \in 0..n - 1 /\ l.y \in 0..n - 1 /\ l.z \in 0..n - 1
  BY DigitsPoint
<1>2. Loc(r, n) = l
  BY LocDigits
<1>3. d[1] \in -1..1 /\ d[2] \in -1..1 /\ d[3] \in -1..1
  BY StepParts
<1> HIDE DEF l
<1>4. ASSUME NEW x \in 0..n - 1, NEW a \in -1..1
      PROVE  (a = -1 => x # 0) /\ (a = 1 => x # n - 1) <=> x + a \in 0..n - 1
  OBVIOUS
<1>5. HasNeighbour(r, n, d) <=>
        /\ (d[1] = -1 => l.x # 0) /\ (d[1] = 1 => l.x # n - 1)
        /\ (d[2] = -1 => l.y # 0) /\ (d[2] = 1 => l.y # n - 1)
        /\ (d[3] = -1 => l.z # 0) /\ (d[3] = 1 => l.z # n - 1)
  BY <1>2 DEF HasNeighbour
<1> QED
  BY <1>1, <1>3, <1>4, <1>5 DEF l

(* The neighbour is a rank, one step away, and has the rank as its         *)
(* neighbour in the opposite direction.                                    *)
LEMMA NeighbourIs ==
  ASSUME NEW n \in Nat \ {0}, NEW r \in 0..Cube(n) - 1, NEW d \in Steps, HasNeighbour(r, n, d)
  PROVE  LET l == Digits(r, n)
             q == Neighbour(r, n, d)
         IN /\ q \in 0..Cube(n) - 1
            /\ Digits(q, n) = [x |-> l.x + d[1], y |-> l.y + d[2], z |-> l.z + d[3]]
            /\ HasNeighbour(q, n, Opposite(d)) /\ Neighbour(q, n, Opposite(d)) = r
<1> DEFINE l == Digits(r, n)
<1> DEFINE q == Neighbour(r, n, d)
<1> DEFINE x == l.x + d[1]
<1> DEFINE y == l.y + d[2]
<1> DEFINE z == l.z + d[3]
<1>1. /\ l.x \in 0..n - 1 /\ l.y \in 0..n - 1 /\ l.z \in 0..n - 1
      /\ r = Point(l.x, l.y, l.z, n)
  BY DigitsPoint
<1>2. d[1] \in -1..1 /\ d[2] \in -1..1 /\ d[3] \in -1..1
  BY StepParts
<1>3. x \in 0..n - 1 /\ y \in 0..n - 1 /\ z \in 0..n - 1
  BY HasNeighbourIs
<1>4. l.x \in Int /\ l.y \in Int /\ l.z \in Int
  BY <1>1
<1>5. Point(x, y, z, n) = Neighbour(Point(l.x, l.y, l.z, n), n, d)
  <2> HIDE DEF l
  <2> QED
    BY <1>4, PointStep
<1>6. q = Point(x, y, z, n)
  BY <1>1, <1>5
<1> HIDE DEF x, y, z, q
<1>7. q \in 0..Cube(n) - 1 /\ Digits(q, n) = [x |-> x, y |-> y, z |-> z]
  BY <1>3, <1>6, DigitsOf
<1> DEFINE o == Opposite(d)
<1>8. o \in Steps /\ o[1] = -d[1] /\ o[2] = -d[2] /\ o[3] = -d[3]
  BY StepParts DEF Opposite
<1> HIDE DEF o
<1>9. x + o[1] = l.x /\ y + o[2] = l.y /\ z + o[3] = l.z
  <2> HIDE DEF l
  <2> QED
    BY <1>2, <1>4, <1>8 DEF x, y, z
<1>10. HasNeighbour(q, n, o)
  <2> HIDE DEF l
  <2> QED
    BY <1>1, <1>7, <1>8, <1>9, HasNeighbourIs
<1>11. Neighbour(q, n, o) = r
  <2>1. Point(x + o[1], y + o[2], z + o[3], n) = Neighbour(Point(x, y, z, n), n, o)
    <3>1. x \in Int /\ y \in Int /\ z \in Int
      BY <1>3
    <3> QED
      BY <1>8, <3>1, PointStep
  <2> HIDE DEF l
  <2> QED
    BY <1>1, <1>6, <1>9, <2>1
<1> QED
  BY <1>7, <1>10, <1>11 DEF l, q, x, y, z, o

(* Neighbours in different directions are different ranks.                 *)
LEMMA NeighboursDiffer ==
  ASSUME NEW n \in Nat \ {0}, NEW r \in 0..Cube(n) - 1,
         NEW d \in Steps, HasNeighbour(r, n, d), NEW e \in Steps, HasNeighbour(r, n, e),
         Neighbour(r, n, d) = Neighbour(r, n, e)
  PROVE  d = e
<1> DEFINE l == Digits(r, n)
<1> DEFINE q == Neighbour(r, n, d)
<1>1. l.x \in Int /\ l.y \in Int /\ l.z \in Int
  BY DigitsPoint
<1>2. Digits(q, n) = [x |-> l.x + d[1], y |-> l.y + d[2], z |-> l.z + d[3]]
  BY NeighbourIs
<1>3. Digits(q, n) = [x |-> l.x + e[1], y |-> l.y + e[2], z |-> l.z + e[3]]
  BY NeighbourIs
<1> HIDE DEF l, q
<1>4. l.x + d[1] = l.x + e[1] /\ l.y + d[2] = l.y + e[2] /\ l.z + d[3] = l.z + e[3]
  <2> DEFINE g == Digits(q, n)
  <2>1. g.x = l.x + d[1] /\ g.y = l.y + d[2] /\ g.z = l.z + d[3]
    BY <1>2
  <2>2. g.x = l.x + e[1] /\ g.y = l.y + e[2] /\ g.z = l.z + e[3]
    BY <1>3
  <2> QED
    BY <2>1, <2>2
<1>5. d[1] \in -1..1 /\ d[2] \in -1..1 /\ d[3] \in -1..1 /\ d = <<d[1], d[2], d[3]>>
  BY StepParts
<1>6. e[1] \in -1..1 /\ e[2] \in -1..1 /\ e[3] \in -1..1 /\ e = <<e[1], e[2], e[3]>>
  BY StepParts
<1>7. d[1] = e[1] /\ d[2] = e[2] /\ d[3] = e[3]
  BY <1>1, <1>4, <1>5, <1>6
<1> QED
  BY <1>5, <1>6, <1>7

-----------------------------------------------------------------------------
(***************************************************************************)
(* The tables.  All list the same directions in the same order: six faces, *)
(* twelve edges, eight corners.  A receive is flagged if the neighbour has *)
(* the smaller rank, a send if it has the larger one.                      *)
(***************************************************************************)
FaceDirs == <<<< 0, 0, -1>>, <<0, 0, 1>>, <<0, -1, 0>>, <<0, 1, 0>>, <<-1, 0, 0>>, <<1, 0, 0>>>>
EdgeDirs == <<<<-1, -1, 0>>, <<0, -1, -1>>, <<-1, 0, -1>>, <<1, 1, 0>>, <<0, 1, 1>>, <<1, 0, 1>>,
              <<-1, 1, 0>>, <<0, -1, 1>>, <<-1, 0, 1>>, <<1, -1, 0>>, <<0, 1, -1>>, <<1, 0, -1>>>>
AlongDirs == <<<<-1, -1, 0>>, <<0, -1, -1>>, <<-1, 0, -1>>, <<1, 1, 0>>, <<0, 1, 1>>, <<1, 0, 1>>>>
AcrossDirs == <<<<-1, 1, 0>>, <<0, -1, 1>>, <<-1, 0, 1>>, <<1, -1, 0>>, <<0, 1, -1>>, <<1, 0, -1>>>>
CornerDirs == <<<<-1, -1, -1>>, <<-1, -1, 1>>, <<1, -1, -1>>, <<1, -1, 1>>,
                <<-1, 1, -1>>, <<-1, 1, 1>>, <<1, 1, -1>>, <<1, 1, 1>>>>
Dirs == <<FaceDirs, EdgeDirs, CornerDirs>>
Entries(p) == IF p = 1 THEN 6 ELSE IF p = 2 THEN 12 ELSE 8

Earlier(d) == d[3] = -1 \/ (d[3] = 0 /\ (d[2] = -1 \/ (d[2] = 0 /\ d[1] = -1)))
Extent(p, d) == IF p = 1 THEN d*d ELSE IF p = 2 THEN d ELSE 1

RecvTable(d) == <<RecvFaces(d, d, d), RecvEdges(d, d, d), RecvCorners(d, d, d)>>
SendTable(d) ==
  <<SendFaces(d, d, d), SendEdgesAlong(d, d, d) \o SendEdgesAcross(d, d, d), SendCorners(d, d, d)>>
SbnTable(d) ==
  <<SbnFaces(d, d, d), SbnEdgesAlong(d, d, d) \o SbnEdgesAcross(d, d, d), SbnCorners(d, d, d)>>
SyncTable(d) ==
  <<SyncFaces(d, d, d), SyncEdgesAlong(d, d, d) \o SyncEdgesAcross(d, d, d), SyncCorners(d, d, d)>>
MonoqTable(d) == <<MonoqFaces(d, d, d), << >>, << >>>>

(* Sequences of n members.                                                 *)
Tuple(s, n) == s \in Seq({s[i] : i \in 1..n}) /\ Len(s) = n
(* A sequence of n members is one over any set that has the members.       *)
LEMMA TupleIn ==
  ASSUME NEW n \in Nat, NEW s, Tuple(s, n), NEW M, \A i \in 1..n : s[i] \in M
  PROVE  s \in Seq(M)
<1> DEFINE R == {s[i] : i \in 1..n}
<1>1. s \in Seq(R) /\ Len(s) = n
  BY DEF Tuple
<1> HIDE DEF R
<1>2. s = [i \in 1..n |-> s[i]]
  BY <1>1
<1> QED
  BY <1>2
(* A sequence of length n is one of n members.                             *)
LEMMA SeqIsTuple ==
  ASSUME NEW n \in Nat, NEW M, NEW s \in Seq(M), Len(s) = n
  PROVE  Tuple(s, n)
<1> DEFINE R == {s[i] : i \in 1..n}
<1>2. s = [i \in 1..n |-> s[i]] /\ \A i \in 1..n : s[i] \in R
  OBVIOUS
<1> HIDE DEF R
<1>3. s \in Seq(R)
  BY <1>2
<1>4. s \in Seq({s[i] : i \in 1..n})
  BY <1>3 DEF R
<1> QED
  BY <1>4, Zenon DEF Tuple

(* The face receives of CommRecv: the six directions, flagged towards the  *)
(* smaller ranks, counting a plane.                                        *)
LEMMA RecvFacesAre ==
  ASSUME NEW d
  PROVE  /\ Tuple(RecvFaces(d, d, d), 6)
         /\ \A i \in 1..6 : RecvFaces(d, d, d)[i].dir = FaceDirs[i]
         /\ \A i \in 1..6 : RecvFaces(d, d, d)[i].count = d*d
         /\ \A i \in 1..6 : RecvFaces(d, d, d)[i].flagged <=> Earlier(FaceDirs[i])
<1>1. \A i \in 1..6 : RecvFaces(d, d, d)[i].dir = FaceDirs[i]
  BY DEF RecvFaces, Post, FaceDirs
<1>2. \A i \in 1..6 : RecvFaces(d, d, d)[i].count = d*d
  BY DEF RecvFaces, Post
<1>3. \A i \in 1..6 : RecvFaces(d, d, d)[i].flagged <=> Earlier(FaceDirs[i])
  BY DEF RecvFaces, Post, FaceDirs, Earlier, Always, Flagged
<1>4. Tuple(RecvFaces(d, d, d), 6)
  BY DEF RecvFaces, Tuple
<1> QED
  BY <1>1, <1>2, <1>3, <1>4

(* The edge receives of CommRecv: the twelve directions, flagged towards   *)
(* the smaller ranks, counting an edge.                                    *)
LEMMA RecvEdgesAre ==
  ASSUME NEW d
  PROVE  /\ Tuple(RecvEdges(d, d, d), 12)
         /\ \A i \in 1..12 : RecvEdges(d, d, d)[i].dir = EdgeDirs[i]
         /\ \A i \in 1..12 : RecvEdges(d, d, d)[i].count = d
         /\ \A i \in 1..12 : RecvEdges(d, d, d)[i].flagged <=> Earlier(EdgeDirs[i])
<1>1. \A i \in 1..12 : RecvEdges(d, d, d)[i].dir = EdgeDirs[i]
  BY SMTT(60) DEF RecvEdges, Post, EdgeDirs
<1>2. \A i \in 1..12 : RecvEdges(d, d, d)[i].count = d
  BY DEF RecvEdges, Post
<1>3. \A i \in 1..12 : RecvEdges(d, d, d)[i].flagged <=> Earlier(EdgeDirs[i])
  BY DEF RecvEdges, Post, EdgeDirs, Earlier, Always, Flagged
<1>4. Tuple(RecvEdges(d, d, d), 12)
  BY DEF RecvEdges, Tuple
<1> QED
  BY <1>1, <1>2, <1>3, <1>4

(* The corner receives of CommRecv: the eight directions, flagged towards  *)
(* the smaller ranks, counting one node.                                   *)
LEMMA RecvCornersAre ==
  ASSUME NEW d
  PROVE  /\ Tuple(RecvCorners(d, d, d), 8)
         /\ \A i \in 1..8 : RecvCorners(d, d, d)[i].dir = CornerDirs[i]
         /\ \A i \in 1..8 : RecvCorners(d, d, d)[i].count = 1
         /\ \A i \in 1..8 : RecvCorners(d, d, d)[i].flagged <=> Earlier(CornerDirs[i])
<1>1. \A i \in 1..8 : RecvCorners(d, d, d)[i].dir = CornerDirs[i]
  BY SMTT(30) DEF RecvCorners, Post, CornerDirs
<1>2. \A i \in 1..8 : RecvCorners(d, d, d)[i].count = 1
  BY DEF RecvCorners, Post
<1>3. \A i \in 1..8 : RecvCorners(d, d, d)[i].flagged <=> Earlier(CornerDirs[i])
  BY DEF RecvCorners, Post, CornerDirs, Earlier, Always, Flagged
<1>4. Tuple(RecvCorners(d, d, d), 8)
  BY DEF RecvCorners, Tuple
<1> QED
  BY <1>1, <1>2, <1>3, <1>4

Agrees(table, ref, dirs, n) ==
  /\ Tuple(table, n)
  /\ \A i \in 1..n : table[i].dir = dirs[i]
  /\ \A i \in 1..n : table[i].nodes = ref[i].nodes

(* CommSend, CommSBN and CommSyncPosVel list the faces alike, with the same*)
(* nodes; they differ in which they flag.                                  *)
LEMMA FacesAgree ==
  ASSUME NEW d
  PROVE  /\ Agrees(SendFaces(d, d, d), SendFaces(d, d, d), FaceDirs, 6)
         /\ \A i \in 1..6 : SendFaces(d, d, d)[i].flagged <=> ~Earlier(FaceDirs[i])
         /\ Agrees(SbnFaces(d, d, d), SendFaces(d, d, d), FaceDirs, 6)
         /\ \A i \in 1..6 : ~SbnFaces(d, d, d)[i].flagged
         /\ Agrees(SyncFaces(d, d, d), SendFaces(d, d, d), FaceDirs, 6)
         /\ \A i \in 1..6 : SyncFaces(d, d, d)[i].flagged <=> Earlier(FaceDirs[i])
<1>1. \A i \in 1..6 : SendFaces(d, d, d)[i].dir = FaceDirs[i]
  BY DEF SendFaces, Msg, FaceDirs
<1>2. \A i \in 1..6 : SbnFaces(d, d, d)[i].dir = FaceDirs[i]
  BY DEF SbnFaces, Msg, FaceDirs
<1>3. \A i \in 1..6 : SyncFaces(d, d, d)[i].dir = FaceDirs[i]
  BY DEF SyncFaces, Msg, FaceDirs
<1>4. \A i \in 1..6 : SbnFaces(d, d, d)[i].nodes = SendFaces(d, d, d)[i].nodes
  BY DEF SbnFaces, SendFaces, Msg
<1>5. \A i \in 1..6 : SyncFaces(d, d, d)[i].nodes = SendFaces(d, d, d)[i].nodes
  BY DEF SyncFaces, SendFaces, Msg
<1>6. \A i \in 1..6 : SendFaces(d, d, d)[i].flagged <=> ~Earlier(FaceDirs[i])
  BY DEF SendFaces, Msg, FaceDirs, Earlier, Always, Flagged
<1>7. \A i \in 1..6 : ~SbnFaces(d, d, d)[i].flagged
  BY DEF SbnFaces, Msg, Always
<1>8. \A i \in 1..6 : SyncFaces(d, d, d)[i].flagged <=> Earlier(FaceDirs[i])
  BY DEF SyncFaces, Msg, FaceDirs, Earlier, Always, Flagged
<1>9. Tuple(SendFaces(d, d, d), 6)
  BY DEF SendFaces, Tuple
<1>10. Tuple(SbnFaces(d, d, d), 6)
  BY DEF SbnFaces, Tuple
<1>11. Tuple(SyncFaces(d, d, d), 6)
  BY DEF SyncFaces, Tuple
<1> QED
  BY <1>1, <1>2, <1>3, <1>4, <1>5, <1>6, <1>7, <1>8, <1>9, <1>10, <1>11 DEF Agrees

(* So for the first six edges.                                             *)
LEMMA EdgesAlongAgree ==
  ASSUME NEW d
  PROVE  /\ Agrees(SendEdgesAlong(d, d, d), SendEdgesAlong(d, d, d), AlongDirs, 6)
         /\ \A i \in 1..6 : SendEdgesAlong(d, d, d)[i].flagged <=> ~Earlier(AlongDirs[i])
         /\ Agrees(SbnEdgesAlong(d, d, d), SendEdgesAlong(d, d, d), AlongDirs, 6)
         /\ \A i \in 1..6 : ~SbnEdgesAlong(d, d, d)[i].flagged
         /\ Agrees(SyncEdgesAlong(d, d, d), SendEdgesAlong(d, d, d), AlongDirs, 6)
         /\ \A i \in 1..6 : SyncEdgesAlong(d, d, d)[i].flagged <=> Earlier(AlongDirs[i])
<1>1. \A i \in 1..6 : SendEdgesAlong(d, d, d)[i].dir = AlongDirs[i]
  BY DEF SendEdgesAlong, Msg, AlongDirs
<1>2. \A i \in 1..6 : SbnEdgesAlong(d, d, d)[i].dir = AlongDirs[i]
  BY DEF SbnEdgesAlong, Msg, AlongDirs
<1>3. \A i \in 1..6 : SyncEdgesAlong(d, d, d)[i].dir = AlongDirs[i]
  BY DEF SyncEdgesAlong, Msg, AlongDirs
<1>4. \A i \in 1..6 : SbnEdgesAlong(d, d, d)[i].nodes = SendEdgesAlong(d, d, d)[i].nodes
  BY DEF SbnEdgesAlong, SendEdgesAlong, Msg
<1>5. \A i \in 1..6 : SyncEdgesAlong(d, d, d)[i].nodes = SendEdgesAlong(d, d, d)[i].nodes
  BY DEF SyncEdgesAlong, SendEdgesAlong, Msg
<1>6. \A i \in 1..6 : SendEdgesAlong(d, d, d)[i].flagged <=> ~Earlier(AlongDirs[i])
  BY DEF SendEdgesAlong, Msg, AlongDirs, Earlier, Always, Flagged
<1>7. \A i \in 1..6 : ~SbnEdgesAlong(d, d, d)[i].flagged
  BY DEF SbnEdgesAlong, Msg, Always
<1>8. \A i \in 1..6 : SyncEdgesAlong(d, d, d)[i].flagged <=> Earlier(AlongDirs[i])
  BY DEF SyncEdgesAlong, Msg, AlongDirs, Earlier, Always, Flagged
<1>9. Tuple(SendEdgesAlong(d, d, d), 6)
  BY DEF SendEdgesAlong, Tuple
<1>10. Tuple(SbnEdgesAlong(d, d, d), 6)
  BY DEF SbnEdgesAlong, Tuple
<1>11. Tuple(SyncEdgesAlong(d, d, d), 6)
  BY DEF SyncEdgesAlong, Tuple
<1> QED
  BY <1>1, <1>2, <1>3, <1>4, <1>5, <1>6, <1>7, <1>8, <1>9, <1>10, <1>11 DEF Agrees

(* So for the other six edges.                                             *)
LEMMA EdgesAcrossAgree ==
  ASSUME NEW d
  PROVE  /\ Agrees(SendEdgesAcross(d, d, d), SendEdgesAcross(d, d, d), AcrossDirs, 6)
         /\ \A i \in 1..6 : SendEdgesAcross(d, d, d)[i].flagged <=> ~Earlier(AcrossDirs[i])
         /\ Agrees(SbnEdgesAcross(d, d, d), SendEdgesAcross(d, d, d), AcrossDirs, 6)
         /\ \A i \in 1..6 : ~SbnEdgesAcross(d, d, d)[i].flagged
         /\ Agrees(SyncEdgesAcross(d, d, d), SendEdgesAcross(d, d, d), AcrossDirs, 6)
         /\ \A i \in 1..6 : SyncEdgesAcross(d, d, d)[i].flagged <=> Earlier(AcrossDirs[i])
<1>1. \A i \in 1..6 : SendEdgesAcross(d, d, d)[i].dir = AcrossDirs[i]
  BY DEF SendEdgesAcross, Msg, AcrossDirs
<1>2. \A i \in 1..6 : SbnEdgesAcross(d, d, d)[i].dir = AcrossDirs[i]
  BY DEF SbnEdgesAcross, Msg, AcrossDirs
<1>3. \A i \in 1..6 : SyncEdgesAcross(d, d, d)[i].dir = AcrossDirs[i]
  BY DEF SyncEdgesAcross, Msg, AcrossDirs
<1>4. \A i \in 1..6 : SbnEdgesAcross(d, d, d)[i].nodes = SendEdgesAcross(d, d, d)[i].nodes
  BY DEF SbnEdgesAcross, SendEdgesAcross, Msg
<1>5. \A i \in 1..6 : SyncEdgesAcross(d, d, d)[i].nodes = SendEdgesAcross(d, d, d)[i].nodes
  BY DEF SyncEdgesAcross, SendEdgesAcross, Msg
<1>6. \A i \in 1..6 : SendEdgesAcross(d, d, d)[i].flagged <=> ~Earlier(AcrossDirs[i])
  BY DEF SendEdgesAcross, Msg, AcrossDirs, Earlier, Always, Flagged
<1>7. \A i \in 1..6 : ~SbnEdgesAcross(d, d, d)[i].flagged
  BY DEF SbnEdgesAcross, Msg, Always
<1>8. \A i \in 1..6 : SyncEdgesAcross(d, d, d)[i].flagged <=> Earlier(AcrossDirs[i])
  BY DEF SyncEdgesAcross, Msg, AcrossDirs, Earlier, Always, Flagged
<1>9. Tuple(SendEdgesAcross(d, d, d), 6)
  BY DEF SendEdgesAcross, Tuple
<1>10. Tuple(SbnEdgesAcross(d, d, d), 6)
  BY DEF SbnEdgesAcross, Tuple
<1>11. Tuple(SyncEdgesAcross(d, d, d), 6)
  BY DEF SyncEdgesAcross, Tuple
<1> QED
  BY <1>1, <1>2, <1>3, <1>4, <1>5, <1>6, <1>7, <1>8, <1>9, <1>10, <1>11 DEF Agrees

(* So for the corners.                                                     *)
LEMMA CornersAgree ==
  ASSUME NEW d
  PROVE  /\ Agrees(SendCorners(d, d, d), SendCorners(d, d, d), CornerDirs, 8)
         /\ \A i \in 1..8 : SendCorners(d, d, d)[i].flagged <=> ~Earlier(CornerDirs[i])
         /\ Agrees(SbnCorners(d, d, d), SendCorners(d, d, d), CornerDirs, 8)
         /\ \A i \in 1..8 : ~SbnCorners(d, d, d)[i].flagged
         /\ Agrees(SyncCorners(d, d, d), SendCorners(d, d, d), CornerDirs, 8)
         /\ \A i \in 1..8 : SyncCorners(d, d, d)[i].flagged <=> Earlier(CornerDirs[i])
<1>1. \A i \in 1..8 : SendCorners(d, d, d)[i].dir = CornerDirs[i]
  BY SMTT(30) DEF SendCorners, Msg, CornerDirs
<1>2. \A i \in 1..8 : SbnCorners(d, d, d)[i].dir = CornerDirs[i]
  BY SMTT(30) DEF SbnCorners, Msg, CornerDirs
<1>3. \A i \in 1..8 : SyncCorners(d, d, d)[i].dir = CornerDirs[i]
  BY SMTT(30) DEF SyncCorners, Msg, CornerDirs
<1>4. \A i \in 1..8 : SbnCorners(d, d, d)[i].nodes = SendCorners(d, d, d)[i].nodes
  BY DEF SbnCorners, SendCorners, Msg
<1>5. \A i \in 1..8 : SyncCorners(d, d, d)[i].nodes = SendCorners(d, d, d)[i].nodes
  BY DEF SyncCorners, SendCorners, Msg
<1>6. \A i \in 1..8 : SendCorners(d, d, d)[i].flagged <=> ~Earlier(CornerDirs[i])
  BY DEF SendCorners, Msg, CornerDirs, Earlier, Always, Flagged
<1>7. \A i \in 1..8 : ~SbnCorners(d, d, d)[i].flagged
  BY DEF SbnCorners, Msg, Always
<1>8. \A i \in 1..8 : SyncCorners(d, d, d)[i].flagged <=> Earlier(CornerDirs[i])
  BY DEF SyncCorners, Msg, CornerDirs, Earlier, Always, Flagged
<1>9. Tuple(SendCorners(d, d, d), 8)
  BY DEF SendCorners, Tuple
<1>10. Tuple(SbnCorners(d, d, d), 8)
  BY DEF SbnCorners, Tuple
<1>11. Tuple(SyncCorners(d, d, d), 8)
  BY DEF SyncCorners, Tuple
<1> QED
  BY <1>1, <1>2, <1>3, <1>4, <1>5, <1>6, <1>7, <1>8, <1>9, <1>10, <1>11 DEF Agrees

Halves(c, s, t, m, n, M) ==
  /\ c \in Seq(M) /\ Len(c) = n
  /\ \A i \in 1..n : c[i] = IF i <= m THEN s[i] ELSE t[i - m]
(* The elements of a concatenation of two sequences of one length.         *)
LEMMA ConcatAt ==
  ASSUME NEW m \in Nat, NEW M, NEW s \in Seq(M), NEW t \in Seq(M), Len(s) = m, Len(t) = m
  PROVE  Halves(s \o t, s, t, m, m + m, M)
<1>1. /\ s \o t \in Seq(M) /\ Len(s \o t) = Len(s) + Len(t)
      /\ \A i \in 1..Len(s) + Len(t) : (s \o t)[i] = IF i <= Len(s) THEN s[i] ELSE t[i - Len(s)]
  BY ConcatProperties
<1> QED
  BY <1>1, Zenon DEF Halves

(* So for two sequences of six.                                            *)
LEMMA ConcatOfSix ==
  ASSUME NEW M, NEW s \in Seq(M), NEW t \in Seq(M), Len(s) = 6, Len(t) = 6
  PROVE  Halves(s \o t, s, t, 6, 12, M)
<1>1. 12 = 6 + 6 /\ 6 \in Nat
  OBVIOUS
<1>2. Halves(s \o t, s, t, 6, 6 + 6, M)
  BY <1>1, ConcatAt, Zenon
<1> QED
  BY <1>1, <1>2, Zenon

(* The twelve edges are the six along followed by the six across.          *)
LEMMA JoinedEdges ==
  ASSUME NEW a, NEW b, NEW ra, NEW rb, Agrees(ra, ra, AlongDirs, 6), Agrees(rb, rb, AcrossDirs, 6),
         Agrees(a, ra, AlongDirs, 6), Agrees(b, rb, AcrossDirs, 6)
  PROVE  /\ Agrees(a \o b, ra \o rb, EdgeDirs, 12)
         /\ \A i \in 1..12 : (a \o b)[i] = IF i <= 6 THEN a[i] ELSE b[i - 6]
<1>1. /\ \A i \in 1..6 : EdgeDirs[i] = AlongDirs[i]
      /\ \A i \in 7..12 : EdgeDirs[i] = AcrossDirs[i - 6]
  <2>1. \A i \in 1..6 : EdgeDirs[i] = AlongDirs[i]
    BY DEF EdgeDirs, AlongDirs
  <2>2. \A i \in 1..6 : EdgeDirs[i + 6] = AcrossDirs[i]
    BY DEF EdgeDirs, AcrossDirs
  <2>3. \A i \in 7..12 : i - 6 \in 1..6 /\ (i - 6) + 6 = i
    OBVIOUS
  <2> QED
    BY <2>1, <2>2, <2>3
<1>2. ASSUME NEW s, NEW t, Tuple(s, 6), Tuple(t, 6)
      PROVE  Tuple(s \o t, 12) /\ \A i \in 1..12 : (s \o t)[i] = IF i <= 6 THEN s[i] ELSE t[i - 6]
  <2> DEFINE M == {s[i] : i \in 1..6} \cup {t[i] : i \in 1..6}
  <2>1. \A i \in 1..6 : s[i] \in M /\ t[i] \in M
    OBVIOUS
  <2> HIDE DEF M
  <2>2. s \in Seq(M) /\ t \in Seq(M) /\ Len(s) = 6 /\ Len(t) = 6
    <3>1. s \in Seq(M)
      BY <1>2, <2>1, TupleIn
    <3>2. t \in Seq(M)
      BY <1>2, <2>1, TupleIn
    <3> QED
      BY <1>2, <3>1, <3>2 DEF Tuple
  <2>3. Halves(s \o t, s, t, 6, 12, M)
    BY <2>2, ConcatOfSix, Zenon
  <2> DEFINE c == s \o t
  <2>4. c \in Seq(M) /\ Len(c) = 12 /\ \A i \in 1..12 : c[i] = IF i <= 6 THEN s[i] ELSE t[i - 6]
    BY <2>3, Zenon DEF Halves
  <2> HIDE DEF c
  <2>5. Tuple(c, 12)
    BY <2>4, SeqIsTuple
  <2> QED
    BY <2>4, <2>5, Zenon DEF c
<1> DEFINE c == a \o b
<1> DEFINE rc == ra \o rb
<1>3. Tuple(c, 12) /\ \A i \in 1..12 : c[i] = IF i <= 6 THEN a[i] ELSE b[i - 6]
  <2>1. Tuple(a, 6) /\ Tuple(b, 6)
    BY Zenon DEF Agrees
  <2> QED
    BY <1>2, <2>1, Zenon
<1>4. Tuple(rc, 12) /\ \A i \in 1..12 : rc[i] = IF i <= 6 THEN ra[i] ELSE rb[i - 6]
  <2>1. Tuple(ra, 6) /\ Tuple(rb, 6)
    BY Zenon DEF Agrees
  <2> QED
    BY <1>2, <2>1, Zenon
<1> HIDE DEF c, rc
<1>5. \A i \in 1..12 : c[i].dir = EdgeDirs[i]
  <2> SUFFICES ASSUME NEW i \in 1..12 PROVE c[i].dir = EdgeDirs[i]
    OBVIOUS
  <2>1. CASE i \in 1..6
    BY <1>1, <1>3, <2>1 DEF Agrees
  <2>2. CASE i \in 7..12
    <3>1. c[i] = b[i - 6] /\ i - 6 \in 1..6 /\ EdgeDirs[i] = AcrossDirs[i - 6]
      BY <1>1, <1>3, <2>2
    <3> QED
      BY <3>1 DEF Agrees
  <2> QED
    BY <2>1, <2>2
<1>6. \A i \in 1..12 : c[i].nodes = rc[i].nodes
  <2> SUFFICES ASSUME NEW i \in 1..12 PROVE c[i].nodes = rc[i].nodes
    OBVIOUS
  <2>1. CASE i \in 1..6
    BY <1>3, <1>4, <2>1 DEF Agrees
  <2>2. CASE i \in 7..12
    <3>1. c[i] = b[i - 6] /\ rc[i] = rb[i - 6] /\ i - 6 \in 1..6
      BY <1>3, <1>4, <2>2
    <3> QED
      BY <3>1 DEF Agrees
  <2> QED
    BY <2>1, <2>2
<1>7. Agrees(c, rc, EdgeDirs, 12)
  BY <1>3, <1>5, <1>6 DEF Agrees
<1> QED
  BY <1>3, <1>7, Zenon DEF c, rc

-----------------------------------------------------------------------------
(***************************************************************************)
(* Where the messages go: K gives the places taken in the three tables.    *)
(***************************************************************************)
Parts(K) == K \in [1..3 -> SUBSET Int] /\ \A p \in 1..3 : IsFiniteSet(K[p])
Before(K, p) ==
  (IF p = 1 THEN 0 ELSE Cardinality(K[1])) + (IF p = 3 THEN Cardinality(K[2]) ELSE 0)
All(K) == Cardinality(K[1]) + Cardinality(K[2]) + Cardinality(K[3])
MsgSlot(K, p, i) == Before(K, p) + RankIn(K[p], i) + 1

(* The three sets of places are counted, and the earlier ones come first.  *)
LEMMA PartsCount ==
  ASSUME NEW K, Parts(K)
  PROVE  /\ \A p \in 1..3 : Cardinality(K[p]) \in Nat
         /\ All(K) \in Nat
         /\ Before(K, 1) = 0 /\ Before(K, 2) = Cardinality(K[1])
         /\ Before(K, 3) = Cardinality(K[1]) + Cardinality(K[2])
         /\ \A p \in 1..3 : \A i \in K[p] : RankIn(K[p], i) \in 0..Cardinality(K[p]) - 1
<1>1. ASSUME NEW p \in 1..3
      PROVE  K[p] \in SUBSET Int /\ IsFiniteSet(K[p]) /\ Cardinality(K[p]) \in Nat
  BY FS_CardinalityType DEF Parts
<1>2. All(K) \in Nat
  BY <1>1 DEF All
<1>3. ASSUME NEW p \in 1..3, NEW i \in K[p] PROVE RankIn(K[p], i) \in 0..Cardinality(K[p]) - 1
  BY <1>1, RankProperties
<1>4. Before(K, 1) = 0 /\ Before(K, 2) = Cardinality(K[1])
      /\ Before(K, 3) = Cardinality(K[1]) + Cardinality(K[2])
  BY <1>1 DEF Before
<1> QED
  BY <1>1, <1>2, <1>3, <1>4

(* The messages of a rank fill the slots from 1 without gap, each its own. *)
LEMMA MsgSlotsAre ==
  ASSUME NEW K, Parts(K)
  PROVE  /\ \A p \in 1..3 : \A i \in K[p] : MsgSlot(K, p, i) \in 1..All(K)
         /\ \A j \in 1..All(K) : \E p \in 1..3 : \E i \in K[p] : j = MsgSlot(K, p, i)
         /\ \A p, q \in 1..3 : \A i \in K[p], j \in K[q] :
              MsgSlot(K, p, i) = MsgSlot(K, q, j) => p = q /\ i = j
<1> DEFINE a == Cardinality(K[1])
<1> DEFINE b == Cardinality(K[2])
<1> DEFINE c == Cardinality(K[3])
<1>1. a \in Nat /\ b \in Nat /\ c \in Nat /\ All(K) = a + b + c
  BY PartsCount DEF All
<1>2. /\ \A i \in K[1] : RankIn(K[1], i) \in 0..a - 1 /\ MsgSlot(K, 1, i) = RankIn(K[1], i) + 1
      /\ \A i \in K[2] : RankIn(K[2], i) \in 0..b - 1 /\ MsgSlot(K, 2, i) = a + RankIn(K[2], i) + 1
      /\ \A i \in K[3] : RankIn(K[3], i) \in 0..c - 1 /\ MsgSlot(K, 3, i) = a + b + RankIn(K[3], i) + 1
  BY <1>1, PartsCount DEF MsgSlot, Before
<1> HIDE DEF a, b, c
<1>3. ASSUME NEW p \in 1..3, NEW i \in K[p] PROVE MsgSlot(K, p, i) \in 1..All(K)
  BY <1>1, <1>2
<1>4. ASSUME NEW p \in 1..3
      PROVE  /\ \A i, j \in K[p] : RankIn(K[p], i) = RankIn(K[p], j) => i = j
             /\ \A q \in 0..Cardinality(K[p]) - 1 : \E i \in K[p] : RankIn(K[p], i) = q
  <2>1. K[p] \in SUBSET Int /\ IsFiniteSet(K[p])
    BY DEF Parts
  <2> QED
    BY <2>1, RankProperties
<1>5. ASSUME NEW j \in 1..All(K) PROVE \E p \in 1..3 : \E i \in K[p] : j = MsgSlot(K, p, i)
  <2>1. CASE j <= a
    <3>1. j - 1 \in 0..Cardinality(K[1]) - 1
      BY <1>1, <2>1 DEF a
    <3>2. PICK i \in K[1] : RankIn(K[1], i) = j - 1
      BY <1>4, <3>1
    <3> QED
      BY <1>2, <3>2
  <2>2. CASE j > a /\ j <= a + b
    <3>1. j - a - 1 \in 0..Cardinality(K[2]) - 1
      BY <1>1, <2>2 DEF b
    <3>2. PICK i \in K[2] : RankIn(K[2], i) = j - a - 1
      BY <1>4, <3>1
    <3>3. j = MsgSlot(K, 2, i)
      BY <1>1, <1>2, <3>2
    <3> QED
      BY <3>3
  <2>3. CASE j > a + b
    <3>1. j - (a + b) - 1 \in 0..Cardinality(K[3]) - 1
      BY <1>1, <2>3 DEF c
    <3>2. PICK i \in K[3] : RankIn(K[3], i) = j - (a + b) - 1
      BY <1>4, <3>1
    <3>3. j = MsgSlot(K, 3, i)
      BY <1>1, <1>2, <3>2
    <3> QED
      BY <3>3
  <2> QED
    BY <1>1, <2>1, <2>2, <2>3
<1>6. ASSUME NEW p \in 1..3, NEW q \in 1..3, NEW i \in K[p], NEW j \in K[q],
             MsgSlot(K, p, i) = MsgSlot(K, q, j)
      PROVE  p = q /\ i = j
  <2>1. p = q
    BY <1>1, <1>2, <1>6
  <2>2. RankIn(K[p], i) = RankIn(K[p], j)
    BY <1>1, <1>2, <1>6, <2>1
  <2> QED
    BY <1>4, <2>1, <2>2
<1> QED
  BY <1>3, <1>5, <1>6

(* Where the data of a message begin, and how much room they have.         *)
Room(fields, n, p) ==
  IF p = 1 THEN fields*Rounded((n + 1)*(n + 1)) ELSE IF p = 2 THEN fields*Rounded(n + 1) ELSE 16
Place(K, fields, n, p, i) ==
  (IF p = 1 THEN 0 ELSE Room(fields, n, 1)*Cardinality(K[1]))
  + (IF p = 3 THEN Room(fields, n, 2)*Cardinality(K[2]) ELSE 0)
  + Room(fields, n, p)*RankIn(K[p], i)

(* The room of a message is a natural number of values.                    *)
LEMMA RoomIs ==
  ASSUME NEW fields \in Nat, NEW n \in Nat, NEW p \in 1..3
  PROVE  Room(fields, n, p) \in Nat
<1>1. \A k \in Nat : Rounded(k) \in Nat
  <2> SUFFICES ASSUME NEW k \in Nat PROVE Rounded(k) \in Nat
    OBVIOUS
  <2>1. (k + 15) \div 16 \in Nat
    OBVIOUS
  <2> QED
    BY <2>1 DEF Rounded
<1>2. (n + 1)*(n + 1) \in Nat /\ n + 1 \in Nat
  BY SMT
<1>3. Rounded((n + 1)*(n + 1)) \in Nat /\ Rounded(n + 1) \in Nat
  BY <1>1, <1>2
<1> DEFINE a == Rounded((n + 1)*(n + 1))
<1> DEFINE b == Rounded(n + 1)
<1>4. fields*a \in Nat /\ fields*b \in Nat
  <2> HIDE DEF a, b
  <2> QED
    BY <1>3, SMT DEF a, b
<1> QED
  BY <1>4 DEF Room

(* A layout of messages T[p][i] for the places K.                          *)
Laid(s, K, T, fields, n) ==
  /\ s = [j \in 1..All(K) |-> s[j]]
  /\ \A p \in 1..3 : \A i \in K[p] :
       s[MsgSlot(K, p, i)] = [at |-> Place(K, fields, n, p, i), msg |-> T[p][i]]

(* The arguments of the four exchanges, as far as the tables look at them. *)
LEMMA ExchangesAre ==
  ASSUME NEW k \in DOMAIN Exchanges
  PROVE  /\ k \in {"mass", "force", "posVel", "monoQ"}
         /\ Exchanges[k].fields \in 1..6
         /\ Exchanges[k].flag <=> k # "posVel"
         /\ Exchanges[k].planeOnly <=> k = "monoQ"
BY DEF Exchanges

Concat(f, e, c) == f \o e \o c

(* The elements of a concatenation of three sequences.                     *)
LEMMA ConcatThree ==
  ASSUME NEW M, NEW f \in Seq(M), NEW e \in Seq(M), NEW c \in Seq(M)
  PROVE  /\ Len(f) \in Nat /\ Len(e) \in Nat /\ Len(c) \in Nat
         /\ Len(f \o e) = Len(f) + Len(e)
         /\ Len(Concat(f, e, c)) = Len(f) + Len(e) + Len(c)
         /\ \A q \in 1..Len(f) : Concat(f, e, c)[q] = f[q]
         /\ \A q \in 1..Len(e) : Concat(f, e, c)[Len(f) + q] = e[q]
         /\ \A q \in 1..Len(c) : Concat(f, e, c)[Len(f) + Len(e) + q] = c[q]
<1>1. Len(f) \in Nat /\ Len(e) \in Nat /\ Len(c) \in Nat
  BY LenProperties
<1> DEFINE fe == f \o e
<1>2. /\ fe \in Seq(M) /\ Len(fe) = Len(f) + Len(e)
      /\ \A i \in 1..Len(f) + Len(e) : fe[i] = IF i <= Len(f) THEN f[i] ELSE e[i - Len(f)]
  BY ConcatProperties
<1> HIDE DEF fe
<1>8. fe \in Seq(M)
  BY <1>2
<1> DEFINE all == fe \o c
<1>3. /\ all \in Seq(M) /\ Len(all) = Len(fe) + Len(c)
      /\ \A i \in 1..Len(fe) + Len(c) : all[i] = IF i <= Len(fe) THEN fe[i] ELSE c[i - Len(fe)]
  BY <1>8, ConcatProperties
<1> HIDE DEF all
<1>4. ASSUME NEW q \in 1..Len(f) PROVE all[q] = f[q]
  <2>1. q \in 1..Len(fe) + Len(c) /\ q <= Len(fe) /\ q \in 1..Len(f) + Len(e) /\ q <= Len(f)
    BY <1>1, <1>2
  <2> QED
    BY <2>1, <1>2, <1>3, Zenon
<1>5. ASSUME NEW q \in 1..Len(e) PROVE all[Len(f) + q] = e[q]
  <2> DEFINE i == Len(f) + q
  <2>1. /\ i \in 1..Len(fe) + Len(c) /\ i <= Len(fe) /\ i \in 1..Len(f) + Len(e)
        /\ ~ i <= Len(f) /\ i - Len(f) = q
    BY <1>1, <1>2
  <2> HIDE DEF i
  <2>2. all[i] = fe[i] /\ fe[i] = e[q]
    BY <2>1, <1>2, <1>3, Zenon
  <2> QED
    BY <2>2 DEF i
<1>6. ASSUME NEW q \in 1..Len(c) PROVE all[Len(f) + Len(e) + q] = c[q]
  <2> DEFINE i == Len(f) + Len(e) + q
  <2>1. i \in 1..Len(fe) + Len(c) /\ ~ i <= Len(fe) /\ i - Len(fe) = q
    BY <1>1, <1>2
  <2> HIDE DEF i
  <2>2. all[i] = c[q]
    BY <2>1, <1>3, Zenon
  <2> QED
    BY <2>2 DEF i
<1>7. Len(all) = Len(f) + Len(e) + Len(c) /\ Concat(f, e, c) = all /\ f \o e = fe
  BY <1>1, <1>2, <1>3 DEF Concat, all, fe
<1> QED
  BY <1>1, <1>2, <1>4, <1>5, <1>6, <1>7

(* The places a layout takes: those of the messages exchanged.             *)
Taken(r, f, e, c) ==
  [p \in 1..3 |-> IF p = 1 THEN Places(r, f)
                  ELSE IF Call.planeOnly THEN {} ELSE Places(r, IF p = 2 THEN e ELSE c)]

(* The places a layout takes are three finite sets of numbers.             *)
LEMMA TakenParts ==
  ASSUME NEW r, NEW M, NEW f \in Seq(M), NEW e \in Seq(M), NEW c \in Seq(M)
  PROVE  Parts(Taken(r, f, e, c))
<1> DEFINE K == Taken(r, f, e, c)
<1>1. ASSUME NEW t \in Seq(M) PROVE Places(r, t) \in SUBSET Int /\ IsFiniteSet(Places(r, t))
  BY ChosenIs
<1>2. IsFiniteSet({}) /\ {} \in SUBSET Int
  BY FS_EmptySet
<1>3. ASSUME NEW p \in 1..3 PROVE K[p] \in SUBSET Int /\ IsFiniteSet(K[p])
  BY <1>1, <1>2 DEF Taken
<1>4. K = [p \in 1..3 |-> K[p]]
  BY DEF Taken
<1> HIDE DEF K
<1>5. K \in [1..3 -> SUBSET Int]
  BY <1>3, <1>4
<1> QED
  BY <1>3, <1>5 DEF Parts, K

(* What Layout builds of the messages it has chosen, a and b being a       *)
(* plane's room and an edge's.                                             *)
Parted(f, e, c, a, b) ==
  LET all == f \o e \o c
      Limit(k, n) == IF k < n THEN k ELSE n
      at(i) == a*Limit(i - 1, Len(f))
               + b*Limit(IF i <= Len(f) THEN 0 ELSE i - 1 - Len(f), Len(e))
               + CornerSize*(IF i <= Len(f \o e) THEN 0 ELSE i - 1 - Len(f \o e))
  IN [i \in 1..Len(all) |-> [at |-> at(i), msg |-> all[i]]]

PartedWell(s, f, e, c, a, b) ==
  /\ s = [i \in 1..Len(f) + Len(e) + Len(c) |-> s[i]]
  /\ \A q \in 0..Len(f) - 1 : s[q + 1] = [at |-> a*q, msg |-> f[q + 1]]
  /\ \A q \in 0..Len(e) - 1 : s[Len(f) + q + 1] = [at |-> a*Len(f) + b*q, msg |-> e[q + 1]]
  /\ \A q \in 0..Len(c) - 1 :
       s[Len(f) + Len(e) + q + 1] = [at |-> a*Len(f) + b*Len(e) + 16*q, msg |-> c[q + 1]]

(* Parted puts the faces first, the edges behind them and the corners last,*)
(* each behind the room of those before it.                                *)
LEMMA PartedIs ==
  ASSUME NEW M, NEW f \in Seq(M), NEW e \in Seq(M), NEW c \in Seq(M), NEW a \in Nat, NEW b \in Nat
  PROVE  PartedWell(Parted(f, e, c, a, b), f, e, c, a, b)
<1> DEFINE lf == Len(f)
<1> DEFINE le == Len(e)
<1> DEFINE lc == Len(c)
<1> DEFINE fe == f \o e
<1> DEFINE all == f \o e \o c
<1> DEFINE Limit(k, n) == IF k < n THEN k ELSE n
<1> DEFINE at(i) == a*Limit(i - 1, lf) + b*Limit(IF i <= lf THEN 0 ELSE i - 1 - lf, le)
                    + CornerSize*(IF i <= Len(fe) THEN 0 ELSE i - 1 - Len(fe))
<1> DEFINE s == [i \in 1..Len(all) |-> [at |-> at(i), msg |-> all[i]]]
<1>1. Parted(f, e, c, a, b) = s
  BY Zenon DEF Parted
<1>2. /\ lf \in Nat /\ le \in Nat /\ lc \in Nat
      /\ Len(fe) = lf + le /\ Len(all) = lf + le + lc
      /\ \A q \in 1..lf : all[q] = f[q]
      /\ \A q \in 1..le : all[lf + q] = e[q]
      /\ \A q \in 1..lc : all[lf + le + q] = c[q]
  <2>1. /\ Len(f) \in Nat /\ Len(e) \in Nat /\ Len(c) \in Nat
        /\ Len(f \o e) = Len(f) + Len(e)
        /\ Len(Concat(f, e, c)) = Len(f) + Len(e) + Len(c)
        /\ \A q \in 1..Len(f) : Concat(f, e, c)[q] = f[q]
        /\ \A q \in 1..Len(e) : Concat(f, e, c)[Len(f) + q] = e[q]
        /\ \A q \in 1..Len(c) : Concat(f, e, c)[Len(f) + Len(e) + q] = c[q]
    BY ConcatThree
  <2> QED
    BY <2>1, Zenon DEF Concat
<1> HIDE DEF lf, le, lc, fe, all
<1>8. lf \in Nat /\ le \in Nat /\ lc \in Nat /\ Len(fe) = lf + le /\ Len(all) = lf + le + lc
  BY <1>2
<1>3. CornerSize = 16 /\ a*0 = 0 /\ b*0 = 0
  BY SMT DEF CornerSize
<1> HIDE DEF at
<1>4. ASSUME NEW q \in 0..lf - 1 PROVE s[q + 1] = [at |-> a*q, msg |-> f[q + 1]]
  <2>1. q + 1 \in 1..Len(all) /\ q + 1 \in 1..lf /\ q + 1 <= lf /\ q + 1 <= Len(fe)
        /\ (q + 1) - 1 = q /\ q < lf
    BY <1>2
  <2>2. Limit(q, lf) = q /\ Limit(0, le) = 0
    BY <1>2, <2>1
  <2>3. at(q + 1) = a*Limit(q, lf) + b*Limit(0, le) + CornerSize*0
    BY <2>1 DEF at
  <2>4. at(q + 1) = a*q
    <3> DEFINE v == a*q
    <3>1. v \in Nat
      BY <1>2, SMT
    <3>2. at(q + 1) = v + 0 + 16*0
      BY <1>3, <2>2, <2>3
    <3> HIDE DEF v
    <3> QED
      BY <3>1, <3>2 DEF v
  <2>5. all[q + 1] = f[q + 1]
    BY <1>2, <2>1
  <2> QED
    BY <2>1, <2>4, <2>5
<1>5. ASSUME NEW q \in 0..le - 1
      PROVE  s[lf + q + 1] = [at |-> a*lf + b*q, msg |-> e[q + 1]]
  <2> DEFINE i == lf + q + 1
  <2>1. i \in 1..Len(all) /\ q + 1 \in 1..le /\ ~(i <= lf) /\ i <= Len(fe)
        /\ i - 1 = lf + q /\ i - 1 - lf = q /\ q < le /\ ~(lf + q < lf) /\ i = lf + (q + 1)
    BY <1>8
  <2> HIDE DEF i
  <2>2. Limit(lf + q, lf) = lf /\ Limit(q, le) = q
    BY <1>2, <2>1
  <2>3. at(i) = a*Limit(lf + q, lf) + b*Limit(q, le) + CornerSize*0
    BY <2>1 DEF at
  <2>4. at(i) = a*lf + b*q
    <3> DEFINE v == a*lf
    <3> DEFINE w == b*q
    <3>1. v \in Nat /\ w \in Nat
      BY <1>2, SMT
    <3>2. at(i) = v + w + 16*0
      BY <1>3, <2>2, <2>3
    <3> HIDE DEF v, w
    <3> QED
      BY <3>1, <3>2 DEF v, w
  <2>5. all[i] = e[q + 1]
    BY <1>2, <2>1
  <2> QED
    BY <2>1, <2>4, <2>5 DEF i
<1>6. ASSUME NEW q \in 0..lc - 1
      PROVE  s[lf + le + q + 1] = [at |-> a*lf + b*le + 16*q, msg |-> c[q + 1]]
  <2> DEFINE i == lf + le + q + 1
  <2>1. i \in 1..Len(all) /\ q + 1 \in 1..lc /\ ~(i <= lf) /\ ~(i <= Len(fe))
        /\ i - 1 - Len(fe) = q /\ ~(i - 1 < lf) /\ ~(i - 1 - lf < le) /\ i = lf + le + (q + 1)
    BY <1>8
  <2> HIDE DEF i
  <2>2. Limit(i - 1, lf) = lf /\ Limit(i - 1 - lf, le) = le
    BY <1>2, <2>1
  <2>3. at(i) = a*Limit(i - 1, lf) + b*Limit(i - 1 - lf, le) + CornerSize*q
    BY <2>1 DEF at
  <2>4. at(i) = a*lf + b*le + 16*q
    BY <1>3, <2>2, <2>3
  <2>5. all[i] = c[q + 1]
    BY <1>2, <2>1
  <2> QED
    BY <2>1, <2>4, <2>5 DEF i
<1>7. s = [i \in 1..lf + le + lc |-> s[i]]
  BY <1>2
<1> HIDE DEF s
<1> QED
  BY <1>1, <1>4, <1>5, <1>6, <1>7, Zenon DEF PartedWell, lf, le, lc

(* Layout has each message in the slot, and its data at the place, that the*)
(* number of messages before it gives.                                     *)
LEMMA LayoutLaid ==
  ASSUME kind \in DOMAIN Exchanges, nx \in Nat, NEW r,
         NEW M, NEW f \in Seq(M), NEW e \in Seq(M), NEW c \in Seq(M)
  PROVE  Laid(Layout(r, f, e, c), Taken(r, f, e, c), <<f, e, c>>, Call.fields, nx)
<1> DEFINE K == Taken(r, f, e, c)
<1> DEFINE cf == Chosen(r, f)
<1> DEFINE ce == IF Call.planeOnly THEN << >> ELSE Chosen(r, e)
<1> DEFINE cc == IF Call.planeOnly THEN << >> ELSE Chosen(r, c)
<1> DEFINE a == Call.fields*PlaneSize
<1> DEFINE b == Call.fields*EdgeSize
<1>1. Parts(K)
  BY TakenParts
<1>2. ASSUME NEW t \in Seq(M), NEW ct, ct = IF Call.planeOnly THEN << >> ELSE Chosen(r, t),
             NEW S, S = IF Call.planeOnly THEN {} ELSE Places(r, t)
      PROVE  /\ ct \in Seq(M) /\ Len(ct) = Cardinality(S)
             /\ \A i \in S : ct[RankIn(S, i) + 1] = t[i]
  <2>1. CASE Call.planeOnly
    BY <1>2, <2>1, FS_EmptySet
  <2>2. CASE ~Call.planeOnly
    <3>1. ct = Chosen(r, t) /\ S = Places(r, t)
      BY <1>2, <2>2
    <3> QED
      BY <3>1, ChosenIs
  <2> QED
    BY <2>1, <2>2
<1>3. /\ cf \in Seq(M) /\ Len(cf) = Cardinality(K[1])
      /\ \A i \in K[1] : cf[RankIn(K[1], i) + 1] = f[i]
  <2>1. K[1] = Places(r, f)
    BY DEF Taken
  <2> QED
    BY <2>1, ChosenIs
<1>4. /\ ce \in Seq(M) /\ Len(ce) = Cardinality(K[2])
      /\ \A i \in K[2] : ce[RankIn(K[2], i) + 1] = e[i]
  <2>1. K[2] = IF Call.planeOnly THEN {} ELSE Places(r, e)
    BY DEF Taken
  <2> HIDE DEF K
  <2> QED
    BY <1>2, <2>1
<1>5. /\ cc \in Seq(M) /\ Len(cc) = Cardinality(K[3])
      /\ \A i \in K[3] : cc[RankIn(K[3], i) + 1] = c[i]
  <2>1. K[3] = IF Call.planeOnly THEN {} ELSE Places(r, c)
    BY DEF Taken
  <2> HIDE DEF K
  <2> QED
    BY <1>2, <2>1
<1>6. Layout(r, f, e, c) = Parted(cf, ce, cc, a, b)
  BY Zenon DEF Layout, Parted
<1>7. a \in Nat /\ b \in Nat
      /\ a = Room(Call.fields, nx, 1) /\ b = Room(Call.fields, nx, 2) /\ Room(Call.fields, nx, 3) = 16
  <2>1. Call.fields \in Nat
    BY ExchangesAre DEF Call
  <2> DEFINE F == Call.fields
  <2> HIDE DEF F
  <2>4. F \in Nat /\ 1 \in 1..3 /\ 2 \in 1..3
    BY <2>1 DEF F
  <2>2. Room(F, nx, 1) \in Nat /\ Room(F, nx, 2) \in Nat
    BY <2>4, RoomIs, Zenon
  <2>3. F*PlaneSize = Room(F, nx, 1) /\ F*EdgeSize = Room(F, nx, 2) /\ Room(F, nx, 3) = 16
    BY DEF Room, PlaneSize, EdgeSize
  <2> QED
    BY <2>2, <2>3 DEF F
<1> HIDE DEF cf, ce, cc, a, b, K
<1> DEFINE s == Parted(cf, ce, cc, a, b)
<1>8. /\ s = [i \in 1..Len(cf) + Len(ce) + Len(cc) |-> s[i]]
      /\ \A q \in 0..Len(cf) - 1 : s[q + 1] = [at |-> a*q, msg |-> cf[q + 1]]
      /\ \A q \in 0..Len(ce) - 1 :
           s[Len(cf) + q + 1] = [at |-> a*Len(cf) + b*q, msg |-> ce[q + 1]]
      /\ \A q \in 0..Len(cc) - 1 :
           s[Len(cf) + Len(ce) + q + 1] =
             [at |-> a*Len(cf) + b*Len(ce) + 16*q, msg |-> cc[q + 1]]
  <2>1. cf \in Seq(M) /\ ce \in Seq(M) /\ cc \in Seq(M) /\ a \in Nat /\ b \in Nat
    BY <1>3, <1>4, <1>5, <1>7
  <2>2. PartedWell(s, cf, ce, cc, a, b)
    BY <2>1, PartedIs
  <2> HIDE DEF s
  <2> QED
    BY <2>2, Zenon DEF PartedWell
<1> HIDE DEF s
<1>9. s = [i \in 1..All(K) |-> s[i]]
  BY <1>3, <1>4, <1>5, <1>8 DEF All
<1>10. ASSUME NEW p \in 1..3, NEW i \in K[p]
       PROVE  s[MsgSlot(K, p, i)] =
                [at |-> Place(K, Call.fields, nx, p, i), msg |-> <<f, e, c>>[p][i]]
  <2> DEFINE q == RankIn(K[p], i)
  <2>1. /\ q \in 0..Cardinality(K[p]) - 1
        /\ \A x \in 1..3 : Cardinality(K[x]) \in Nat
        /\ Before(K, 1) = 0 /\ Before(K, 2) = Cardinality(K[1])
        /\ Before(K, 3) = Cardinality(K[1]) + Cardinality(K[2])
    BY <1>1, PartsCount
  <2>2. q \in Nat /\ a*q \in Nat /\ b*q \in Nat /\ a*Cardinality(K[1]) \in Nat
        /\ b*Cardinality(K[2]) \in Nat
    <3>1. q \in Nat /\ Cardinality(K[1]) \in Nat /\ Cardinality(K[2]) \in Nat
      BY <2>1
    <3>2. a \in Nat /\ b \in Nat
      BY <1>7
    <3>3. \A x, y \in Nat : x*y \in Nat
      OBVIOUS
    <3> QED
      BY <3>1, <3>2, <3>3, Zenon
  <2>3. MsgSlot(K, p, i) = Before(K, p) + q + 1
    BY DEF MsgSlot
  <2> HIDE DEF q
  <2>4. CASE p = 1
    <3>1. Place(K, Call.fields, nx, p, i) = a*q
      BY <1>7, <2>2, <2>4 DEF Place, q
    <3>2. s[q + 1] = [at |-> a*q, msg |-> f[i]]
      BY <1>3, <1>8, <2>1, <2>4 DEF q
    <3>3. MsgSlot(K, p, i) = q + 1
      BY <2>1, <2>2, <2>3, <2>4
    <3> QED
      BY <2>4, <3>1, <3>2, <3>3
  <2>5. CASE p = 2
    <3>1. Place(K, Call.fields, nx, p, i) = a*Len(cf) + b*q
      BY <1>3, <1>7, <2>2, <2>5 DEF Place, q
    <3>2. s[Len(cf) + q + 1] = [at |-> a*Len(cf) + b*q, msg |-> e[i]]
      BY <1>4, <1>8, <2>1, <2>5 DEF q
    <3>3. MsgSlot(K, p, i) = Len(cf) + q + 1
      BY <1>3, <2>1, <2>2, <2>3, <2>5
    <3> QED
      BY <2>5, <3>1, <3>2, <3>3
  <2>6. CASE p = 3
    <3>1. Place(K, Call.fields, nx, p, i) = a*Len(cf) + b*Len(ce) + 16*q
      BY <1>3, <1>4, <1>7, <2>2, <2>6 DEF Place, q
    <3>2. s[Len(cf) + Len(ce) + q + 1] = [at |-> a*Len(cf) + b*Len(ce) + 16*q, msg |-> c[i]]
      BY <1>5, <1>8, <2>1, <2>6 DEF q
    <3>3. MsgSlot(K, p, i) = Len(cf) + Len(ce) + q + 1
      BY <1>3, <1>4, <2>1, <2>2, <2>3, <2>6
    <3> QED
      BY <2>6, <3>1, <3>2, <3>3
  <2> QED
    BY <2>4, <2>5, <2>6
<1> QED
  BY <1>6, <1>9, <1>10, Zenon DEF Laid, s, K

-----------------------------------------------------------------------------
(* The values a message of a table stands for: those it counts, or one of  *)
(* every node it lists.                                                    *)
Listing(m, x) == "count" \notin DOMAIN m /\ m.nodes = [q \in 1..x |-> m.nodes[q]]
Counting(m, x) == "count" \in DOMAIN m /\ m.count = x

(* A loop of x nodes lists x, a loop within a loop x*x.                    *)
LEMMA LoopsList ==
  ASSUME NEW f, NEW d, NEW x \in Nat
  PROVE  /\ \A b, s : Listing(Msg(f, d, Line(b, x, s)), x)
         /\ \A b, o, s : Listing(Msg(f, d, Grid(b, x, o, x, s)), x*x)
<1>1. ASSUME NEW b, NEW s PROVE Listing(Msg(f, d, Line(b, x, s)), x)
  BY DEF Listing, Msg, Line
<1>2. ASSUME NEW b, NEW o, NEW s PROVE Listing(Msg(f, d, Grid(b, x, o, x, s)), x*x)
  BY DEF Listing, Msg, Grid
<1> QED
  BY <1>1, <1>2

(* Every face lists or counts d*d values.                                  *)
LEMMA FacesList ==
  ASSUME NEW d \in Nat
  PROVE  \A i \in 1..6 : /\ Listing(SendFaces(d, d, d)[i], d*d)
                         /\ Listing(SbnFaces(d, d, d)[i], d*d)
                         /\ Listing(SyncFaces(d, d, d)[i], d*d)
                         /\ Counting(RecvFaces(d, d, d)[i], d*d)
                         /\ Counting(MonoqFaces(d, d, d)[i], d*d)
<1>7. d*d \in Nat
  BY SMT
<1>1. /\ \A f, g, b, s : Listing(Msg(f, g, Line(b, d*d, s)), d*d)
      /\ \A f, g, b, o, s : Listing(Msg(f, g, Grid(b, d, o, d, s)), d*d)
  BY <1>7, LoopsList
<1>2. \A i \in 1..6 : Listing(SendFaces(d, d, d)[i], d*d)
  BY <1>1 DEF SendFaces
<1>3. \A i \in 1..6 : Listing(SbnFaces(d, d, d)[i], d*d)
  BY <1>1 DEF SbnFaces
<1>4. \A i \in 1..6 : Listing(SyncFaces(d, d, d)[i], d*d)
  BY <1>1 DEF SyncFaces
<1>5. \A i \in 1..6 : Counting(RecvFaces(d, d, d)[i], d*d)
  BY DEF RecvFaces, Counting, Post
<1>6. \A i \in 1..6 : Counting(MonoqFaces(d, d, d)[i], d*d)
  BY DEF MonoqFaces, Counting, Post
<1> QED
  BY <1>2, <1>3, <1>4, <1>5, <1>6

(* Every edge lists or counts d values.                                    *)
LEMMA EdgesList ==
  ASSUME NEW d \in Nat
  PROVE  /\ \A i \in 1..6 : /\ Listing(SendEdgesAlong(d, d, d)[i], d)
                            /\ Listing(SbnEdgesAlong(d, d, d)[i], d)
                            /\ Listing(SyncEdgesAlong(d, d, d)[i], d)
                            /\ Listing(SendEdgesAcross(d, d, d)[i], d)
                            /\ Listing(SbnEdgesAcross(d, d, d)[i], d)
                            /\ Listing(SyncEdgesAcross(d, d, d)[i], d)
         /\ \A i \in 1..12 : Counting(RecvEdges(d, d, d)[i], d)
<1>0. \A f, g, b, s : Listing(Msg(f, g, Line(b, d, s)), d)
  BY LoopsList
<1>1. \A i \in 1..6 : Listing(SendEdgesAlong(d, d, d)[i], d)
  BY <1>0 DEF SendEdgesAlong
<1>2. \A i \in 1..6 : Listing(SbnEdgesAlong(d, d, d)[i], d)
  BY <1>0 DEF SbnEdgesAlong
<1>3. \A i \in 1..6 : Listing(SyncEdgesAlong(d, d, d)[i], d)
  BY <1>0 DEF SyncEdgesAlong
<1>4. \A i \in 1..6 : Listing(SendEdgesAcross(d, d, d)[i], d)
  BY <1>0 DEF SendEdgesAcross
<1>5. \A i \in 1..6 : Listing(SbnEdgesAcross(d, d, d)[i], d)
  BY <1>0 DEF SbnEdgesAcross
<1>6. \A i \in 1..6 : Listing(SyncEdgesAcross(d, d, d)[i], d)
  BY <1>0 DEF SyncEdgesAcross
<1>7. \A i \in 1..12 : Counting(RecvEdges(d, d, d)[i], d)
  BY DEF RecvEdges, Counting, Post
<1> QED
  BY <1>1, <1>2, <1>3, <1>4, <1>5, <1>6, <1>7

(* Every corner lists or counts one value.                                 *)
LEMMA CornersList ==
  ASSUME NEW d
  PROVE  \A i \in 1..8 : /\ Listing(SendCorners(d, d, d)[i], 1)
                         /\ Listing(SbnCorners(d, d, d)[i], 1)
                         /\ Listing(SyncCorners(d, d, d)[i], 1)
                         /\ Counting(RecvCorners(d, d, d)[i], 1)
<1>1. \A f, g, b, s : Listing(Msg(f, g, Line(b, 1, s)), 1)
  BY LoopsList
<1>2. \A i \in 1..8 : Listing(SendCorners(d, d, d)[i], 1)
  BY <1>1 DEF SendCorners
<1>3. \A i \in 1..8 : Listing(SbnCorners(d, d, d)[i], 1)
  BY <1>1 DEF SbnCorners
<1>4. \A i \in 1..8 : Listing(SyncCorners(d, d, d)[i], 1)
  BY <1>1 DEF SyncCorners
<1>5. \A i \in 1..8 : Counting(RecvCorners(d, d, d)[i], 1)
  BY DEF RecvCorners, Counting, Post
<1> QED
  BY <1>2, <1>3, <1>4, <1>5

-----------------------------------------------------------------------------
(***************************************************************************)
(* The entries of the tables a rank takes part in: it awaits a message     *)
(* from every neighbour, but in an exchange without doRecv only from those *)
(* of larger rank; it gives to every neighbour, or those of smaller rank.  *)
(***************************************************************************)
Asked(k, p, flagged) == (p = 1 \/ ~Exchanges[k].planeOnly) /\ (flagged => Exchanges[k].flag)
Awaits(r, k, t) ==
  [p \in 1..3 |-> {i \in 1..Entries(p) : HasNeighbour(r, t, Dirs[p][i])
                                         /\ Asked(k, p, Earlier(Dirs[p][i]))}]
Gives(r, k, t) ==
  [p \in 1..3 |-> {i \in 1..Entries(p) : HasNeighbour(r, t, Dirs[p][i])
                                         /\ Asked(k, p, ~Earlier(Dirs[p][i]))}]
UnpackTable(k, d) ==
  CASE k \in {"mass", "force"} -> SbnTable(d)
    [] k = "posVel" -> SyncTable(d)
    [] k = "monoQ" -> MonoqTable(d)

(* Sets of entries of the three tables are finite sets of numbers.         *)
LEMMA EntriesAre ==
  ASSUME NEW S \in [1..3 -> SUBSET Int], \A p \in 1..3 : S[p] \subseteq 1..Entries(p)
  PROVE  Parts(S)
<1>1. ASSUME NEW p \in 1..3 PROVE IsFiniteSet(S[p])
  <2>1. Entries(p) \in Nat
    BY DEF Entries
  <2>2. IsFiniteSet(1..Entries(p))
    BY <2>1, FS_Interval
  <2> QED
    BY <2>2, FS_Subset
<1> QED
  BY <1>1 DEF Parts

(* What a rank awaits and what it gives are entries of the tables.         *)
LEMMA AwaitsAre ==
  ASSUME NEW r, NEW k, NEW t
  PROVE  /\ Parts(Awaits(r, k, t)) /\ \A p \in 1..3 : Awaits(r, k, t)[p] \subseteq 1..Entries(p)
         /\ Parts(Gives(r, k, t)) /\ \A p \in 1..3 : Gives(r, k, t)[p] \subseteq 1..Entries(p)
<1>0. \A p \in 1..3 : Entries(p) \in Nat
  BY DEF Entries
<1>1. Awaits(r, k, t) \in [1..3 -> SUBSET Int] /\ \A p \in 1..3 : Awaits(r, k, t)[p] \subseteq 1..Entries(p)
  BY <1>0 DEF Awaits
<1>2. Gives(r, k, t) \in [1..3 -> SUBSET Int] /\ \A p \in 1..3 : Gives(r, k, t)[p] \subseteq 1..Entries(p)
  BY <1>0 DEF Gives
<1> QED
  BY <1>1, <1>2, EntriesAre

(* LayoutLaid for tables given by their lengths.                           *)
LEMMA LayoutTuples ==
  ASSUME kind \in DOMAIN Exchanges, nx \in Nat, NEW r, NEW f, NEW e, NEW c,
         NEW lf \in Nat, NEW le \in Nat, NEW lc \in Nat, Tuple(f, lf), Tuple(e, le), Tuple(c, lc)
  PROVE  Laid(Layout(r, f, e, c), Taken(r, f, e, c), <<f, e, c>>, Exchanges[kind].fields, nx)
<1> DEFINE M == {f[i] : i \in 1..lf} \cup {e[i] : i \in 1..le} \cup {c[i] : i \in 1..lc}
<1>1. /\ \A i \in 1..lf : f[i] \in M
      /\ \A i \in 1..le : e[i] \in M
      /\ \A i \in 1..lc : c[i] \in M
  OBVIOUS
<1> HIDE DEF M
<1>2. f \in Seq(M)
  BY <1>1, TupleIn
<1>3. e \in Seq(M)
  BY <1>1, TupleIn
<1>4. c \in Seq(M)
  BY <1>1, TupleIn
<1>5. Laid(Layout(r, f, e, c), Taken(r, f, e, c), <<f, e, c>>, Call.fields, nx)
  BY <1>2, <1>3, <1>4, LayoutLaid
<1> QED
  BY <1>5, Zenon DEF Call

(* Tables that list the directions in their order, with x values each.     *)
Listed(T) ==
  /\ T = <<T[1], T[2], T[3]>>
  /\ \A p \in 1..3 : /\ Tuple(T[p], Entries(p))
                     /\ \A i \in 1..Entries(p) : T[p][i].dir = Dirs[p][i]

(* The tables of CommRecv list the directions in their order, flag the     *)
(* smaller ranks, and count what a message holds.                          *)
LEMMA RecvListed ==
  ASSUME NEW d \in Nat
  PROVE  LET T == RecvTable(d)
         IN /\ Listed(T)
            /\ \A p \in 1..3 : \A i \in 1..Entries(p) :
                 (T[p][i].flagged <=> Earlier(Dirs[p][i])) /\ Counting(T[p][i], Extent(p, d))
<1> DEFINE f == RecvFaces(d, d, d)
<1> DEFINE e == RecvEdges(d, d, d)
<1> DEFINE c == RecvCorners(d, d, d)
<1>1. /\ Tuple(f, 6) /\ \A i \in 1..6 : f[i].dir = FaceDirs[i]
      /\ \A i \in 1..6 : f[i].flagged <=> Earlier(FaceDirs[i])
      /\ \A i \in 1..6 : Counting(f[i], d*d)
  BY RecvFacesAre, FacesList
<1>2. /\ Tuple(e, 12) /\ \A i \in 1..12 : e[i].dir = EdgeDirs[i]
      /\ \A i \in 1..12 : e[i].flagged <=> Earlier(EdgeDirs[i])
      /\ \A i \in 1..12 : Counting(e[i], d)
  BY RecvEdgesAre, EdgesList
<1>3. /\ Tuple(c, 8) /\ \A i \in 1..8 : c[i].dir = CornerDirs[i]
      /\ \A i \in 1..8 : c[i].flagged <=> Earlier(CornerDirs[i])
      /\ \A i \in 1..8 : Counting(c[i], 1)
  BY RecvCornersAre, CornersList
<1> HIDE DEF f, e, c
<1> DEFINE T == <<f, e, c>>
<1>4. T[1] = f /\ T[2] = e /\ T[3] = c /\ T = <<T[1], T[2], T[3]>>
  OBVIOUS
<1>5. RecvTable(d) = T
  BY DEF RecvTable, f, e, c
<1> HIDE DEF T
<1>6. /\ Dirs[1] = FaceDirs /\ Dirs[2] = EdgeDirs /\ Dirs[3] = CornerDirs
      /\ Entries(1) = 6 /\ Entries(2) = 12 /\ Entries(3) = 8
      /\ Extent(1, d) = d*d /\ Extent(2, d) = d /\ Extent(3, d) = 1
  BY DEF Dirs, Entries, Extent
<1>7. \A p \in 1..3 : p = 1 \/ p = 2 \/ p = 3
  OBVIOUS
<1>8. Listed(T)
  <2>1. ASSUME NEW p \in 1..3
        PROVE  Tuple(T[p], Entries(p)) /\ \A i \in 1..Entries(p) : T[p][i].dir = Dirs[p][i]
    <3>1. CASE p = 1
      BY <1>1, <1>4, <1>6, <3>1, Zenon
    <3>2. CASE p = 2
      BY <1>2, <1>4, <1>6, <3>2, Zenon
    <3>3. CASE p = 3
      BY <1>3, <1>4, <1>6, <3>3, Zenon
    <3> QED
      BY <1>7, <3>1, <3>2, <3>3
  <2> QED
    BY <1>4, <2>1, Zenon DEF Listed
<1>9. ASSUME NEW p \in 1..3, NEW i \in 1..Entries(p)
      PROVE  (T[p][i].flagged <=> Earlier(Dirs[p][i])) /\ Counting(T[p][i], Extent(p, d))
  <2>1. CASE p = 1
    BY <1>1, <1>4, <1>6, <2>1, Zenon
  <2>2. CASE p = 2
    BY <1>2, <1>4, <1>6, <2>2, Zenon
  <2>3. CASE p = 3
    BY <1>3, <1>4, <1>6, <2>3, Zenon
  <2> QED
    BY <1>7, <2>1, <2>2, <2>3
<1> QED
  BY <1>5, <1>8, <1>9

(* Directions and entries, table by table.                                 *)
LEMMA PartsOf ==
  ASSUME NEW d
  PROVE  /\ Dirs[1] = FaceDirs /\ Dirs[2] = EdgeDirs /\ Dirs[3] = CornerDirs
         /\ Entries(1) = 6 /\ Entries(2) = 12 /\ Entries(3) = 8
         /\ Extent(1, d) = d*d /\ Extent(2, d) = d /\ Extent(3, d) = 1
         /\ \A p \in 1..3 : p = 1 \/ p = 2 \/ p = 3
  BY DEF Dirs, Entries, Extent

ListsAs(T, S, d) ==
  /\ Listed(T)
  /\ \A p \in 1..3 : \A i \in 1..Entries(p) :
       T[p][i].nodes = S[p][i].nodes /\ Listing(T[p][i], Extent(p, d))

(* The tables of CommSend, CommSBN and CommSyncPosVel, part by part.       *)
LEMMA ThreeListed ==
  ASSUME NEW d, NEW f, NEW e, NEW c, NEW g, NEW h, NEW k,
         Agrees(f, g, FaceDirs, 6), Agrees(e, h, EdgeDirs, 12), Agrees(c, k, CornerDirs, 8),
         \A i \in 1..6 : Listing(f[i], d*d), \A i \in 1..12 : Listing(e[i], d),
         \A i \in 1..8 : Listing(c[i], 1)
  PROVE  ListsAs(<<f, e, c>>, <<g, h, k>>, d)
<1> DEFINE T == <<f, e, c>>
<1> DEFINE S == <<g, h, k>>
<1>1. T[1] = f /\ T[2] = e /\ T[3] = c /\ T = <<T[1], T[2], T[3]>>
      /\ S[1] = g /\ S[2] = h /\ S[3] = k
  OBVIOUS
<1> HIDE DEF T, S
<1>2. /\ Dirs[1] = FaceDirs /\ Dirs[2] = EdgeDirs /\ Dirs[3] = CornerDirs
      /\ Entries(1) = 6 /\ Entries(2) = 12 /\ Entries(3) = 8
      /\ Extent(1, d) = d*d /\ Extent(2, d) = d /\ Extent(3, d) = 1
      /\ \A p \in 1..3 : p = 1 \/ p = 2 \/ p = 3
  BY PartsOf
<1>3. ASSUME NEW p \in 1..3
      PROVE  /\ Agrees(T[p], S[p], Dirs[p], Entries(p))
             /\ \A i \in 1..Entries(p) : Listing(T[p][i], Extent(p, d))
  <2>1. CASE p = 1
    BY <1>1, <1>2, <2>1, Zenon
  <2>2. CASE p = 2
    BY <1>1, <1>2, <2>2, Zenon
  <2>3. CASE p = 3
    BY <1>1, <1>2, <2>3, Zenon
  <2> QED
    BY <1>2, <2>1, <2>2, <2>3
<1> QED
  BY <1>1, <1>3, Zenon DEF ListsAs, Listed, Agrees, T, S

(* The edges of the three functions, along and across joined.              *)
LEMMA EdgesJoin ==
  ASSUME NEW i \in 1..12
  PROVE  \/ (i \in 1..6 /\ i <= 6 /\ EdgeDirs[i] = AlongDirs[i])
         \/ (i - 6 \in 1..6 /\ ~(i <= 6) /\ EdgeDirs[i] = AcrossDirs[i - 6])
<1>1. \A j \in 1..6 : EdgeDirs[j] = AlongDirs[j]
  BY DEF EdgeDirs, AlongDirs
<1>2. \A j \in 1..6 : EdgeDirs[j + 6] = AcrossDirs[j]
  BY DEF EdgeDirs, AcrossDirs
<1>3. CASE i <= 6
  BY <1>1, <1>3
<1>4. CASE ~(i <= 6)
  <2>1. i - 6 \in 1..6 /\ (i - 6) + 6 = i
    BY <1>4
  <2> QED
    BY <1>2, <1>4, <2>1
<1> QED
  BY <1>3, <1>4

(* The tables of CommSend, CommSBN and CommSyncPosVel list the same nodes. *)
LEMMA NodesListed ==
  ASSUME NEW d \in Nat
  PROVE  /\ ListsAs(SendTable(d), SendTable(d), d)
         /\ ListsAs(SbnTable(d), SendTable(d), d)
         /\ ListsAs(SyncTable(d), SendTable(d), d)
<1> DEFINE a == SendEdgesAlong(d, d, d)
<1> DEFINE b == SendEdgesAcross(d, d, d)
<1>1. /\ Agrees(SendFaces(d, d, d), SendFaces(d, d, d), FaceDirs, 6)
      /\ Agrees(SbnFaces(d, d, d), SendFaces(d, d, d), FaceDirs, 6)
      /\ Agrees(SyncFaces(d, d, d), SendFaces(d, d, d), FaceDirs, 6)
  BY FacesAgree
<1>2. /\ Agrees(SendCorners(d, d, d), SendCorners(d, d, d), CornerDirs, 8)
      /\ Agrees(SbnCorners(d, d, d), SendCorners(d, d, d), CornerDirs, 8)
      /\ Agrees(SyncCorners(d, d, d), SendCorners(d, d, d), CornerDirs, 8)
  BY CornersAgree
<1>3. ASSUME NEW s, NEW t, Agrees(s, a, AlongDirs, 6), Agrees(t, b, AcrossDirs, 6),
             \A i \in 1..6 : Listing(s[i], d) /\ Listing(t[i], d)
      PROVE  /\ Agrees(s \o t, a \o b, EdgeDirs, 12)
             /\ \A i \in 1..12 : Listing((s \o t)[i], d)
  <2>1. Agrees(a, a, AlongDirs, 6) /\ Agrees(b, b, AcrossDirs, 6)
    BY EdgesAlongAgree, EdgesAcrossAgree
  <2> HIDE DEF a, b
  <2> DEFINE u == s \o t
  <2>2. Agrees(u, a \o b, EdgeDirs, 12) /\ \A i \in 1..12 : u[i] = IF i <= 6 THEN s[i] ELSE t[i - 6]
    BY <1>3, <2>1, JoinedEdges
  <2> HIDE DEF u
  <2>3. ASSUME NEW i \in 1..12 PROVE Listing(u[i], d)
    <3>1. (i \in 1..6 /\ i <= 6) \/ (i - 6 \in 1..6 /\ ~(i <= 6))
      OBVIOUS
    <3> QED
      BY <1>3, <2>2, <3>1
  <2> QED
    BY <2>2, <2>3 DEF u
<1>4. /\ Agrees(a \o b, a \o b, EdgeDirs, 12) /\ \A i \in 1..12 : Listing((a \o b)[i], d)
  <2>1. Agrees(a, a, AlongDirs, 6) /\ Agrees(b, b, AcrossDirs, 6)
    BY EdgesAlongAgree, EdgesAcrossAgree
  <2>2. \A i \in 1..6 : Listing(a[i], d) /\ Listing(b[i], d)
    BY EdgesList
  <2> HIDE DEF a, b
  <2> QED
    BY <1>3, <2>1, <2>2
<1>5. /\ Agrees(SbnEdgesAlong(d, d, d) \o SbnEdgesAcross(d, d, d), a \o b, EdgeDirs, 12)
      /\ \A i \in 1..12 : Listing((SbnEdgesAlong(d, d, d) \o SbnEdgesAcross(d, d, d))[i], d)
  <2> DEFINE s == SbnEdgesAlong(d, d, d)
  <2> DEFINE t == SbnEdgesAcross(d, d, d)
  <2>1. Agrees(s, a, AlongDirs, 6) /\ Agrees(t, b, AcrossDirs, 6)
    BY EdgesAlongAgree, EdgesAcrossAgree
  <2>2. \A i \in 1..6 : Listing(s[i], d) /\ Listing(t[i], d)
    BY EdgesList
  <2> HIDE DEF a, b, s, t
  <2>3. Agrees(s \o t, a \o b, EdgeDirs, 12) /\ \A i \in 1..12 : Listing((s \o t)[i], d)
    BY <1>3, <2>1, <2>2
  <2> QED
    BY <2>3 DEF s, t
<1>6. /\ Agrees(SyncEdgesAlong(d, d, d) \o SyncEdgesAcross(d, d, d), a \o b, EdgeDirs, 12)
      /\ \A i \in 1..12 : Listing((SyncEdgesAlong(d, d, d) \o SyncEdgesAcross(d, d, d))[i], d)
  <2> DEFINE s == SyncEdgesAlong(d, d, d)
  <2> DEFINE t == SyncEdgesAcross(d, d, d)
  <2>1. Agrees(s, a, AlongDirs, 6) /\ Agrees(t, b, AcrossDirs, 6)
    BY EdgesAlongAgree, EdgesAcrossAgree
  <2>2. \A i \in 1..6 : Listing(s[i], d) /\ Listing(t[i], d)
    BY EdgesList
  <2> HIDE DEF a, b, s, t
  <2>3. Agrees(s \o t, a \o b, EdgeDirs, 12) /\ \A i \in 1..12 : Listing((s \o t)[i], d)
    BY <1>3, <2>1, <2>2
  <2> QED
    BY <2>3 DEF s, t
<1>7. \A i \in 1..6 : /\ Listing(SendFaces(d, d, d)[i], d*d) /\ Listing(SbnFaces(d, d, d)[i], d*d)
                      /\ Listing(SyncFaces(d, d, d)[i], d*d)
  BY FacesList
<1>8. \A i \in 1..8 : /\ Listing(SendCorners(d, d, d)[i], 1) /\ Listing(SbnCorners(d, d, d)[i], 1)
                      /\ Listing(SyncCorners(d, d, d)[i], 1)
  BY CornersList
<1>9. ListsAs(SendTable(d), SendTable(d), d)
  BY <1>1, <1>2, <1>4, <1>7, <1>8, ThreeListed DEF SendTable
<1>10. ListsAs(SbnTable(d), SendTable(d), d)
  BY <1>1, <1>2, <1>5, <1>7, <1>8, ThreeListed DEF SendTable, SbnTable
<1>11. ListsAs(SyncTable(d), SendTable(d), d)
  BY <1>1, <1>2, <1>6, <1>7, <1>8, ThreeListed DEF SendTable, SyncTable
<1> QED
  BY <1>9, <1>10, <1>11

JoinAt(u, s, t, i) ==
  \/ (i \in 1..6 /\ u[i] = s[i] /\ EdgeDirs[i] = AlongDirs[i])
  \/ (i - 6 \in 1..6 /\ u[i] = t[i - 6] /\ EdgeDirs[i] = AcrossDirs[i - 6])

(* An entry of the joined edges is one along or one across.                *)
LEMMA JoinedAt ==
  ASSUME NEW d, NEW s, NEW t,
         Agrees(s, SendEdgesAlong(d, d, d), AlongDirs, 6), Agrees(t, SendEdgesAcross(d, d, d), AcrossDirs, 6)
  PROVE  \A i \in 1..12 : JoinAt(s \o t, s, t, i)
<1> DEFINE a == SendEdgesAlong(d, d, d)
<1> DEFINE b == SendEdgesAcross(d, d, d)
<1>1. Agrees(a, a, AlongDirs, 6) /\ Agrees(b, b, AcrossDirs, 6)
  BY EdgesAlongAgree, EdgesAcrossAgree
<1>2. Agrees(s, a, AlongDirs, 6) /\ Agrees(t, b, AcrossDirs, 6)
  OBVIOUS
<1> HIDE DEF a, b
<1> DEFINE u == s \o t
<1>3. \A i \in 1..12 : u[i] = IF i <= 6 THEN s[i] ELSE t[i - 6]
  BY <1>1, <1>2, JoinedEdges
<1> HIDE DEF u
<1>4. \A i \in 1..12 : JoinAt(u, s, t, i)
  BY <1>3, EdgesJoin DEF JoinAt
<1> QED
  BY <1>4 DEF u

(* CommSend flags the larger ranks, CommSyncPosVel the smaller ones,       *)
(* CommSBN none.                                                           *)
LEMMA FlagsAre ==
  ASSUME NEW d, NEW p \in 1..3, NEW i \in 1..Entries(p)
  PROVE  /\ SendTable(d)[p][i].flagged <=> ~Earlier(Dirs[p][i])
         /\ ~SbnTable(d)[p][i].flagged
         /\ SyncTable(d)[p][i].flagged <=> Earlier(Dirs[p][i])
<1>0. /\ Dirs[1] = FaceDirs /\ Dirs[2] = EdgeDirs /\ Dirs[3] = CornerDirs
      /\ Entries(1) = 6 /\ Entries(2) = 12 /\ Entries(3) = 8
      /\ p = 1 \/ p = 2 \/ p = 3
  BY PartsOf
<1>1. CASE p = 1
  <2>1. /\ SendFaces(d, d, d)[i].flagged <=> ~Earlier(FaceDirs[i])
        /\ ~SbnFaces(d, d, d)[i].flagged
        /\ SyncFaces(d, d, d)[i].flagged <=> Earlier(FaceDirs[i])
    BY <1>0, <1>1, FacesAgree
  <2>2. /\ SendTable(d)[p] = SendFaces(d, d, d) /\ SbnTable(d)[p] = SbnFaces(d, d, d)
        /\ SyncTable(d)[p] = SyncFaces(d, d, d)
    BY <1>1 DEF SendTable, SbnTable, SyncTable
  <2> QED
    BY <1>0, <1>1, <2>1, <2>2
<1>2. CASE p = 2
  <2> DEFINE a == SendEdgesAlong(d, d, d)
  <2> DEFINE b == SendEdgesAcross(d, d, d)
  <2> DEFINE s == SbnEdgesAlong(d, d, d)
  <2> DEFINE t == SbnEdgesAcross(d, d, d)
  <2> DEFINE v == SyncEdgesAlong(d, d, d)
  <2> DEFINE w == SyncEdgesAcross(d, d, d)
  <2>1. /\ SendTable(d)[p] = a \o b /\ SbnTable(d)[p] = s \o t /\ SyncTable(d)[p] = v \o w
        /\ i \in 1..12 /\ Dirs[p] = EdgeDirs
    <3>1. /\ SendTable(d)[2] = a \o b /\ SbnTable(d)[2] = s \o t /\ SyncTable(d)[2] = v \o w
      <4> DEFINE x == a \o b
      <4> DEFINE y == s \o t
      <4> DEFINE z == v \o w
      <4>1. /\ SendTable(d) = <<SendFaces(d, d, d), x, SendCorners(d, d, d)>>
            /\ SbnTable(d) = <<SbnFaces(d, d, d), y, SbnCorners(d, d, d)>>
            /\ SyncTable(d) = <<SyncFaces(d, d, d), z, SyncCorners(d, d, d)>>
        BY Zenon DEF SendTable, SbnTable, SyncTable
      <4> HIDE DEF x, y, z
      <4>2. /\ SendTable(d)[2] = x /\ SbnTable(d)[2] = y /\ SyncTable(d)[2] = z
        BY <4>1
      <4> QED
        BY <4>2, Zenon DEF x, y, z
    <3> QED
      BY <1>0, <1>2, <3>1, Zenon
  <2>2. /\ Agrees(a, a, AlongDirs, 6) /\ Agrees(b, b, AcrossDirs, 6)
        /\ Agrees(s, a, AlongDirs, 6) /\ Agrees(t, b, AcrossDirs, 6)
        /\ Agrees(v, a, AlongDirs, 6) /\ Agrees(w, b, AcrossDirs, 6)
    BY EdgesAlongAgree, EdgesAcrossAgree
  <2>3. /\ \A j \in 1..6 : a[j].flagged <=> ~Earlier(AlongDirs[j])
        /\ \A j \in 1..6 : b[j].flagged <=> ~Earlier(AcrossDirs[j])
        /\ \A j \in 1..6 : ~s[j].flagged /\ ~t[j].flagged
        /\ \A j \in 1..6 : v[j].flagged <=> Earlier(AlongDirs[j])
        /\ \A j \in 1..6 : w[j].flagged <=> Earlier(AcrossDirs[j])
    BY EdgesAlongAgree, EdgesAcrossAgree
  <2>4. JoinAt(a \o b, a, b, i)
    BY <2>1, <2>2, JoinedAt
  <2>8. JoinAt(s \o t, s, t, i)
    BY <2>1, <2>2, JoinedAt
  <2>9. JoinAt(v \o w, v, w, i)
    BY <2>1, <2>2, JoinedAt
  <2> HIDE DEF a, b, s, t, v, w
  <2>5. SendTable(d)[p][i].flagged <=> ~Earlier(Dirs[p][i])
    BY <2>1, <2>3, <2>4, Zenon DEF JoinAt
  <2>6. ~SbnTable(d)[p][i].flagged
    BY <2>1, <2>3, <2>8, Zenon DEF JoinAt
  <2>7. SyncTable(d)[p][i].flagged <=> Earlier(Dirs[p][i])
    BY <2>1, <2>3, <2>9, Zenon DEF JoinAt
  <2> QED
    BY <2>5, <2>6, <2>7
<1>3. CASE p = 3
  <2>1. /\ SendCorners(d, d, d)[i].flagged <=> ~Earlier(CornerDirs[i])
        /\ ~SbnCorners(d, d, d)[i].flagged
        /\ SyncCorners(d, d, d)[i].flagged <=> Earlier(CornerDirs[i])
    BY <1>0, <1>3, CornersAgree
  <2>2. /\ SendTable(d)[p] = SendCorners(d, d, d) /\ SbnTable(d)[p] = SbnCorners(d, d, d)
        /\ SyncTable(d)[p] = SyncCorners(d, d, d)
    BY <1>3 DEF SendTable, SbnTable, SyncTable
  <2> QED
    BY <1>0, <1>3, <2>1, <2>2
<1> QED
  BY <1>0, <1>1, <1>2, <1>3

(* The places of a table that lists the directions in their order.         *)
Wanted(r, k, t, T, p) ==
  {i \in 1..Entries(p) : HasNeighbour(r, t, Dirs[p][i]) /\ Asked(k, p, T[p][i].flagged)}

(* A layout takes the places wanted: those with a neighbour that the       *)
(* arguments of the call do not exclude.                                   *)
LEMMA TakenIs ==
  ASSUME kind \in DOMAIN Exchanges, NEW r, NEW T, Listed(T), NEW p \in 1..3
  PROVE  Taken(r, T[1], T[2], T[3])[p] = Wanted(r, kind, tp, T, p)
<1>1. Tuple(T[p], Entries(p)) /\ \A i \in 1..Entries(p) : T[p][i].dir = Dirs[p][i]
  BY DEF Listed
<1>2. DOMAIN T[p] = 1..Entries(p)
  BY <1>1 DEF Tuple
<1>3. Places(r, T[p]) = {i \in 1..Entries(p) : HasNeighbour(r, tp, Dirs[p][i])
                                               /\ (T[p][i].flagged => Exchanges[kind].flag)}
  BY <1>1, <1>2 DEF Places, Exchanged, Call
<1>4. Taken(r, T[1], T[2], T[3])[p] =
        IF p = 1 \/ ~Exchanges[kind].planeOnly THEN Places(r, T[p]) ELSE {}
  BY DEF Taken, Call
<1> QED
  BY <1>3, <1>4 DEF Asked, Wanted

(* So a table that lists the directions is laid out by the places wanted.  *)
LEMMA LaidAs ==
  ASSUME kind \in DOMAIN Exchanges, nx \in Nat, NEW r, NEW T, Listed(T),
         NEW K, K = [p \in 1..3 |-> K[p]],
         \A p \in 1..3 : K[p] = Wanted(r, kind, tp, T, p)
  PROVE  Laid(Layout(r, T[1], T[2], T[3]), K, T, Exchanges[kind].fields, nx)
<1> DEFINE f == T[1]
<1> DEFINE e == T[2]
<1> DEFINE c == T[3]
<1>1. T = <<f, e, c>> /\ Tuple(f, 6) /\ Tuple(e, 12) /\ Tuple(c, 8)
  BY PartsOf DEF Listed
<1>2. ASSUME NEW p \in 1..3 PROVE Taken(r, f, e, c)[p] = K[p]
  <2>1. Taken(r, f, e, c)[p] = Wanted(r, kind, tp, T, p)
    BY TakenIs
  <2> QED
    BY <2>1, Zenon
<1>3. Taken(r, f, e, c) = K
  <2>1. Taken(r, f, e, c) = [p \in 1..3 |-> Taken(r, f, e, c)[p]]
    BY DEF Taken
  <2> QED
    BY <1>2, <2>1, Zenon
<1> HIDE DEF f, e, c
<1>4. Laid(Layout(r, f, e, c), Taken(r, f, e, c), <<f, e, c>>, Exchanges[kind].fields, nx)
  BY <1>1, LayoutTuples
<1> QED
  BY <1>1, <1>3, <1>4, Zenon DEF f, e, c

(* The edge of the nodes or elements exchanged is a number.                *)
LEMMA DIs ==
  ASSUME nx \in Nat
  PROVE  D \in Nat
  BY DEF D

(* CommRecv lays out what the rank awaits.                                 *)
LEMMA RecvLaid ==
  ASSUME kind \in DOMAIN Exchanges, nx \in Nat, NEW r
  PROVE  Laid(Layout(r, RecvFaces(D, D, D), RecvEdges(D, D, D), RecvCorners(D, D, D)),
              Awaits(r, kind, tp), RecvTable(D), Exchanges[kind].fields, nx)
<1> DEFINE T == RecvTable(D)
<1> DEFINE K == Awaits(r, kind, tp)
<1>0. D \in Nat
  BY DIs
<1>1. Listed(T) /\ \A p \in 1..3 : \A i \in 1..Entries(p) : T[p][i].flagged <=> Earlier(Dirs[p][i])
  BY <1>0, RecvListed
<1>2. T[1] = RecvFaces(D, D, D) /\ T[2] = RecvEdges(D, D, D) /\ T[3] = RecvCorners(D, D, D)
  BY DEF RecvTable
<1> HIDE DEF T
<1>3. K = [p \in 1..3 |-> K[p]]
  BY DEF Awaits
<1>4. \A p \in 1..3 : K[p] = Wanted(r, kind, tp, T, p)
  BY <1>1 DEF Awaits, Asked, Wanted
<1> HIDE DEF K
<1>5. Laid(Layout(r, T[1], T[2], T[3]), K, T, Exchanges[kind].fields, nx)
  BY <1>1, <1>3, <1>4, LaidAs
<1> QED
  BY <1>2, <1>5, Zenon DEF T, K

(* CommSend lays out what the rank gives.                                  *)
LEMMA SendLaid ==
  ASSUME kind \in DOMAIN Exchanges, nx \in Nat, NEW r
  PROVE  Laid(Layout(r, SendFaces(D, D, D), SendEdgesAlong(D, D, D) \o SendEdgesAcross(D, D, D),
                     SendCorners(D, D, D)),
              Gives(r, kind, tp), SendTable(D), Exchanges[kind].fields, nx)
<1> DEFINE T == SendTable(D)
<1> DEFINE e == SendEdgesAlong(D, D, D) \o SendEdgesAcross(D, D, D)
<1> DEFINE K == Gives(r, kind, tp)
<1>0. D \in Nat
  BY DIs
<1>1. Listed(T) /\ \A p \in 1..3 : \A i \in 1..Entries(p) : T[p][i].flagged <=> ~Earlier(Dirs[p][i])
  <2>1. Listed(T)
    BY <1>0, NodesListed DEF ListsAs
  <2>2. \A p \in 1..3 : \A i \in 1..Entries(p) : T[p][i].flagged <=> ~Earlier(Dirs[p][i])
    BY FlagsAre
  <2> QED
    BY <2>1, <2>2
<1>2. T[1] = SendFaces(D, D, D) /\ T[2] = e /\ T[3] = SendCorners(D, D, D)
  <2>1. T = <<SendFaces(D, D, D), e, SendCorners(D, D, D)>>
    BY DEF SendTable
  <2> HIDE DEF T, e
  <2> QED
    BY <2>1
<1> HIDE DEF T, e
<1>3. K = [p \in 1..3 |-> K[p]]
  BY DEF Gives
<1>4. \A p \in 1..3 : K[p] = Wanted(r, kind, tp, T, p)
  BY <1>1 DEF Gives, Asked, Wanted
<1> HIDE DEF K
<1>5. Laid(Layout(r, T[1], T[2], T[3]), K, T, Exchanges[kind].fields, nx)
  BY <1>1, <1>3, <1>4, LaidAs
<1> QED
  BY <1>2, <1>5, Zenon DEF T, K, e

(* What is unpacked is what was awaited.                                   *)
LEMMA UnpackLaid ==
  ASSUME kind \in DOMAIN Exchanges, nx \in Nat, NEW r
  PROVE  /\ Laid(Unpacked(r), Awaits(r, kind, tp), UnpackTable(kind, D), Exchanges[kind].fields, nx)
         /\ \A p \in 1..3 : \A i \in Awaits(r, kind, tp)[p] :
              /\ UnpackTable(kind, D)[p][i].dir = Dirs[p][i]
              /\ \/ Listing(UnpackTable(kind, D)[p][i], Extent(p, D))
                 \/ Counting(UnpackTable(kind, D)[p][i], Extent(p, D))
<1> DEFINE T == UnpackTable(kind, D)
<1> DEFINE K == Awaits(r, kind, tp)
<1>0. /\ D \in Nat /\ kind \in {"mass", "force", "posVel", "monoQ"}
      /\ (Exchanges[kind].flag <=> kind # "posVel") /\ (Exchanges[kind].planeOnly <=> kind = "monoQ")
  BY DIs, ExchangesAre
<1>1. K = [p \in 1..3 |-> K[p]] /\ \A p \in 1..3 : K[p] \subseteq 1..Entries(p)
  BY AwaitsAre DEF Awaits
<1>2. CASE kind \in {"mass", "force"}
  <2>1. T = SbnTable(D)
    BY <1>2 DEF UnpackTable
  <2>2. ListsAs(T, SendTable(D), D) /\ \A p \in 1..3 : \A i \in 1..Entries(p) : ~T[p][i].flagged
    BY <1>0, <2>1, NodesListed, FlagsAre
  <2> DEFINE e == SbnEdgesAlong(D, D, D) \o SbnEdgesAcross(D, D, D)
  <2>3. Unpacked(r) = Layout(r, SbnFaces(D, D, D), e, SbnCorners(D, D, D))
    BY <1>2 DEF Unpacked, Summing
  <2>4. SbnTable(D) = <<SbnFaces(D, D, D), e, SbnCorners(D, D, D)>>
    BY Zenon DEF SbnTable
  <2> HIDE DEF e, T
  <2>5. T[1] = SbnFaces(D, D, D) /\ T[2] = e /\ T[3] = SbnCorners(D, D, D)
    BY <2>1, <2>4
  <2>6. \A p \in 1..3 : K[p] = Wanted(r, kind, tp, T, p)
    BY <1>0, <1>2, <2>2 DEF Awaits, Asked, Wanted
  <2> HIDE DEF K
  <2>7. Laid(Layout(r, T[1], T[2], T[3]), K, T, Exchanges[kind].fields, nx)
    BY <1>1, <2>2, <2>6, LaidAs DEF ListsAs
  <2>8. \A p \in 1..3 : \A i \in K[p] : T[p][i].dir = Dirs[p][i] /\ Listing(T[p][i], Extent(p, D))
    BY <1>1, <2>2 DEF ListsAs, Listed
  <2> QED
    BY <2>3, <2>5, <2>7, <2>8, Zenon DEF T, K
<1>3. CASE kind = "posVel"
  <2>1. T = SyncTable(D)
    BY <1>3 DEF UnpackTable
  <2>2. /\ ListsAs(T, SendTable(D), D)
        /\ \A p \in 1..3 : \A i \in 1..Entries(p) : T[p][i].flagged <=> Earlier(Dirs[p][i])
    BY <1>0, <2>1, NodesListed, FlagsAre
  <2> DEFINE e == SyncEdgesAlong(D, D, D) \o SyncEdgesAcross(D, D, D)
  <2>3. Unpacked(r) = Layout(r, SyncFaces(D, D, D), e, SyncCorners(D, D, D))
    BY <1>3 DEF Unpacked, Summing
  <2>4. SyncTable(D) = <<SyncFaces(D, D, D), e, SyncCorners(D, D, D)>>
    BY Zenon DEF SyncTable
  <2> HIDE DEF e, T
  <2>5. T[1] = SyncFaces(D, D, D) /\ T[2] = e /\ T[3] = SyncCorners(D, D, D)
    BY <2>1, <2>4
  <2>6. \A p \in 1..3 : K[p] = Wanted(r, kind, tp, T, p)
    BY <1>0, <1>3, <2>2 DEF Awaits, Asked, Wanted
  <2> HIDE DEF K
  <2>7. Laid(Layout(r, T[1], T[2], T[3]), K, T, Exchanges[kind].fields, nx)
    BY <1>1, <2>2, <2>6, LaidAs DEF ListsAs
  <2>8. \A p \in 1..3 : \A i \in K[p] : T[p][i].dir = Dirs[p][i] /\ Listing(T[p][i], Extent(p, D))
    BY <1>1, <2>2 DEF ListsAs, Listed
  <2> QED
    BY <2>3, <2>5, <2>7, <2>8, Zenon DEF T, K
<1>4. CASE kind = "monoQ"
  <2> DEFINE f == MonoqFaces(D, D, D)
  <2>1. T = <<f, << >>, << >>>>
    BY <1>4 DEF UnpackTable, MonoqTable
  <2>2. Unpacked(r) = Layout(r, f, << >>, << >>)
    BY <1>4 DEF Unpacked, Summing
  <2>3. /\ \A i \in 1..6 : f[i].dir = FaceDirs[i]
        /\ \A i \in 1..6 : ~f[i].flagged
        /\ Tuple(f, 6)
    <3>1. \A i \in 1..6 : f[i].dir = FaceDirs[i]
      BY DEF MonoqFaces, Post, FaceDirs
    <3>2. \A i \in 1..6 : ~f[i].flagged
      BY DEF MonoqFaces, Post, Always
    <3>3. Tuple(f, 6)
      BY DEF MonoqFaces, Tuple
    <3> QED
      BY <3>1, <3>2, <3>3
  <2>4. \A i \in 1..6 : Counting(f[i], D*D)
    BY <1>0, FacesList
  <2>5. Tuple(<< >>, 0)
    BY DEF Tuple
  <2> HIDE DEF f, T
  <2>6. Laid(Layout(r, f, << >>, << >>), Taken(r, f, << >>, << >>), <<f, << >>, << >>>>,
             Exchanges[kind].fields, nx)
    BY <2>3, <2>5, LayoutTuples
  <2>7. Taken(r, f, << >>, << >>) = K
    <3>1. Places(r, f) = {i \in 1..6 : HasNeighbour(r, tp, FaceDirs[i])}
      <4>1. DOMAIN f = 1..6
        BY <2>3 DEF Tuple
      <4> QED
        BY <2>3, <4>1 DEF Places, Exchanged
    <3>2. K[1] = {i \in 1..6 : HasNeighbour(r, tp, FaceDirs[i])} /\ K[2] = {} /\ K[3] = {}
      BY <1>0, <1>4, PartsOf DEF Awaits, Asked
    <3>3. /\ Taken(r, f, << >>, << >>)[1] = Places(r, f)
          /\ Taken(r, f, << >>, << >>)[2] = {} /\ Taken(r, f, << >>, << >>)[3] = {}
          /\ Taken(r, f, << >>, << >>) = [p \in 1..3 |-> Taken(r, f, << >>, << >>)[p]]
      BY <1>0, <1>4 DEF Taken, Call
    <3> HIDE DEF K
    <3>4. ASSUME NEW p \in 1..3 PROVE Taken(r, f, << >>, << >>)[p] = K[p]
      <4>1. p = 1 \/ p = 2 \/ p = 3
        OBVIOUS
      <4> QED
        BY <3>1, <3>2, <3>3, <4>1, Zenon
    <3> QED
      BY <1>1, <3>3, <3>4, Zenon
  <2>8. ASSUME NEW p \in 1..3, NEW i \in K[p]
        PROVE  T[p][i].dir = Dirs[p][i] /\ Counting(T[p][i], Extent(p, D))
    <3>1. p = 1
      BY <1>0, <1>4, <2>8 DEF Awaits, Asked
    <3>2. i \in 1..6 /\ T[p] = f
      BY <1>1, <2>1, <2>8, <3>1, PartsOf
    <3> HIDE DEF K
    <3> QED
      BY <2>3, <2>4, <3>1, <3>2, PartsOf
  <2> HIDE DEF K
  <2> QED
    BY <2>1, <2>2, <2>6, <2>7, <2>8, Zenon DEF T, K
<1> QED
  BY <1>0, <1>2, <1>3, <1>4

-----------------------------------------------------------------------------
(* The 26 directions: each occurs once, its opposite in the same table.    *)
Code(d) == d[1] + 3*d[2] + 9*d[3]

(* A number for each direction, the three tables in turn.                  *)
LEMMA DirsCoded ==
  /\ \A i \in 1..6 : FaceDirs[i] \in Steps /\ Code(FaceDirs[i]) = <<-9, 9, -3, 3, -1, 1>>[i]
  /\ \A i \in 1..12 : /\ EdgeDirs[i] \in Steps
                      /\ Code(EdgeDirs[i]) = <<-4, -12, -10, 4, 12, 10, 2, 6, 8, -2, -6, -8>>[i]
  /\ \A i \in 1..8 : /\ CornerDirs[i] \in Steps
                     /\ Code(CornerDirs[i]) = <<-13, 5, -11, 7, -7, 11, -5, 13>>[i]
<1>1. \A i \in 1..6 : FaceDirs[i] \in Steps
  BY DEF FaceDirs, Steps
<1>2. \A i \in 1..6 : Code(FaceDirs[i]) = <<-9, 9, -3, 3, -1, 1>>[i]
  BY DEF FaceDirs, Code
<1>3. \A i \in 1..12 : EdgeDirs[i] \in Steps
  BY DEF EdgeDirs, Steps
<1>4. \A i \in 1..12 : Code(EdgeDirs[i]) = <<-4, -12, -10, 4, 12, 10, 2, 6, 8, -2, -6, -8>>[i]
  BY DEF EdgeDirs, Code
<1>5. \A i \in 1..8 : CornerDirs[i] \in Steps
  BY DEF CornerDirs, Steps
<1>6. \A i \in 1..8 : Code(CornerDirs[i]) = <<-13, 5, -11, 7, -7, 11, -5, 13>>[i]
  BY DEF CornerDirs, Code
<1> QED
  BY <1>1, <1>2, <1>3, <1>4, <1>5, <1>6

(* What the tables list are directions.                                    *)
LEMMA DirsAreSteps ==
  ASSUME NEW p \in 1..3, NEW i \in 1..Entries(p)
  PROVE  Dirs[p][i] \in Steps
  BY DirsCoded, PartsOf

(* No direction is listed twice.                                           *)
LEMMA DirsDiffer ==
  ASSUME NEW p \in 1..3, NEW i \in 1..Entries(p), NEW q \in 1..3, NEW j \in 1..Entries(q),
         Dirs[p][i] = Dirs[q][j]
  PROVE  p = q /\ i = j
<1> DEFINE F == <<-9, 9, -3, 3, -1, 1>>
<1> DEFINE E == <<-4, -12, -10, 4, 12, 10, 2, 6, 8, -2, -6, -8>>
<1> DEFINE C == <<-13, 5, -11, 7, -7, 11, -5, 13>>
<1>1. /\ \A x \in 1..6 : Code(FaceDirs[x]) = F[x]
      /\ \A x \in 1..12 : Code(EdgeDirs[x]) = E[x]
      /\ \A x \in 1..8 : Code(CornerDirs[x]) = C[x]
  BY DirsCoded
<1>2. \A x, y \in 1..6 : F[x] = F[y] => x = y
  OBVIOUS
<1>3. \A x, y \in 1..12 : E[x] = E[y] => x = y
  OBVIOUS
<1>4. \A x, y \in 1..8 : C[x] = C[y] => x = y
  OBVIOUS
<1>5. \A x \in 1..6, y \in 1..12 : F[x] # E[y]
  OBVIOUS
<1>6. \A x \in 1..6, y \in 1..8 : F[x] # C[y]
  OBVIOUS
<1>7. \A x \in 1..12, y \in 1..8 : E[x] # C[y]
  OBVIOUS
<1> HIDE DEF F, E, C
<1>8. /\ Dirs[1] = FaceDirs /\ Dirs[2] = EdgeDirs /\ Dirs[3] = CornerDirs
      /\ Entries(1) = 6 /\ Entries(2) = 12 /\ Entries(3) = 8
      /\ (p = 1 \/ p = 2 \/ p = 3) /\ (q = 1 \/ q = 2 \/ q = 3)
  BY PartsOf
<1>9. Code(Dirs[p][i]) = Code(Dirs[q][j])
  OBVIOUS
<1> QED
  BY <1>1, <1>2, <1>3, <1>4, <1>5, <1>6, <1>7, <1>8, <1>9

(* The opposite of a direction is in the same table, and towards larger    *)
(* ranks if the direction is towards smaller ones.                         *)
LEMMA OppositeListed ==
  ASSUME NEW p \in 1..3, NEW i \in 1..Entries(p)
  PROVE  /\ \E j \in 1..Entries(p) : Dirs[p][j] = Opposite(Dirs[p][i])
         /\ Earlier(Opposite(Dirs[p][i])) <=> ~Earlier(Dirs[p][i])
<1>0. /\ Dirs[1] = FaceDirs /\ Dirs[2] = EdgeDirs /\ Dirs[3] = CornerDirs
      /\ Entries(1) = 6 /\ Entries(2) = 12 /\ Entries(3) = 8
      /\ (p = 1 \/ p = 2 \/ p = 3)
  BY PartsOf
<1>1. \A x \in 1..6 : /\ <<2, 1, 4, 3, 6, 5>>[x] \in 1..6
                      /\ FaceDirs[<<2, 1, 4, 3, 6, 5>>[x]] = Opposite(FaceDirs[x])
  BY DEF FaceDirs, Opposite
<1>2. \A x \in 1..12 : /\ <<4, 5, 6, 1, 2, 3, 10, 11, 12, 7, 8, 9>>[x] \in 1..12
                       /\ EdgeDirs[<<4, 5, 6, 1, 2, 3, 10, 11, 12, 7, 8, 9>>[x]] = Opposite(EdgeDirs[x])
  BY SMTT(60) DEF EdgeDirs, Opposite
<1>3. \A x \in 1..8 : /\ <<8, 7, 6, 5, 4, 3, 2, 1>>[x] \in 1..8
                      /\ CornerDirs[<<8, 7, 6, 5, 4, 3, 2, 1>>[x]] = Opposite(CornerDirs[x])
  BY DEF CornerDirs, Opposite
<1>4. \E j \in 1..Entries(p) : Dirs[p][j] = Opposite(Dirs[p][i])
  BY <1>0, <1>1, <1>2, <1>3
<1>5. \A x \in 1..6 : Earlier(Opposite(FaceDirs[x])) <=> ~Earlier(FaceDirs[x])
  BY DEF FaceDirs, Opposite, Earlier
<1>6. \A x \in 1..12 : Earlier(Opposite(EdgeDirs[x])) <=> ~Earlier(EdgeDirs[x])
  BY DEF EdgeDirs, Opposite, Earlier
<1>7. \A x \in 1..8 : Earlier(Opposite(CornerDirs[x])) <=> ~Earlier(CornerDirs[x])
  BY DEF CornerDirs, Opposite, Earlier
<1>8. Earlier(Opposite(Dirs[p][i])) <=> ~Earlier(Dirs[p][i])
  BY <1>0, <1>5, <1>6, <1>7
<1> QED
  BY <1>4, <1>8

-----------------------------------------------------------------------------
(***************************************************************************)
(* The inductive invariant: what a rank has posted and sent once it has    *)
(* made the call, and that until the first unpacks all have their own      *)
(* values.                                                                 *)
(***************************************************************************)
Size(k, n) == IF k = "monoQ" THEN n ELSE n + 1
OwnOf(r, k, n) ==
  IF k = "monoQ"
  THEN [e \in 0..Cube(n) + 6*n*n - 1 |-> IF e < Cube(n) THEN <<r, e>> ELSE Unset]
  ELSE [m \in 0..Cube(n + 1) - 1 |-> << <<r, m>> >>]
DataOf(r, k, n, p, i) ==
  LET nodes == SendTable(Size(k, n))[p][i].nodes
  IN [x \in DOMAIN nodes |-> OwnOf(r, k, n)[nodes[x]]]

PostedAs(s, r, k, t, n) ==
  Laid(s, Awaits(r, k, t), RecvTable(Size(k, n)), Exchanges[k].fields, n)
SentAs(s, r, k, t, n) ==
  LET K == Gives(r, k, t)
  IN /\ s = [j \in 1..All(K) |-> s[j]]
     /\ \A p \in 1..3 : \A i \in K[p] :
          s[MsgSlot(K, p, i)] = [at |-> Place(K, Exchanges[k].fields, n, p, i),
                                 to |-> Neighbour(r, t, Dirs[p][i]),
                                 data |-> DataOf(r, k, n, p, i)]

Made(now, call, later, r) == now[1] \in later \/ (now[1] = call /\ r < now[2])

TurnInv ==
  /\ kind \in DOMAIN Exchanges /\ tp \in Sides /\ nx \in EdgeSizes
  /\ turn \in {"CommRecv", "CommSend", "Unpack", "done"} \X Ranks
PostedInv ==
  /\ posted = [r \in Ranks |-> posted[r]]
  /\ \A r \in Ranks :
       IF Made(turn, "CommRecv", {"CommSend", "Unpack", "done"}, r)
       THEN PostedAs(posted[r], r, kind, tp, nx) ELSE posted[r] = << >>
SentInv ==
  /\ sent = [r \in Ranks |-> sent[r]]
  /\ \A r \in Ranks :
       IF Made(turn, "CommSend", {"Unpack", "done"}, r)
       THEN SentAs(sent[r], r, kind, tp, nx) ELSE sent[r] = << >>
OwnInv ==
  turn[1] \in {"CommRecv", "CommSend"} => field = [r \in Ranks |-> OwnOf(r, kind, nx)]

CommIInv == TurnInv /\ PostedInv /\ SentInv /\ OwnInv

(* There is a rank 0.                                                      *)
LEMMA RanksAre ==
  ASSUME NEW t \in Nat \ {0, 1}
  PROVE  Cube(t) \in Nat \ {0} /\ 0 \in 0..Cube(t) - 1
<1>1. t*t \in Nat \ {0}
  BY SMT
<1> DEFINE s == t*t
<1>2. s*t \in Nat \ {0}
  <2>1. s \in Nat \ {0}
    BY <1>1
  <2> HIDE DEF s
  <2> QED
    BY <2>1, SMT
<1> QED
  BY <1>2 DEF Cube

(* Before the first call the invariant holds.                              *)
LEMMA CommInitInv ==
  ASSUME CommAssumption, CommInit
  PROVE  CommIInv
<1>1. tp \in Nat \ {0, 1} /\ Ranks = 0..Cube(tp) - 1
  BY CommAssumption DEF CommInit, Ranks
<1>2. 0 \in Ranks /\ \A r \in Ranks : ~(r < 0)
  BY <1>1, RanksAre
<1>3. TurnInv
  BY <1>2 DEF CommInit, TurnInv
<1>4. PostedInv /\ SentInv
  BY <1>2 DEF CommInit, PostedInv, SentInv, Made
<1>5. OwnInv
  BY DEF CommInit, OwnInv, Own, OwnOf
<1> QED
  BY <1>3, <1>4, <1>5 DEF CommIInv

(* A turn passes to the next rank, or after the last rank to the next call.*)
LEMMA TurnStep ==
  ASSUME CommAssumption, TurnInv, NEW r \in Ranks, NEW call, NEW after, Turn(call, r, after),
         after \in {"CommRecv", "CommSend", "Unpack", "done"}
  PROVE  /\ TurnInv' /\ kind' = kind /\ tp' = tp /\ nx' = nx /\ Ranks' = Ranks /\ turn = <<call, r>>
         /\ \/ turn' = <<call, r + 1>> /\ \A q \in Ranks : q < r + 1 <=> (q < r \/ q = r)
            \/ turn' = <<after, 0>> /\ \A q \in Ranks : q < r \/ q = r
<1>1. kind' = kind /\ tp' = tp /\ nx' = nx /\ turn = <<call, r>>
      /\ turn' = IF r + 1 \in Ranks THEN <<call, r + 1>> ELSE <<after, 0>>
  BY DEF Turn
<1>2. tp \in Nat \ {0, 1} /\ Ranks = 0..Cube(tp) - 1 /\ Ranks' = Ranks
  BY <1>1, CommAssumption DEF TurnInv, Ranks
<1>3. 0 \in Ranks /\ Cube(tp) \in Nat \ {0}
  BY <1>2, RanksAre
<1>4. TurnInv'
  BY <1>1, <1>2, <1>3 DEF TurnInv
<1>5. \A q \in Ranks : q \in Nat /\ r \in Nat /\ q < Cube(tp)
  BY <1>2, <1>3
<1>6. CASE r + 1 \in Ranks
  BY <1>1, <1>4, <1>2, <1>5, <1>6
<1>7. CASE r + 1 \notin Ranks
  <2>1. \A q \in Ranks : q < r \/ q = r
    BY <1>2, <1>3, <1>5, <1>7
  <2> QED
    BY <1>1, <1>2, <1>4, <1>7, <2>1
<1> QED
  BY <1>6, <1>7

(* D is a matter of the exchange and the edge only.                        *)
LEMMA DSize ==
  D = Size(kind, nx)
  BY DEF D, Size

(* CommRecv keeps the invariant: it posts what the rank awaits.            *)
LEMMA CommRecvStep ==
  ASSUME CommAssumption, CommIInv, NEW r \in Ranks, CommRecv(r)
  PROVE  CommIInv'
<1> DEFINE L == Layout(r, RecvFaces(D, D, D), RecvEdges(D, D, D), RecvCorners(D, D, D))
<1>1. /\ Turn("CommRecv", r, "CommSend") /\ TurnInv /\ PostedInv /\ SentInv /\ OwnInv
      /\ posted' = [posted EXCEPT ![r] = L] /\ sent' = sent /\ field' = field
  BY DEF CommRecv, CommIInv
<1>2. PostedAs(L, r, kind, tp, nx)
  <2>1. kind \in DOMAIN Exchanges /\ nx \in Nat
    BY <1>1, CommAssumption DEF TurnInv
  <2>2. Laid(L, Awaits(r, kind, tp), RecvTable(D), Exchanges[kind].fields, nx)
    BY <2>1, RecvLaid
  <2> HIDE DEF L
  <2> QED
    BY <2>2, DSize, Zenon DEF PostedAs
<1> HIDE DEF L
<1>3. /\ TurnInv' /\ kind' = kind /\ tp' = tp /\ nx' = nx /\ Ranks' = Ranks /\ turn = <<"CommRecv", r>>
      /\ \/ turn' = <<"CommRecv", r + 1>> /\ \A q \in Ranks : q < r + 1 <=> (q < r \/ q = r)
         \/ turn' = <<"CommSend", 0>> /\ \A q \in Ranks : q < r \/ q = r
  BY <1>1, TurnStep
<1>4. PostedInv'
  <2>1. posted' = [q \in Ranks |-> posted'[q]]
    BY <1>1 DEF PostedInv
  <2>2. ASSUME NEW q \in Ranks
        PROVE  IF Made(turn', "CommRecv", {"CommSend", "Unpack", "done"}, q)
               THEN PostedAs(posted'[q], q, kind, tp, nx) ELSE posted'[q] = << >>
    <3>1. Made(turn', "CommRecv", {"CommSend", "Unpack", "done"}, q)
            <=> (Made(turn, "CommRecv", {"CommSend", "Unpack", "done"}, q) \/ q = r)
      BY <1>3 DEF Made
    <3>2. CASE q = r
      BY <1>1, <1>2, <3>1, <3>2 DEF PostedInv
    <3>3. CASE q # r
      BY <1>1, <3>1, <3>3 DEF PostedInv
    <3> QED
      BY <3>2, <3>3
  <2> QED
    BY <1>3, <2>1, <2>2 DEF PostedInv
<1>5. SentInv'
  <2>1. \A q \in Ranks : ~Made(turn, "CommSend", {"Unpack", "done"}, q)
                         /\ ~Made(turn', "CommSend", {"Unpack", "done"}, q)
    <3>1. \A q \in Ranks : q \in Nat
      BY <1>1, CommAssumption, RanksAre DEF Ranks, TurnInv
    <3> QED
      BY <1>3, <3>1 DEF Made
  <2> QED
    BY <1>1, <1>3, <2>1 DEF SentInv
<1>6. OwnInv'
  BY <1>1, <1>3 DEF OwnInv
<1> QED
  BY <1>3, <1>4, <1>5, <1>6 DEF CommIInv

(* CommSend keeps it: it sends what the rank gives, and the values are     *)
(* still the rank's own.                                                   *)
LEMMA CommSendStep ==
  ASSUME CommAssumption, CommIInv, NEW r \in Ranks, CommSend(r)
  PROVE  CommIInv'
<1> DEFINE L == Layout(r, SendFaces(D, D, D), SendEdgesAlong(D, D, D) \o SendEdgesAcross(D, D, D),
                       SendCorners(D, D, D))
<1> DEFINE S == [i \in DOMAIN L |->
                   [at |-> L[i].at, to |-> Neighbour(r, tp, L[i].msg.dir),
                    data |-> [k \in DOMAIN L[i].msg.nodes |-> field[r][L[i].msg.nodes[k]]]]]
<1>1. /\ Turn("CommSend", r, "Unpack") /\ TurnInv /\ PostedInv /\ SentInv /\ OwnInv
      /\ sent' = [sent EXCEPT ![r] = S] /\ posted' = posted /\ field' = field
  BY DEF CommSend, CommIInv
<1>2. SentAs(S, r, kind, tp, nx)
  <2>1. kind \in DOMAIN Exchanges /\ nx \in Nat
    BY <1>1, CommAssumption DEF TurnInv
  <2> DEFINE K == Gives(r, kind, tp)
  <2> DEFINE T == SendTable(Size(kind, nx))
  <2>2. Laid(L, K, T, Exchanges[kind].fields, nx)
    <3>1. Laid(L, K, SendTable(D), Exchanges[kind].fields, nx)
      BY <2>1, SendLaid
    <3> HIDE DEF L, K
    <3> QED
      BY <3>1, DSize, Zenon
  <2>3. turn = <<"CommSend", r>>
    BY <1>1 DEF Turn
  <2>4. field[r] = OwnOf(r, kind, nx)
    BY <1>1, <2>3 DEF OwnInv
  <2>5. \A p \in 1..3 : \A i \in K[p] : T[p][i].dir = Dirs[p][i]
    <3>1. ListsAs(SendTable(D), SendTable(D), D) /\ D = Size(kind, nx)
      BY <2>1, DIs, DSize, NodesListed
    <3>2. ListsAs(T, T, D)
      BY <3>1, Zenon
    <3>3. \A p \in 1..3 : K[p] \subseteq 1..Entries(p)
      BY AwaitsAre
    <3> HIDE DEF K, T
    <3> QED
      BY <3>2, <3>3 DEF ListsAs, Listed
  <2>6. Parts(K)
    BY AwaitsAre
  <2> HIDE DEF L, K
  <2>7. /\ L = [j \in 1..All(K) |-> L[j]]
        /\ \A p \in 1..3 : \A i \in K[p] :
             L[MsgSlot(K, p, i)] = [at |-> Place(K, Exchanges[kind].fields, nx, p, i), msg |-> T[p][i]]
    BY <2>2, Zenon DEF Laid
  <2> HIDE DEF T
  <2>8. DOMAIN L = 1..All(K)
    BY <2>7
  <2>9. S = [j \in 1..All(K) |-> S[j]]
    BY <2>8
  <2>10. ASSUME NEW p \in 1..3, NEW i \in K[p]
         PROVE  S[MsgSlot(K, p, i)] = [at |-> Place(K, Exchanges[kind].fields, nx, p, i),
                                       to |-> Neighbour(r, tp, Dirs[p][i]),
                                       data |-> DataOf(r, kind, nx, p, i)]
    <3>1. MsgSlot(K, p, i) \in DOMAIN L
      BY <2>6, <2>8, MsgSlotsAre
    <3> DEFINE j == MsgSlot(K, p, i)
    <3>6. L[j] = [at |-> Place(K, Exchanges[kind].fields, nx, p, i), msg |-> T[p][i]]
      BY <2>7, Zenon
    <3>2. L[j].at = Place(K, Exchanges[kind].fields, nx, p, i) /\ L[j].msg = T[p][i]
      <4> HIDE DEF j
      <4> QED
        BY <3>6
    <3>3. S[j] = [at |-> L[j].at, to |-> Neighbour(r, tp, L[j].msg.dir),
                  data |-> [k \in DOMAIN L[j].msg.nodes |-> field[r][L[j].msg.nodes[k]]]]
      BY <3>1
    <3> HIDE DEF S, j
    <3>4. [k \in DOMAIN L[j].msg.nodes |-> field[r][L[j].msg.nodes[k]]] = DataOf(r, kind, nx, p, i)
      BY <2>4, <3>2, Zenon DEF DataOf, T
    <3>5. L[j].msg.dir = Dirs[p][i]
      BY <2>5, <3>2
    <3> QED
      BY <3>2, <3>3, <3>4, <3>5, Zenon DEF j
  <2> HIDE DEF S
  <2> QED
    BY <2>9, <2>10, Zenon DEF SentAs, K
<1> HIDE DEF S
<1>3. /\ TurnInv' /\ kind' = kind /\ tp' = tp /\ nx' = nx /\ Ranks' = Ranks /\ turn = <<"CommSend", r>>
      /\ \/ turn' = <<"CommSend", r + 1>> /\ \A q \in Ranks : q < r + 1 <=> (q < r \/ q = r)
         \/ turn' = <<"Unpack", 0>> /\ \A q \in Ranks : q < r \/ q = r
  BY <1>1, TurnStep
<1>4. SentInv'
  <2>1. sent' = [q \in Ranks |-> sent'[q]]
    BY <1>1 DEF SentInv
  <2>2. ASSUME NEW q \in Ranks
        PROVE  IF Made(turn', "CommSend", {"Unpack", "done"}, q)
               THEN SentAs(sent'[q], q, kind, tp, nx) ELSE sent'[q] = << >>
    <3>1. Made(turn', "CommSend", {"Unpack", "done"}, q)
            <=> (Made(turn, "CommSend", {"Unpack", "done"}, q) \/ q = r)
      BY <1>3 DEF Made
    <3>2. CASE q = r
      BY <1>1, <1>2, <3>1, <3>2 DEF SentInv
    <3>3. CASE q # r
      BY <1>1, <3>1, <3>3 DEF SentInv
    <3> QED
      BY <3>2, <3>3
  <2> QED
    BY <1>3, <2>1, <2>2 DEF SentInv
<1>5. PostedInv'
  <2>1. \A q \in Ranks : Made(turn, "CommRecv", {"CommSend", "Unpack", "done"}, q)
                         /\ Made(turn', "CommRecv", {"CommSend", "Unpack", "done"}, q)
    BY <1>3 DEF Made
  <2> QED
    BY <1>1, <1>3, <2>1 DEF PostedInv
<1>6. OwnInv'
  BY <1>1, <1>3 DEF OwnInv
<1> QED
  BY <1>3, <1>4, <1>5, <1>6 DEF CommIInv

(* The unpacking functions keep it: they leave the requests alone.         *)
LEMMA UnpackStep ==
  ASSUME CommAssumption, CommIInv, NEW r \in Ranks, Turn("Unpack", r, "done"),
         posted' = posted, sent' = sent
  PROVE  CommIInv'
<1>1. TurnInv /\ PostedInv /\ SentInv
  BY DEF CommIInv
<1>2. /\ TurnInv' /\ kind' = kind /\ tp' = tp /\ nx' = nx /\ Ranks' = Ranks /\ turn = <<"Unpack", r>>
      /\ (turn' = <<"Unpack", r + 1>> \/ turn' = <<"done", 0>>)
  BY <1>1, TurnStep
<1>3. \A q \in Ranks : /\ Made(turn, "CommRecv", {"CommSend", "Unpack", "done"}, q)
                       /\ Made(turn', "CommRecv", {"CommSend", "Unpack", "done"}, q)
                       /\ Made(turn, "CommSend", {"Unpack", "done"}, q)
                       /\ Made(turn', "CommSend", {"Unpack", "done"}, q)
  BY <1>2 DEF Made
<1>4. PostedInv'
  BY <1>1, <1>2, <1>3 DEF PostedInv
<1>5. SentInv'
  BY <1>1, <1>2, <1>3 DEF SentInv
<1>6. OwnInv'
  BY <1>2 DEF OwnInv
<1> QED
  BY <1>2, <1>4, <1>5, <1>6 DEF CommIInv

(* At every step of an exchange each rank that has called CommRecv has     *)
(* posted just the receives it awaits, each that has called CommSend has   *)
(* sent just what it gives, slot by slot.                                  *)
THEOREM CommInductive == CommSpec => []CommIInv
<1>1. CommInit => CommIInv
  BY CommAssumption, CommInitInv
<1>2. CommIInv /\ [CommNext]_commVars => CommIInv'
  <2> SUFFICES ASSUME CommIInv, [CommNext]_commVars PROVE CommIInv'
    OBVIOUS
  <2>1. ASSUME NEW r \in Ranks, CommRecv(r) PROVE CommIInv'
    BY <2>1, CommAssumption, CommRecvStep
  <2>2. ASSUME NEW r \in Ranks, CommSend(r) PROVE CommIInv'
    BY <2>2, CommAssumption, CommSendStep
  <2>3. ASSUME NEW r \in Ranks, UnpackNodes(r) PROVE CommIInv'
    <3>1. Turn("Unpack", r, "done") /\ posted' = posted /\ sent' = sent
      BY <2>3 DEF UnpackNodes
    <3> QED
      BY <3>1, CommAssumption, UnpackStep
  <2>4. ASSUME NEW r \in Ranks, UnpackGhosts(r) PROVE CommIInv'
    <3>1. Turn("Unpack", r, "done") /\ posted' = posted /\ sent' = sent
      BY <2>4 DEF UnpackGhosts
    <3> QED
      BY <3>1, CommAssumption, UnpackStep
  <2>5. CASE UNCHANGED commVars
    BY <2>5 DEF commVars, CommIInv, TurnInv, PostedInv, SentInv, OwnInv, Ranks
  <2> QED
    BY <2>1, <2>2, <2>3, <2>4, <2>5 DEF CommNext, CommDone
<1> QED
  BY <1>1, <1>2, PTL DEF CommSpec

-----------------------------------------------------------------------------
(* What a rank awaits is what its neighbours give, and nothing else.       *)
LEMMA TakesPart ==
  ASSUME NEW r, NEW k, NEW t, NEW p \in 1..3
  PROVE  /\ \A i \in Awaits(r, k, t)[p] : /\ i \in 1..Entries(p) /\ Dirs[p][i] \in Steps
                                          /\ HasNeighbour(r, t, Dirs[p][i])
                                          /\ Asked(k, p, Earlier(Dirs[p][i]))
         /\ \A i \in Gives(r, k, t)[p] : /\ i \in 1..Entries(p) /\ Dirs[p][i] \in Steps
                                         /\ HasNeighbour(r, t, Dirs[p][i])
                                         /\ Asked(k, p, ~Earlier(Dirs[p][i]))
  BY DirsAreSteps DEF Awaits, Gives

(* An awaited message comes from a rank that gives exactly one to this one,*)
(* in the same table.                                                      *)
LEMMA AwaitedIsGiven ==
  ASSUME NEW t \in Nat \ {0, 1}, NEW k, NEW r \in 0..Cube(t) - 1, NEW p \in 1..3,
         NEW i \in Awaits(r, k, t)[p], NEW q, q = Neighbour(r, t, Dirs[p][i])
  PROVE  /\ q \in 0..Cube(t) - 1
         /\ \E j \in Gives(q, k, t)[p] :
              /\ Neighbour(q, t, Dirs[p][j]) = r
              /\ \A x \in 1..3 : \A y \in Gives(q, k, t)[x] :
                   Neighbour(q, t, Dirs[x][y]) = r => x = p /\ y = j
<1>1. /\ i \in 1..Entries(p) /\ Dirs[p][i] \in Steps /\ HasNeighbour(r, t, Dirs[p][i])
      /\ Asked(k, p, Earlier(Dirs[p][i])) /\ t \in Nat \ {0}
  BY TakesPart
<1> DEFINE o == Opposite(Dirs[p][i])
<1>2. q \in 0..Cube(t) - 1 /\ HasNeighbour(q, t, o) /\ Neighbour(q, t, o) = r
  BY <1>1, NeighbourIs
<1>3. PICK j \in 1..Entries(p) : Dirs[p][j] = o
  BY <1>1, OppositeListed
<1>4. Earlier(o) <=> ~Earlier(Dirs[p][i])
  BY <1>1, OppositeListed
<1> HIDE DEF o
<1>5. j \in Gives(q, k, t)[p]
  BY <1>1, <1>2, <1>3, <1>4 DEF Gives, Asked
<1>6. ASSUME NEW x \in 1..3, NEW y \in Gives(q, k, t)[x], Neighbour(q, t, Dirs[x][y]) = r
      PROVE  x = p /\ y = j
  <2>1. y \in 1..Entries(x) /\ Dirs[x][y] \in Steps /\ HasNeighbour(q, t, Dirs[x][y])
    BY TakesPart
  <2>2. Dirs[p][j] \in Steps /\ HasNeighbour(q, t, Dirs[p][j]) /\ Neighbour(q, t, Dirs[p][j]) = r
    BY <1>2, <1>3, DirsAreSteps
  <2>3. Dirs[x][y] = Dirs[p][j]
    BY <1>1, <1>2, <1>6, <2>1, <2>2, NeighboursDiffer
  <2> QED
    BY <2>1, <2>3, DirsDiffer
<1> QED
  BY <1>2, <1>3, <1>5, <1>6

(* A given message goes to a rank that awaits one from this one.           *)
LEMMA GivenIsAwaited ==
  ASSUME NEW t \in Nat \ {0, 1}, NEW k, NEW r \in 0..Cube(t) - 1, NEW p \in 1..3,
         NEW i \in Gives(r, k, t)[p], NEW q, q = Neighbour(r, t, Dirs[p][i])
  PROVE  /\ q \in 0..Cube(t) - 1
         /\ \E j \in Awaits(q, k, t)[p] : Neighbour(q, t, Dirs[p][j]) = r
<1>1. /\ i \in 1..Entries(p) /\ Dirs[p][i] \in Steps /\ HasNeighbour(r, t, Dirs[p][i])
      /\ Asked(k, p, ~Earlier(Dirs[p][i])) /\ t \in Nat \ {0}
  BY TakesPart
<1> DEFINE o == Opposite(Dirs[p][i])
<1>2. q \in 0..Cube(t) - 1 /\ HasNeighbour(q, t, o) /\ Neighbour(q, t, o) = r
  BY <1>1, NeighbourIs
<1>3. PICK j \in 1..Entries(p) : Dirs[p][j] = o
  BY <1>1, OppositeListed
<1>4. Earlier(o) <=> ~Earlier(Dirs[p][i])
  BY <1>1, OppositeListed
<1> HIDE DEF o
<1>5. j \in Awaits(q, k, t)[p]
  BY <1>1, <1>2, <1>3, <1>4 DEF Awaits, Asked
<1> QED
  BY <1>2, <1>3, <1>5

(* What the two request arrays hold.                                       *)
LEMMA LengthOf ==
  ASSUME NEW n \in Nat, NEW s, s = [j \in 1..n |-> s[j]]
  PROVE  DOMAIN s = 1..n /\ Len(s) = n
<1>1. DOMAIN s = 1..n
  OBVIOUS
<1> QED
  BY <1>1

SizeIs == \A k \in DOMAIN Exchanges, n \in Nat : Size(k, n) \in Nat /\ Exchanges[k].fields \in 1..6

(* The sizes are numbers and an exchange has one to six fields.            *)
LEMMA Sizes == SizeIs
  BY ExchangesAre DEF SizeIs, Size

PostedWell(s, K, F, n, d) ==
  /\ DOMAIN s = 1..All(K) /\ Len(s) = All(K)
  /\ \A p \in 1..3 : \A i \in K[p] :
       /\ MsgSlot(K, p, i) \in DOMAIN s
       /\ s[MsgSlot(K, p, i)].at = Place(K, F, n, p, i)
       /\ s[MsgSlot(K, p, i)].msg.dir = Dirs[p][i]
       /\ Counting(s[MsgSlot(K, p, i)].msg, Extent(p, d))
  /\ \A j \in DOMAIN s : \E p \in 1..3 : \E i \in K[p] : j = MsgSlot(K, p, i)

(* What PostedAs says of a slot's place, direction and count.              *)
LEMMA PostedFacts ==
  ASSUME NEW k \in DOMAIN Exchanges, NEW n \in Nat, NEW t, NEW r, NEW s, PostedAs(s, r, k, t, n)
  PROVE  PostedWell(s, Awaits(r, k, t), Exchanges[k].fields, n, Size(k, n))
<1> DEFINE K == Awaits(r, k, t)
<1> DEFINE F == Exchanges[k].fields
<1> DEFINE T == RecvTable(Size(k, n))
<1>1. Parts(K) /\ \A p \in 1..3 : K[p] \subseteq 1..Entries(p)
  BY AwaitsAre
<1>2. Listed(T) /\ \A p \in 1..3 : \A i \in 1..Entries(p) : Counting(T[p][i], Extent(p, Size(k, n)))
  <2>1. Size(k, n) \in Nat
    BY Sizes DEF SizeIs
  <2> QED
    BY <2>1, RecvListed
<1>3. /\ s = [j \in 1..All(K) |-> s[j]]
      /\ \A p \in 1..3 : \A i \in K[p] : s[MsgSlot(K, p, i)] = [at |-> Place(K, F, n, p, i), msg |-> T[p][i]]
  BY Zenon DEF PostedAs, Laid
<1> HIDE DEF K, F, T
<1>4. All(K) \in Nat
  BY <1>1, PartsCount
<1>5. DOMAIN s = 1..All(K) /\ Len(s) = All(K)
  BY <1>3, <1>4, LengthOf
<1>6. ASSUME NEW p \in 1..3, NEW i \in K[p]
      PROVE  /\ MsgSlot(K, p, i) \in DOMAIN s
             /\ s[MsgSlot(K, p, i)].at = Place(K, F, n, p, i)
             /\ s[MsgSlot(K, p, i)].msg.dir = Dirs[p][i]
             /\ Counting(s[MsgSlot(K, p, i)].msg, Extent(p, Size(k, n)))
  <2>1. MsgSlot(K, p, i) \in DOMAIN s
    BY <1>1, <1>5, MsgSlotsAre
  <2>2. s[MsgSlot(K, p, i)] = [at |-> Place(K, F, n, p, i), msg |-> T[p][i]]
    BY <1>3, Zenon
  <2> DEFINE e == s[MsgSlot(K, p, i)]
  <2>3. e.at = Place(K, F, n, p, i) /\ e.msg = T[p][i]
    BY <2>2
  <2> HIDE DEF e
  <2>4. T[p][i].dir = Dirs[p][i] /\ Counting(T[p][i], Extent(p, Size(k, n)))
    BY <1>1, <1>2 DEF Listed
  <2> QED
    BY <2>1, <2>3, <2>4, Zenon DEF e
<1>7. \A j \in DOMAIN s : \E p \in 1..3 : \E i \in K[p] : j = MsgSlot(K, p, i)
  BY <1>1, <1>5, MsgSlotsAre
<1> QED
  BY <1>5, <1>6, <1>7, Zenon DEF PostedWell, K, F

SentWell(s, K, F, n, d, r, t) ==
  /\ DOMAIN s = 1..All(K) /\ Len(s) = All(K)
  /\ \A p \in 1..3 : \A i \in K[p] :
       /\ MsgSlot(K, p, i) \in DOMAIN s
       /\ s[MsgSlot(K, p, i)].at = Place(K, F, n, p, i)
       /\ s[MsgSlot(K, p, i)].to = Neighbour(r, t, Dirs[p][i])
       /\ Len(s[MsgSlot(K, p, i)].data) = Extent(p, d)
  /\ \A j \in DOMAIN s : \E p \in 1..3 : \E i \in K[p] : j = MsgSlot(K, p, i)

(* A message holds a number of values.                                     *)
LEMMA ExtentIs ==
  ASSUME NEW d \in Nat, NEW p \in 1..3
  PROVE  Extent(p, d) \in Nat
<1>1. d*d \in Nat
  BY SMT
<1> QED
  BY <1>1 DEF Extent

(* What SentAs says of a slot's place, receiver and length.                *)
LEMMA SentFacts ==
  ASSUME NEW k \in DOMAIN Exchanges, NEW n \in Nat, NEW t, NEW r, NEW s, SentAs(s, r, k, t, n)
  PROVE  SentWell(s, Gives(r, k, t), Exchanges[k].fields, n, Size(k, n), r, t)
<1> DEFINE K == Gives(r, k, t)
<1> DEFINE F == Exchanges[k].fields
<1> DEFINE T == SendTable(Size(k, n))
<1> DEFINE d == Size(k, n)
<1>1. Parts(K) /\ \A p \in 1..3 : K[p] \subseteq 1..Entries(p)
  BY AwaitsAre
<1>2. d \in Nat /\ \A p \in 1..3 : \A i \in 1..Entries(p) : Listing(T[p][i], Extent(p, d))
  <2>1. Size(k, n) \in Nat
    BY Sizes DEF SizeIs
  <2> QED
    BY <2>1, NodesListed DEF ListsAs
<1>3. /\ s = [j \in 1..All(K) |-> s[j]]
      /\ \A p \in 1..3 : \A i \in K[p] :
           s[MsgSlot(K, p, i)] = [at |-> Place(K, F, n, p, i), to |-> Neighbour(r, t, Dirs[p][i]),
                                  data |-> DataOf(r, k, n, p, i)]
  BY Zenon DEF SentAs
<1> HIDE DEF K, F, d
<1>4. All(K) \in Nat
  BY <1>1, PartsCount
<1>5. DOMAIN s = 1..All(K) /\ Len(s) = All(K)
  BY <1>3, <1>4, LengthOf
<1>6. ASSUME NEW p \in 1..3, NEW i \in K[p]
      PROVE  /\ MsgSlot(K, p, i) \in DOMAIN s
             /\ s[MsgSlot(K, p, i)].at = Place(K, F, n, p, i)
             /\ s[MsgSlot(K, p, i)].to = Neighbour(r, t, Dirs[p][i])
             /\ Len(s[MsgSlot(K, p, i)].data) = Extent(p, d)
  <2>1. MsgSlot(K, p, i) \in DOMAIN s
    BY <1>1, <1>5, MsgSlotsAre
  <2> DEFINE e == s[MsgSlot(K, p, i)]
  <2>2. e = [at |-> Place(K, F, n, p, i), to |-> Neighbour(r, t, Dirs[p][i]),
             data |-> DataOf(r, k, n, p, i)]
    BY <1>3, Zenon
  <2> HIDE DEF e
  <2>3. e.at = Place(K, F, n, p, i) /\ e.to = Neighbour(r, t, Dirs[p][i])
        /\ e.data = DataOf(r, k, n, p, i)
    BY <2>2
  <2> DEFINE nodes == T[p][i].nodes
  <2> DEFINE own == OwnOf(r, k, n)
  <2>4. DataOf(r, k, n, p, i) = [x \in DOMAIN nodes |-> own[nodes[x]]]
    BY Zenon DEF DataOf
  <2>5. nodes = [x \in 1..Extent(p, d) |-> nodes[x]]
    BY <1>1, <1>2, Zenon DEF Listing
  <2>6. Extent(p, d) \in Nat
    BY <1>2, ExtentIs
  <2> HIDE DEF nodes, own, T
  <2>7. Len(DataOf(r, k, n, p, i)) = Extent(p, d)
    <3> DEFINE v == DataOf(r, k, n, p, i)
    <3> DEFINE x0 == Extent(p, d)
    <3>1. DOMAIN nodes = 1..x0
      BY <2>5
    <3>2. v = [x \in 1..x0 |-> own[nodes[x]]]
      BY <2>4, <3>1
    <3>3. x0 \in Nat
      BY <2>6
    <3> HIDE DEF v, x0
    <3>4. v = [x \in 1..x0 |-> v[x]]
      BY <3>2
    <3>5. Len(v) = x0
      BY <3>3, <3>4, LengthOf
    <3> QED
      BY <3>5 DEF v, x0
  <2> QED
    BY <2>1, <2>3, <2>7, Zenon DEF e
<1>7. \A j \in DOMAIN s : \E p \in 1..3 : \E i \in K[p] : j = MsgSlot(K, p, i)
  BY <1>1, <1>5, MsgSlotsAre
<1> QED
  BY <1>5, <1>6, <1>7, Zenon DEF SentWell, K, F, d

-----------------------------------------------------------------------------
(* The parts of a buffer: no two overlap, none is empty, all are within.   *)
FitIn(S, N, size) ==
  /\ \A p, q \in S : p = q \/ p.to <= q.from \/ q.to <= p.from
  /\ Cardinality(S) = N
  /\ \A p \in S : p.to <= size

Spans(S, N, a, z) ==
  /\ \A i \in 1..N : [from |-> a[i], to |-> z[i]] \in S
  /\ \A p \in S : \E i \in 1..N : p = [from |-> a[i], to |-> z[i]]
KeptApart(N, a, z, size) ==
  /\ \A i \in 1..N : a[i] \in Nat /\ z[i] \in Nat /\ a[i] < z[i] /\ z[i] <= size
  /\ \A i, j \in 1..N : i # j => z[i] <= a[j] \/ z[j] <= a[i]

(* Parts that are apart and within the size fit, and are as many as the    *)
(* slots.                                                                  *)
LEMMA PartsFit ==
  ASSUME NEW N \in Nat, NEW a, NEW z, NEW size, KeptApart(N, a, z, size),
         NEW S, Spans(S, N, a, z)
  PROVE  FitIn(S, N, size)
<1>9. /\ \A i \in 1..N : [from |-> a[i], to |-> z[i]] \in S
      /\ \A p \in S : \E i \in 1..N : p = [from |-> a[i], to |-> z[i]]
      /\ \A i \in 1..N : a[i] \in Nat /\ z[i] \in Nat /\ a[i] < z[i] /\ z[i] <= size
      /\ \A i, j \in 1..N : i # j => z[i] <= a[j] \/ z[j] <= a[i]
  BY Zenon DEF Spans, KeptApart
<1> DEFINE f == [i \in 1..N |-> [from |-> a[i], to |-> z[i]]]
<1>1. \A i, j \in 1..N : f[i] = f[j] => i = j
  BY <1>9, SMT
<1>2. \A p \in S : \E i \in 1..N : p.from = a[i] /\ p.to = z[i] /\ p = f[i]
  BY <1>9, SMT
<1>3. f \in [1..N -> S] /\ \A p \in S : \E i \in 1..N : f[i] = p
  BY <1>2, <1>9
<1> HIDE DEF f
<1>4. f \in Bijection(1..N, S)
  BY <1>1, <1>3 DEF Bijection, Injection, Surjection, IsInjective
<1>5. IsFiniteSet(1..N) /\ Cardinality(1..N) = N
  BY FS_Interval
<1>6. Cardinality(S) = N
  BY <1>4, <1>5, FS_Bijection DEF ExistsBijection
<1>7. \A p, q \in S : p = q \/ p.to <= q.from \/ q.to <= p.from
  <2> SUFFICES ASSUME NEW p \in S, NEW q \in S PROVE p = q \/ p.to <= q.from \/ q.to <= p.from
    OBVIOUS
  <2>1. PICK i \in 1..N : p.from = a[i] /\ p.to = z[i] /\ p = f[i]
    BY <1>2
  <2>2. PICK j \in 1..N : q.from = a[j] /\ q.to = z[j] /\ q = f[j]
    BY <1>2
  <2> QED
    BY <1>9, <2>1, <2>2
<1>8. \A p \in S : p.to <= size
  BY <1>2, <1>9
<1> QED
  BY <1>6, <1>7, <1>8, Zenon DEF FitIn

(* Rooms are wide enough.                                                  *)
LEMMA RoomSuffices ==
  ASSUME NEW F \in 1..6, NEW n \in Nat, NEW d \in Nat \ {0}, d <= n + 1, NEW p \in 1..3
  PROVE  F*Extent(p, d) \in Nat \ {0} /\ F*Extent(p, d) <= Room(F, n, p)
<1>1. \A k \in Nat : Rounded(k) \in Nat /\ k <= Rounded(k)
  <2> SUFFICES ASSUME NEW k \in Nat PROVE Rounded(k) \in Nat /\ k <= Rounded(k)
    OBVIOUS
  <2> DEFINE h == (k + 15) \div 16
  <2>1. h \in Nat /\ 16*h <= k + 15 /\ k + 15 < 16*h + 16
    OBVIOUS
  <2> HIDE DEF h
  <2>2. h*16 \in Nat /\ k <= h*16
    BY <2>1
  <2> QED
    BY <2>2 DEF Rounded, h
<1> DEFINE x == Extent(p, d)
<1> DEFINE e == n + 1
<1> DEFINE w == IF p = 1 THEN Rounded(e*e) ELSE IF p = 2 THEN Rounded(e) ELSE 16
<1>2. e \in Nat /\ d <= e /\ e*e \in Nat /\ d*d \in Nat \ {0} /\ d*d <= e*e
  <2>1. e \in Nat /\ d <= e
    OBVIOUS
  <2> HIDE DEF e
  <2>2. d*d <= e*d /\ e*d <= e*e
    BY <2>1, SMT
  <2>3. d*d \in Nat \ {0} /\ e*d \in Nat /\ e*e \in Nat
    BY <2>1, SMT
  <2> QED
    BY <2>1, <2>2, <2>3, SMT
<1> HIDE DEF e
<1>3. x \in Nat \ {0} /\ w \in Nat
  BY <1>1, <1>2 DEF Extent
<1>4. p \in {1, 2} => x <= w
  <2>1. CASE p = 1
    <3> DEFINE ee == e*e
    <3> DEFINE dd == d*d
    <3>1. ee \in Nat /\ dd \in Nat /\ dd <= ee
      BY <1>2
    <3> HIDE DEF ee, dd
    <3>2. dd <= Rounded(ee)
      BY <1>1, <3>1
    <3> QED
      BY <2>1, <3>2 DEF Extent, ee, dd
  <2>2. CASE p = 2
    BY <1>1, <1>2, <2>2 DEF Extent
  <2> QED
    BY <2>1, <2>2
<1>5. Room(F, n, p) = IF p \in {1, 2} THEN F*w ELSE 16
  BY DEF Room, e
<1>6. p = 3 => x = 1
  BY DEF Extent
<1> HIDE DEF x, w
<1>7. F*x \in Nat \ {0} /\ F*w \in Nat /\ (x <= w => F*x <= F*w)
  BY <1>3, SMT
<1>8. F*x <= Room(F, n, p)
  <2>1. CASE p \in {1, 2}
    BY <1>4, <1>5, <1>7, <2>1
  <2>2. CASE p = 3
    BY <1>5, <1>6, <2>2
  <2> QED
    BY <2>1, <2>2
<1> QED
  BY <1>7, <1>8 DEF x

Total(K, F, n) ==
  Room(F, n, 1)*Cardinality(K[1]) + Room(F, n, 2)*Cardinality(K[2]) + 16*Cardinality(K[3])

(* The data of a message end before those of the next begin, and the last  *)
(* before the total.                                                       *)
LEMMA PlacesApart ==
  ASSUME NEW K, Parts(K), NEW F \in 1..6, NEW n \in Nat
  PROVE  /\ \A p \in 1..3 : \A i \in K[p] :
              Place(K, F, n, p, i) \in Nat /\ Place(K, F, n, p, i) + Room(F, n, p) <= Total(K, F, n)
         /\ \A p, q \in 1..3 : \A i \in K[p], j \in K[q] :
              MsgSlot(K, p, i) < MsgSlot(K, q, j) =>
                Place(K, F, n, p, i) + Room(F, n, p) <= Place(K, F, n, q, j)
<1> DEFINE a == Room(F, n, 1)
<1> DEFINE b == Room(F, n, 2)
<1> DEFINE c == Room(F, n, 3)
<1> DEFINE c1 == Cardinality(K[1])
<1> DEFINE c2 == Cardinality(K[2])
<1> DEFINE c3 == Cardinality(K[3])
<1> DEFINE k(p, i) == RankIn(K[p], i)
<1>1. a \in Nat /\ b \in Nat /\ c \in Nat /\ c = 16
  <2>1. F \in Nat
    OBVIOUS
  <2>2. 1 \in 1..3 /\ 2 \in 1..3
    OBVIOUS
  <2>3. Room(F, n, 1) \in Nat /\ Room(F, n, 2) \in Nat
    BY <2>1, <2>2, RoomIs, Zenon
  <2> QED
    BY <2>3 DEF Room
<1>2. /\ c1 \in Nat /\ c2 \in Nat /\ c3 \in Nat
      /\ \A i \in K[1] : k(1, i) \in 0..c1 - 1
      /\ \A i \in K[2] : k(2, i) \in 0..c2 - 1
      /\ \A i \in K[3] : k(3, i) \in 0..c3 - 1
      /\ Before(K, 1) = 0 /\ Before(K, 2) = c1 /\ Before(K, 3) = c1 + c2
  BY PartsCount
<1>3. /\ \A i \in K[1] : Place(K, F, n, 1, i) = a*k(1, i) /\ MsgSlot(K, 1, i) = k(1, i) + 1
      /\ \A i \in K[2] : Place(K, F, n, 2, i) = a*c1 + b*k(2, i) /\ MsgSlot(K, 2, i) = c1 + k(2, i) + 1
      /\ \A i \in K[3] : /\ Place(K, F, n, 3, i) = a*c1 + b*c2 + c*k(3, i)
                         /\ MsgSlot(K, 3, i) = c1 + c2 + k(3, i) + 1
  <2>1. a*c1 \in Nat /\ b*c2 \in Nat
    <3> HIDE DEF a, b, c1, c2
    <3> QED
      BY <1>1, <1>2, SMT
  <2>2. \A i \in K[1] : a*k(1, i) \in Nat
    <3> SUFFICES ASSUME NEW i \in K[1] PROVE a*k(1, i) \in Nat
      OBVIOUS
    <3> DEFINE v == k(1, i)
    <3>1. v \in Nat
      BY <1>2
    <3> HIDE DEF v, a
    <3>2. a*v \in Nat
      BY <1>1, <3>1, SMT
    <3> QED
      BY <3>2 DEF v
  <2>3. \A i \in K[2] : b*k(2, i) \in Nat
    <3> SUFFICES ASSUME NEW i \in K[2] PROVE b*k(2, i) \in Nat
      OBVIOUS
    <3> DEFINE v == k(2, i)
    <3>1. v \in Nat
      BY <1>2
    <3> HIDE DEF v, b
    <3>2. b*v \in Nat
      BY <1>1, <3>1, SMT
    <3> QED
      BY <3>2 DEF v
  <2>8. \A i \in K[3] : c*k(3, i) \in Nat
    <3> SUFFICES ASSUME NEW i \in K[3] PROVE c*k(3, i) \in Nat
      OBVIOUS
    <3> DEFINE v == k(3, i)
    <3>1. v \in Nat
      BY <1>2
    <3> HIDE DEF v, c
    <3>2. c*v \in Nat
      BY <1>1, <3>1, SMT
    <3> QED
      BY <3>2 DEF v
  <2>4. \A i \in K[1] : Place(K, F, n, 1, i) = 0 + 0 + a*k(1, i)
    BY DEF Place
  <2>5. \A i \in K[2] : Place(K, F, n, 2, i) = a*c1 + 0 + b*k(2, i)
    BY DEF Place
  <2>6. \A i \in K[3] : Place(K, F, n, 3, i) = a*c1 + b*c2 + c*k(3, i)
    BY DEF Place
  <2>7. \A p \in 1..3 : \A i \in K[p] : MsgSlot(K, p, i) = Before(K, p) + k(p, i) + 1
    BY DEF MsgSlot
  <2> HIDE DEF a, b, c, c1, c2, k
  <2> QED
    BY <1>1, <1>2, <2>1, <2>2, <2>3, <2>4, <2>5, <2>6, <2>7, <2>8
<1>4. Total(K, F, n) = a*c1 + b*c2 + c*c3
  <2>1. Total(K, F, n) = a*c1 + b*c2 + 16*c3
    BY DEF Total
  <2> QED
    BY <1>1, <2>1
<1> HIDE DEF a, b, c, c1, c2, c3, k
<1>5. ASSUME NEW w \in Nat, NEW x \in Nat, NEW y \in Nat, x < y PROVE w*x + w <= w*y /\ w*x \in Nat
  <2>1. PICK z \in Nat : y = x + 1 + z
    <3>1. y - x - 1 \in Nat /\ y = x + 1 + (y - x - 1)
      BY <1>5
    <3> QED
      BY <3>1
  <2>2. w*y = w*x + w + w*z /\ w*z \in Nat /\ w*x \in Nat
    BY <2>1, SMT
  <2> DEFINE u == w*x
  <2> DEFINE v == w*z
  <2>3. u \in Nat /\ v \in Nat /\ w*y = u + w + v
    BY <2>2
  <2> HIDE DEF u, v
  <2>4. u + w + v >= u + w
    BY <2>3
  <2> QED
    BY <2>3, <2>4 DEF u
<1> DEFINE ac == a*c1
<1> DEFINE bc == b*c2
<1> DEFINE cc == c*c3
<1> DEFINE abc == ac + bc
<1>6. ac \in Nat /\ bc \in Nat /\ cc \in Nat
  BY <1>1, <1>2, SMT
<1>7. /\ \A i \in K[1] : a*k(1, i) \in Nat /\ a*k(1, i) + a <= ac
      /\ \A i \in K[2] : b*k(2, i) \in Nat /\ b*k(2, i) + b <= bc
      /\ \A i \in K[3] : c*k(3, i) \in Nat /\ c*k(3, i) + c <= cc
  <2>1. \A i \in K[1] : k(1, i) \in Nat /\ k(1, i) < c1
    BY <1>2
  <2>2. \A i \in K[2] : k(2, i) \in Nat /\ k(2, i) < c2
    BY <1>2
  <2>3. \A i \in K[1] : a*k(1, i) \in Nat /\ a*k(1, i) + a <= ac
    BY <1>1, <1>2, <1>5, <2>1
  <2>4. \A i \in K[2] : b*k(2, i) \in Nat /\ b*k(2, i) + b <= bc
    BY <1>1, <1>2, <1>5, <2>2
  <2>6. \A i \in K[3] : k(3, i) \in Nat /\ k(3, i) < c3
    BY <1>2
  <2>5. \A i \in K[3] : c*k(3, i) \in Nat /\ c*k(3, i) + c <= cc
    BY <1>1, <1>2, <1>5, <2>6
  <2> QED
    BY <2>3, <2>4, <2>5
<1>8. /\ Total(K, F, n) = ac + bc + cc
      /\ \A i \in K[2] : Place(K, F, n, 2, i) = ac + b*k(2, i)
      /\ \A i \in K[3] : Place(K, F, n, 3, i) = abc + c*k(3, i)
  BY <1>3, <1>4
<1>11. abc \in Nat /\ abc = ac + bc
  BY <1>6
<1> HIDE DEF ac, bc, cc, abc
<1>9. ASSUME NEW p \in 1..3, NEW i \in K[p]
      PROVE  Place(K, F, n, p, i) \in Nat /\ Place(K, F, n, p, i) + Room(F, n, p) <= Total(K, F, n)
  <2>1. CASE p = 1
    <3> DEFINE v == a*k(1, i)
    <3>1. Place(K, F, n, p, i) = v /\ v \in Nat /\ v + a <= ac /\ Room(F, n, p) = a
      BY <1>3, <1>7, <2>1 DEF a
    <3> HIDE DEF v
    <3> QED
      BY <1>1, <1>2, <1>6, <1>8, <1>11, <3>1
  <2>2. CASE p = 2
    <3> DEFINE v == b*k(2, i)
    <3>1. Place(K, F, n, p, i) = ac + v /\ v \in Nat /\ v + b <= bc /\ Room(F, n, p) = b
      BY <1>7, <1>8, <2>2 DEF b
    <3> HIDE DEF v
    <3> QED
      BY <1>1, <1>2, <1>6, <1>8, <1>11, <3>1
  <2>3. CASE p = 3
    <3> DEFINE v == c*k(3, i)
    <3>1. Place(K, F, n, p, i) = abc + v /\ v \in Nat /\ v + c <= cc /\ Room(F, n, p) = c
      BY <1>7, <1>8, <2>3 DEF c
    <3> HIDE DEF v
    <3> QED
      BY <1>1, <1>2, <1>6, <1>8, <1>11, <3>1
  <2> QED
    BY <2>1, <2>2, <2>3
<1>10. ASSUME NEW p \in 1..3, NEW q \in 1..3, NEW i \in K[p], NEW j \in K[q],
              MsgSlot(K, p, i) < MsgSlot(K, q, j)
       PROVE  Place(K, F, n, p, i) + Room(F, n, p) <= Place(K, F, n, q, j)
  <2>1. CASE p = 1 /\ q = 1
    <3>1. k(1, i) \in Nat /\ k(1, j) \in Nat /\ k(1, i) < k(1, j)
      BY <1>2, <1>3, <1>10, <2>1
    <3>2. a*k(1, i) + a <= a*k(1, j)
      BY <1>1, <1>5, <3>1
    <3> QED
      BY <1>3, <2>1, <3>2 DEF a
  <2>2. CASE p = 2 /\ q = 2
    <3>1. k(2, i) \in Nat /\ k(2, j) \in Nat /\ k(2, i) < k(2, j)
      BY <1>2, <1>3, <1>10, <2>2
    <3> DEFINE v == b*k(2, i)
    <3> DEFINE w == b*k(2, j)
    <3>2. v + b <= w
      BY <1>1, <1>5, <3>1
    <3>3. v \in Nat /\ w \in Nat
      BY <1>7, <2>2
    <3>4. Place(K, F, n, p, i) = ac + v /\ Place(K, F, n, q, j) = ac + w /\ Room(F, n, p) = b
      BY <1>8, <2>2 DEF b
    <3> HIDE DEF v, w
    <3> QED
      BY <1>1, <1>6, <1>11, <3>2, <3>3, <3>4
  <2>3. CASE p = 3 /\ q = 3
    <3>1. k(3, i) \in Nat /\ k(3, j) \in Nat /\ k(3, i) < k(3, j)
      BY <1>2, <1>3, <1>10, <2>3
    <3> DEFINE v == c*k(3, i)
    <3> DEFINE w == c*k(3, j)
    <3>2. v + c <= w
      BY <1>1, <1>5, <3>1
    <3>3. v \in Nat /\ w \in Nat
      BY <1>7, <2>3
    <3>4. /\ Place(K, F, n, p, i) = abc + v /\ Place(K, F, n, q, j) = abc + w
          /\ Room(F, n, p) = c
      BY <1>7, <1>8, <2>3 DEF c
    <3> HIDE DEF v, w
    <3> QED
      BY <1>1, <1>6, <1>11, <3>2, <3>3, <3>4
  <2>4. CASE p = 1 /\ q = 2
    <3> DEFINE v == a*k(1, i)
    <3> DEFINE w == b*k(2, j)
    <3>1. /\ v \in Nat /\ v + a <= ac /\ w \in Nat /\ Room(F, n, p) = a
          /\ Place(K, F, n, p, i) = v /\ Place(K, F, n, q, j) = ac + w
      BY <1>3, <1>7, <1>8, <2>4 DEF a
    <3> HIDE DEF v, w
    <3> QED
      BY <1>1, <1>6, <1>11, <3>1
  <2>5. CASE p = 1 /\ q = 3
    <3> DEFINE v == a*k(1, i)
    <3> DEFINE w == c*k(3, j)
    <3>1. /\ v \in Nat /\ v + a <= ac /\ w \in Nat /\ Room(F, n, p) = a
          /\ Place(K, F, n, p, i) = v /\ Place(K, F, n, q, j) = abc + w
      BY <1>3, <1>7, <1>8, <2>5 DEF a
    <3> HIDE DEF v, w
    <3> QED
      BY <1>1, <1>6, <1>11, <3>1
  <2>6. CASE p = 2 /\ q = 3
    <3> DEFINE v == b*k(2, i)
    <3> DEFINE w == c*k(3, j)
    <3>1. /\ v \in Nat /\ v + b <= bc /\ w \in Nat /\ Room(F, n, p) = b
          /\ Place(K, F, n, p, i) = ac + v /\ Place(K, F, n, q, j) = abc + w
      BY <1>7, <1>8, <2>6 DEF b
    <3> HIDE DEF v, w
    <3> QED
      BY <1>1, <1>6, <1>11, <3>1
  <2>7. ~(p > q)
    <3>1. \A x \in K[1] : MsgSlot(K, 1, x) \in 1..c1
      BY <1>2, <1>3
    <3>2. \A x \in K[2] : MsgSlot(K, 2, x) \in c1 + 1..c1 + c2
      BY <1>2, <1>3
    <3>3. \A x \in K[3] : MsgSlot(K, 3, x) > c1 + c2 /\ MsgSlot(K, 3, x) \in Nat
      BY <1>2, <1>3
    <3> QED
      BY <1>2, <1>10, <3>1, <3>2, <3>3
  <2> QED
    BY <2>1, <2>2, <2>3, <2>4, <2>5, <2>6, <2>7
<1> QED
  BY <1>9, <1>10

(* SetupCommBuffers counts every neighbour, so no exchange needs more.     *)
LEMMA CountedAreWithin ==
  ASSUME NEW r, NEW p \in 1..3, NEW S \in SUBSET (1..Entries(p)),
         \A i \in S : HasNeighbour(r, tp, Dirs[p][i]),
         NEW table, table = RecvTable(1)[p],
         NEW H, H = {i \in DOMAIN table : HasNeighbour(r, tp, table[i].dir)}
  PROVE  Cardinality(S) \in Nat /\ Cardinality(H) \in Nat /\ Cardinality(S) <= Cardinality(H)
<1>1. Listed(RecvTable(1))
  <2>1. 1 \in Nat
    OBVIOUS
  <2> QED
    BY <2>1, RecvListed
<1>2. DOMAIN table = 1..Entries(p) /\ \A i \in 1..Entries(p) : table[i].dir = Dirs[p][i]
  BY <1>1 DEF Listed, Tuple
<1>3. H \in SUBSET (1..Entries(p)) /\ S \in SUBSET H
  BY <1>2
<1>4. Entries(p) \in Nat
  BY DEF Entries
<1>5. IsFiniteSet(1..Entries(p))
  BY <1>4, FS_Interval
<1>6. IsFiniteSet(H)
  BY <1>3, <1>5, FS_Subset
<1>7. IsFiniteSet(S) /\ Cardinality(S) <= Cardinality(H)
  BY <1>3, <1>6, FS_Subset
<1> QED
  BY <1>6, <1>7, FS_CardinalityType

(* The buffer of SetupCommBuffers holds the total of any exchange.         *)
LEMMA BufferSuffices ==
  ASSUME nx \in Nat, NEW r, NEW K, K \in [1..3 -> SUBSET Int],
         \A p \in 1..3 : K[p] \subseteq 1..Entries(p),
         \A p \in 1..3 : \A i \in K[p] : HasNeighbour(r, tp, Dirs[p][i]),
         NEW F \in 1..6
  PROVE  /\ Total(K, F, nx) \in Nat /\ CommBufSize(r) \in Nat
         /\ Total(K, F, nx) <= CommBufSize(r)
<1> DEFINE H(t) == {i \in DOMAIN t : HasNeighbour(r, tp, t[i].dir)}
<1> DEFINE h1 == Cardinality(H(RecvFaces(1, 1, 1)))
<1> DEFINE h2 == Cardinality(H(RecvEdges(1, 1, 1)))
<1> DEFINE h3 == Cardinality(H(RecvCorners(1, 1, 1)))
<1> DEFINE c1 == Cardinality(K[1])
<1> DEFINE c2 == Cardinality(K[2])
<1> DEFINE c3 == Cardinality(K[3])
<1>1. /\ RecvTable(1)[1] = RecvFaces(1, 1, 1) /\ RecvTable(1)[2] = RecvEdges(1, 1, 1)
      /\ RecvTable(1)[3] = RecvCorners(1, 1, 1)
  BY DEF RecvTable
<1>2. 1 \in 1..3 /\ 2 \in 1..3 /\ 3 \in 1..3
  OBVIOUS
<1>12. ASSUME NEW p \in 1..3, NEW t, t = RecvTable(1)[p]
       PROVE  /\ Cardinality(K[p]) \in Nat /\ Cardinality(H(t)) \in Nat
              /\ Cardinality(K[p]) <= Cardinality(H(t))
  <2> DEFINE S == K[p]
  <2> DEFINE h == H(t)
  <2>1. S \in SUBSET (1..Entries(p)) /\ \A i \in S : HasNeighbour(r, tp, Dirs[p][i])
    OBVIOUS
  <2>2. h = {i \in DOMAIN t : HasNeighbour(r, tp, t[i].dir)}
    OBVIOUS
  <2> HIDE DEF S, h
  <2>3. Cardinality(S) \in Nat /\ Cardinality(h) \in Nat /\ Cardinality(S) <= Cardinality(h)
    BY <1>12, <2>1, <2>2, CountedAreWithin
  <2> QED
    BY <2>3 DEF S, h
<1> HIDE DEF H
<1>3. c1 \in Nat /\ h1 \in Nat /\ c1 <= h1
  BY <1>1, <1>2, <1>12
<1>4. c2 \in Nat /\ h2 \in Nat /\ c2 <= h2
  BY <1>1, <1>2, <1>12
<1>5. c3 \in Nat /\ h3 \in Nat /\ c3 <= h3
  BY <1>1, <1>2, <1>12
<1> DEFINE P == PlaneSize
<1> DEFINE E == EdgeSize
<1>6. P \in Nat /\ E \in Nat
  <2>1. 1 \in Nat
    OBVIOUS
  <2>2. Room(1, nx, 1) \in Nat /\ Room(1, nx, 2) \in Nat
    BY <1>2, <2>1, RoomIs, Zenon
  <2>3. Room(1, nx, 1) = 1*P /\ Room(1, nx, 2) = 1*E
    BY DEF Room, PlaneSize, EdgeSize
  <2>4. \A k \in Nat : Rounded(k) \in Nat
    <3> SUFFICES ASSUME NEW k \in Nat PROVE Rounded(k) \in Nat
      OBVIOUS
    <3>1. (k + 15) \div 16 \in Nat
      OBVIOUS
    <3> QED
      BY <3>1 DEF Rounded
  <2>5. (nx + 1)*(nx + 1) \in Nat /\ nx + 1 \in Nat
    BY SMT
  <2> QED
    BY <2>4, <2>5 DEF PlaneSize, EdgeSize
<1>7. /\ Total(K, F, nx) = (F*P)*c1 + (F*E)*c2 + 16*c3
      /\ CommBufSize(r) = h1*P*6 + h2*E*6 + h3*16
  BY DEF Total, Room, CommBufSize, PlaneSize, EdgeSize, CornerSize, H
<1> HIDE DEF h1, h2, h3, c1, c2, c3, P, E
<1>8. ASSUME NEW w \in Nat, NEW x \in Nat, NEW y \in Nat, x <= y
      PROVE  (F*w)*x \in Nat /\ y*w*6 \in Nat /\ (F*w)*x <= y*w*6
  <2> DEFINE u == w*x
  <2> DEFINE v == w*y
  <2>1. u \in Nat /\ v \in Nat
    BY SMT
  <2>2. u <= v
    <3>1. PICK z \in Nat : y = x + z
      <4>1. y - x \in Nat /\ y = x + (y - x)
        BY <1>8
      <4> QED
        BY <4>1
    <3>2. w*y = w*x + w*z /\ w*z \in Nat
      BY <3>1, SMT
    <3> DEFINE k == w*z
    <3>3. v = u + k /\ k \in Nat
      BY <3>2
    <3> HIDE DEF u, v, k
    <3> QED
      BY <2>1, <3>3
  <2>3. (F*w)*x = F*u /\ y*w*6 = 6*v
    BY SMT
  <2> HIDE DEF u, v
  <2>4. F*u \in Nat /\ F*u <= 6*v
    <3>1. F = 1 \/ F = 2 \/ F = 3 \/ F = 4 \/ F = 5 \/ F = 6
      OBVIOUS
    <3> QED
      BY <2>1, <2>2, <3>1
  <2>5. 6*v \in Nat
    BY <2>1
  <2> QED
    BY <2>3, <2>4, <2>5
<1> DEFINE a == (F*P)*c1
<1> DEFINE b == (F*E)*c2
<1> DEFINE x == h1*P*6
<1> DEFINE y == h2*E*6
<1>9. a \in Nat /\ x \in Nat /\ a <= x
  BY <1>3, <1>6, <1>8
<1>10. b \in Nat /\ y \in Nat /\ b <= y
  BY <1>4, <1>6, <1>8
<1>11. Total(K, F, nx) = a + b + 16*c3 /\ CommBufSize(r) = x + y + h3*16
  BY <1>7
<1> HIDE DEF a, b, x, y
<1> QED
  BY <1>5, <1>9, <1>10, <1>11

(* Parts that begin at a message's place and hold its values.              *)
HeldIn(a, z, K, F, n, d) ==
  \A p \in 1..3 : \A i \in K[p] :
    /\ a[MsgSlot(K, p, i)] = Place(K, F, n, p, i)
    /\ z[MsgSlot(K, p, i)] = Place(K, F, n, p, i) + F*Extent(p, d)

(* So the messages of a rank fit into its buffer, each in its own part.    *)
LEMMA MessagesFit ==
  ASSUME nx \in Nat, NEW r, NEW K, Parts(K), \A p \in 1..3 : K[p] \subseteq 1..Entries(p),
         \A p \in 1..3 : \A i \in K[p] : HasNeighbour(r, tp, Dirs[p][i]),
         NEW F \in 1..6, NEW d \in Nat \ {0}, d <= nx + 1,
         NEW a, NEW z, NEW S, Spans(S, All(K), a, z), HeldIn(a, z, K, F, nx, d)
  PROVE  FitIn(S, All(K), CommBufSize(r))
<1>1. All(K) \in Nat
  BY PartsCount
<1>2. /\ Total(K, F, nx) \in Nat /\ CommBufSize(r) \in Nat
      /\ Total(K, F, nx) <= CommBufSize(r)
  BY BufferSuffices DEF Parts
<1>4. ASSUME NEW p \in 1..3, NEW i \in K[p]
      PROVE  /\ a[MsgSlot(K, p, i)] \in Nat /\ z[MsgSlot(K, p, i)] \in Nat
             /\ a[MsgSlot(K, p, i)] < z[MsgSlot(K, p, i)]
             /\ z[MsgSlot(K, p, i)] <= Place(K, F, nx, p, i) + Room(F, nx, p)
             /\ z[MsgSlot(K, p, i)] <= CommBufSize(r)
  <2> DEFINE at == Place(K, F, nx, p, i)
  <2> DEFINE len == F*Extent(p, d)
  <2>1. at \in Nat /\ at + Room(F, nx, p) <= Total(K, F, nx)
    BY PlacesApart
  <2>2. len \in Nat \ {0} /\ len <= Room(F, nx, p)
    BY RoomSuffices
  <2>3. Room(F, nx, p) \in Nat
    <3>1. F \in Nat
      OBVIOUS
    <3> QED
      BY <3>1, RoomIs
  <2>4. a[MsgSlot(K, p, i)] = at /\ z[MsgSlot(K, p, i)] = at + len
    BY Zenon DEF HeldIn
  <2> HIDE DEF at, len
  <2> QED
    BY <1>2, <2>1, <2>2, <2>3, <2>4 DEF at
<1>5. \A j \in 1..All(K) : a[j] \in Nat /\ z[j] \in Nat /\ a[j] < z[j] /\ z[j] <= CommBufSize(r)
  BY <1>4, MsgSlotsAre
<1>6. ASSUME NEW x \in 1..All(K), NEW y \in 1..All(K), x < y PROVE z[x] <= a[y]
  <2>8. PICK p \in 1..3 : \E i \in K[p] : x = MsgSlot(K, p, i)
    BY MsgSlotsAre
  <2>1. PICK i \in K[p] : x = MsgSlot(K, p, i)
    BY <2>8
  <2>9. PICK q \in 1..3 : \E j \in K[q] : y = MsgSlot(K, q, j)
    BY MsgSlotsAre
  <2>2. PICK j \in K[q] : y = MsgSlot(K, q, j)
    BY <2>9
  <2>3. Place(K, F, nx, p, i) + Room(F, nx, p) <= Place(K, F, nx, q, j)
    BY <1>6, <2>1, <2>2, PlacesApart
  <2>4. z[x] <= Place(K, F, nx, p, i) + Room(F, nx, p) /\ z[x] \in Nat
    BY <1>4, <2>1
  <2>5. a[y] = Place(K, F, nx, q, j)
    BY <2>2, Zenon DEF HeldIn
  <2>6. Place(K, F, nx, p, i) \in Nat /\ Place(K, F, nx, q, j) \in Nat
    BY PlacesApart
  <2>7. Room(F, nx, p) \in Nat
    <3>1. F \in Nat
      OBVIOUS
    <3> QED
      BY <3>1, RoomIs
  <2> QED
    BY <2>3, <2>4, <2>5, <2>6, <2>7
<1>7. \A x, y \in 1..All(K) : x # y => z[x] <= a[y] \/ z[y] <= a[x]
  <2> SUFFICES ASSUME NEW x \in 1..All(K), NEW y \in 1..All(K), x # y
               PROVE  z[x] <= a[y] \/ z[y] <= a[x]
    OBVIOUS
  <2>1. x < y \/ y < x
    BY <1>1
  <2> QED
    BY <1>6, <2>1
<1> DEFINE N == All(K)
<1> DEFINE size == CommBufSize(r)
<1>8. N \in Nat /\ Spans(S, N, a, z) /\ KeptApart(N, a, z, size)
  BY <1>1, <1>5, <1>7, Zenon DEF KeptApart
<1> HIDE DEF N, size
<1>9. FitIn(S, N, size)
  BY <1>8, PartsFit
<1> QED
  BY <1>9 DEF N, size

-----------------------------------------------------------------------------
(* What the inductive invariant says of each rank.                         *)
StateIs ==
  /\ kind \in DOMAIN Exchanges /\ Exchanges[kind].fields \in 1..6
  /\ tp \in Nat \ {0, 1} /\ nx \in Nat /\ Ranks = 0..Cube(tp) - 1
  /\ D = Size(kind, nx) /\ D \in Nat \ {0} /\ D <= nx + 1
  /\ \A r \in Ranks :
       \/ posted[r] = << >> /\ ~Made(turn, "CommRecv", {"CommSend", "Unpack", "done"}, r)
       \/ PostedWell(posted[r], Awaits(r, kind, tp), Exchanges[kind].fields, nx, D)
  /\ \A r \in Ranks :
       \/ sent[r] = << >> /\ ~Made(turn, "CommSend", {"Unpack", "done"}, r)
       \/ SentWell(sent[r], Gives(r, kind, tp), Exchanges[kind].fields, nx, D, r, tp)

(* The inductive invariant implies them.                                   *)
LEMMA StateFacts ==
  ASSUME CommAssumption, CommIInv
  PROVE  StateIs
<1>1. /\ kind \in DOMAIN Exchanges /\ Exchanges[kind].fields \in 1..6
      /\ tp \in Nat \ {0, 1} /\ nx \in Nat \ {0} /\ Ranks = 0..Cube(tp) - 1
  BY CommAssumption, ExchangesAre DEF CommIInv, TurnInv, Ranks
<1>2. D = Size(kind, nx) /\ D \in Nat \ {0} /\ D <= nx + 1
  BY <1>1 DEF D, Size
<1>3. ASSUME NEW r \in Ranks
      PROVE  \/ posted[r] = << >> /\ ~Made(turn, "CommRecv", {"CommSend", "Unpack", "done"}, r)
             \/ PostedWell(posted[r], Awaits(r, kind, tp), Exchanges[kind].fields, nx, D)
  <2>1. CASE Made(turn, "CommRecv", {"CommSend", "Unpack", "done"}, r)
    <3>1. PostedAs(posted[r], r, kind, tp, nx)
      BY <2>1, Zenon DEF CommIInv, PostedInv
    <3>2. PostedWell(posted[r], Awaits(r, kind, tp), Exchanges[kind].fields, nx, Size(kind, nx))
      BY <1>1, <3>1, PostedFacts
    <3> QED
      BY <1>2, <3>2, Zenon
  <2>2. CASE ~Made(turn, "CommRecv", {"CommSend", "Unpack", "done"}, r)
    BY <2>2, Zenon DEF CommIInv, PostedInv
  <2> QED
    BY <2>1, <2>2
<1>4. ASSUME NEW r \in Ranks
      PROVE  \/ sent[r] = << >> /\ ~Made(turn, "CommSend", {"Unpack", "done"}, r)
             \/ SentWell(sent[r], Gives(r, kind, tp), Exchanges[kind].fields, nx, D, r, tp)
  <2>1. CASE Made(turn, "CommSend", {"Unpack", "done"}, r)
    <3>1. SentAs(sent[r], r, kind, tp, nx)
      BY <2>1, Zenon DEF CommIInv, SentInv
    <3>2. SentWell(sent[r], Gives(r, kind, tp), Exchanges[kind].fields, nx, Size(kind, nx), r, tp)
      BY <1>1, <3>1, SentFacts
    <3> QED
      BY <1>2, <3>2, Zenon
  <2>2. CASE ~Made(turn, "CommSend", {"Unpack", "done"}, r)
    BY <2>2, Zenon DEF CommIInv, SentInv
  <2> QED
    BY <2>1, <2>2
<1>5. nx \in Nat
  BY <1>1
<1> QED
  BY <1>1, <1>2, <1>3, <1>4, <1>5, Zenon DEF StateIs

(* There are at most 26 messages.                                          *)
LEMMA FewMessages ==
  ASSUME NEW K, Parts(K), \A p \in 1..3 : K[p] \subseteq 1..Entries(p)
  PROVE  All(K) \in 0..26
<1>1. ASSUME NEW p \in 1..3 PROVE Cardinality(K[p]) \in 0..Entries(p)
  <2>1. Entries(p) \in Nat /\ K[p] \in SUBSET (1..Entries(p))
    BY DEF Entries
  <2>2. IsFiniteSet(1..Entries(p)) /\ Cardinality(1..Entries(p)) = Entries(p)
    BY <2>1, FS_Interval
  <2>3. Cardinality(K[p]) <= Entries(p)
    BY <2>1, <2>2, FS_Subset
  <2> QED
    BY <2>1, <2>3, PartsCount
<1>2. Entries(1) = 6 /\ Entries(2) = 12 /\ Entries(3) = 8
  BY DEF Entries
<1>3. Cardinality(K[1]) \in 0..6 /\ Cardinality(K[2]) \in 0..12 /\ Cardinality(K[3]) \in 0..8
  BY <1>1, <1>2
<1> QED
  BY <1>3 DEF All

(* The request arrays suffice and every peer is a rank.                    *)
LEMMA TypesHold ==
  ASSUME CommAssumption, CommIInv
  PROVE  CommTypeOK
<1>1. StateIs /\ turn \in {"CommRecv", "CommSend", "Unpack", "done"} \X Ranks
  BY StateFacts DEF CommIInv, TurnInv
<1>2. ASSUME NEW r \in Ranks
      PROVE  /\ Len(posted[r]) <= 26
             /\ \A j \in DOMAIN posted[r] : Neighbour(r, tp, posted[r][j].msg.dir) \in Ranks
  <2> DEFINE K == Awaits(r, kind, tp)
  <2> DEFINE s == posted[r]
  <2>1. CASE s = << >>
    <3>1. Len(s) = 0 /\ DOMAIN s = {}
      BY <2>1
    <3> HIDE DEF s
    <3> QED
      BY <3>1 DEF s
  <2>2. CASE PostedWell(s, K, Exchanges[kind].fields, nx, D)
    <3>1. /\ Len(s) = All(K) /\ \A j \in DOMAIN s : \E p \in 1..3 : \E i \in K[p] : j = MsgSlot(K, p, i)
          /\ \A p \in 1..3 : \A i \in K[p] : s[MsgSlot(K, p, i)].msg.dir = Dirs[p][i]
      BY <2>2, Zenon DEF PostedWell
    <3>2. All(K) \in 0..26
      BY AwaitsAre, FewMessages
    <3>3. ASSUME NEW j \in DOMAIN s PROVE Neighbour(r, tp, s[j].msg.dir) \in Ranks
      <4>1. PICK p \in 1..3 : \E i \in K[p] : j = MsgSlot(K, p, i)
        BY <3>1
      <4>2. PICK i \in K[p] : j = MsgSlot(K, p, i)
        BY <4>1
      <4>3. s[j].msg.dir = Dirs[p][i]
        BY <3>1, <4>2
      <4> DEFINE q == Neighbour(r, tp, Dirs[p][i])
      <4>4. tp \in Nat \ {0, 1} /\ r \in 0..Cube(tp) - 1 /\ Ranks = 0..Cube(tp) - 1
        BY <1>1 DEF StateIs
      <4>5. q \in 0..Cube(tp) - 1
        BY <4>4, AwaitedIsGiven
      <4> QED
        BY <4>3, <4>4, <4>5
    <3> HIDE DEF s, K
    <3> QED
      BY <3>1, <3>2, <3>3, SMTT(30) DEF s
  <2> QED
    BY <1>1, <2>1, <2>2, Zenon DEF StateIs
<1>3. ASSUME NEW r \in Ranks
      PROVE  Len(sent[r]) <= 26 /\ \A j \in DOMAIN sent[r] : sent[r][j].to \in Ranks
  <2> DEFINE K == Gives(r, kind, tp)
  <2> DEFINE s == sent[r]
  <2>1. CASE s = << >>
    <3>1. Len(s) = 0 /\ DOMAIN s = {}
      BY <2>1
    <3> HIDE DEF s
    <3> QED
      BY <3>1 DEF s
  <2>2. CASE SentWell(s, K, Exchanges[kind].fields, nx, D, r, tp)
    <3>1. /\ Len(s) = All(K) /\ \A j \in DOMAIN s : \E p \in 1..3 : \E i \in K[p] : j = MsgSlot(K, p, i)
          /\ \A p \in 1..3 : \A i \in K[p] : s[MsgSlot(K, p, i)].to = Neighbour(r, tp, Dirs[p][i])
      BY <2>2, Zenon DEF SentWell
    <3>2. All(K) \in 0..26
      BY AwaitsAre, FewMessages
    <3>3. ASSUME NEW j \in DOMAIN s PROVE s[j].to \in Ranks
      <4>1. PICK p \in 1..3 : \E i \in K[p] : j = MsgSlot(K, p, i)
        BY <3>1
      <4>2. PICK i \in K[p] : j = MsgSlot(K, p, i)
        BY <4>1
      <4>3. s[j].to = Neighbour(r, tp, Dirs[p][i])
        BY <3>1, <4>2
      <4>4. tp \in Nat \ {0, 1} /\ r \in 0..Cube(tp) - 1 /\ Ranks = 0..Cube(tp) - 1
        BY <1>1 DEF StateIs
      <4> DEFINE q == Neighbour(r, tp, Dirs[p][i])
      <4>5. q \in 0..Cube(tp) - 1
        BY <4>4, GivenIsAwaited
      <4> QED
        BY <4>3, <4>4, <4>5
    <3> HIDE DEF s, K
    <3> QED
      BY <3>1, <3>2, <3>3, SMTT(30) DEF s
  <2> QED
    BY <1>1, <2>1, <2>2, Zenon DEF StateIs
<1> QED
  BY <1>1, <1>2, <1>3 DEF CommTypeOK

SentTo(from, r) == {k \in DOMAIN sent[from] : sent[from][k].to = r}

(* Before the first rank unpacks all have posted and sent.                 *)
LEMMA MatchHolds ==
  ASSUME CommAssumption, CommIInv
  PROVE  MessagesMatch
<1> SUFFICES ASSUME turn = <<"Unpack", 0>> PROVE MessagesMatch
  BY DEF MessagesMatch
<1> DEFINE F == Exchanges[kind].fields
<1>1. StateIs
  BY StateFacts
<1>2. \A r \in Ranks : /\ Made(turn, "CommRecv", {"CommSend", "Unpack", "done"}, r)
                       /\ Made(turn, "CommSend", {"Unpack", "done"}, r)
  BY DEF Made
<1>3. ASSUME NEW r \in Ranks
      PROVE  /\ PostedWell(posted[r], Awaits(r, kind, tp), F, nx, D)
             /\ SentWell(sent[r], Gives(r, kind, tp), F, nx, D, r, tp)
  BY <1>1, <1>2, Zenon DEF StateIs
<1>4. tp \in Nat \ {0, 1} /\ Ranks = 0..Cube(tp) - 1 /\ D \in Nat
  BY <1>1 DEF StateIs
<1> HIDE DEF F
<1>5. ASSUME NEW r \in Ranks, NEW j \in DOMAIN posted[r], NEW from,
             from = Neighbour(r, tp, posted[r][j].msg.dir),
             NEW X, X = SentTo(from, r)
      PROVE  /\ Cardinality(X) = 1
             /\ \A k \in X : Len(sent[from][k].data) = posted[r][j].msg.count
  <2>0. \A k : k \in X <=> k \in DOMAIN sent[from] /\ sent[from][k].to = r
    BY <1>5 DEF SentTo
  <2> DEFINE K == Awaits(r, kind, tp)
  <2> DEFINE G == Gives(from, kind, tp)
  <2>1. /\ \E p \in 1..3 : \E i \in K[p] : j = MsgSlot(K, p, i)
        /\ \A p \in 1..3 : \A i \in K[p] : /\ posted[r][MsgSlot(K, p, i)].msg.dir = Dirs[p][i]
                                           /\ Counting(posted[r][MsgSlot(K, p, i)].msg, Extent(p, D))
    <3> DEFINE s == posted[r]
    <3>1. PostedWell(s, K, F, nx, D)
      BY <1>3
    <3> HIDE DEF s, K
    <3>2. j \in DOMAIN s
      BY DEF s
    <3>3. /\ \E p \in 1..3 : \E i \in K[p] : j = MsgSlot(K, p, i)
          /\ \A p \in 1..3 : \A i \in K[p] : /\ s[MsgSlot(K, p, i)].msg.dir = Dirs[p][i]
                                             /\ Counting(s[MsgSlot(K, p, i)].msg, Extent(p, D))
      BY <3>1, <3>2, Zenon DEF PostedWell
    <3> QED
      BY <3>3, Zenon DEF s
  <2>2. PICK p \in 1..3 : \E i \in K[p] : j = MsgSlot(K, p, i)
    BY <2>1
  <2>3. PICK i \in K[p] : j = MsgSlot(K, p, i)
    BY <2>2
  <2>4. from = Neighbour(r, tp, Dirs[p][i]) /\ posted[r][j].msg.count = Extent(p, D)
    BY <1>5, <2>1, <2>3 DEF Counting
  <2>5. /\ from \in Ranks
        /\ \E x \in G[p] :
             /\ Neighbour(from, tp, Dirs[p][x]) = r
             /\ \A y \in 1..3 : \A z \in G[y] : Neighbour(from, tp, Dirs[y][z]) = r => y = p /\ z = x
    BY <1>4, <2>4, AwaitedIsGiven
  <2>6. PICK x \in G[p] :
             /\ Neighbour(from, tp, Dirs[p][x]) = r
             /\ \A y \in 1..3 : \A z \in G[y] : Neighbour(from, tp, Dirs[y][z]) = r => y = p /\ z = x
    BY <2>5
  <2> DEFINE s == sent[from]
  <2>7. /\ \A y \in 1..3 : \A z \in G[y] : /\ MsgSlot(G, y, z) \in DOMAIN s
                                           /\ s[MsgSlot(G, y, z)].to = Neighbour(from, tp, Dirs[y][z])
                                           /\ Len(s[MsgSlot(G, y, z)].data) = Extent(y, D)
        /\ \A k \in DOMAIN s : \E y \in 1..3 : \E z \in G[y] : k = MsgSlot(G, y, z)
    <3>1. SentWell(s, G, F, nx, D, from, tp)
      BY <1>3, <2>5
    <3> HIDE DEF s, G
    <3> QED
      BY <3>1, Zenon DEF SentWell
  <2> DEFINE m == MsgSlot(G, p, x)
  <2> HIDE DEF s, G, K
  <2>8. m \in X /\ Len(s[m].data) = Extent(p, D)
    BY <2>0, <2>6, <2>7, Zenon DEF s
  <2>9. ASSUME NEW k \in X PROVE k = m
    <3>1. PICK y \in 1..3 : \E z \in G[y] : k = MsgSlot(G, y, z)
      BY <2>0, <2>7 DEF s
    <3>2. PICK z \in G[y] : k = MsgSlot(G, y, z)
      BY <3>1
    <3>3. Neighbour(from, tp, Dirs[y][z]) = r
      BY <2>0, <2>7, <3>2, Zenon DEF s
    <3> QED
      BY <2>6, <3>2, <3>3
  <2> HIDE DEF m
  <2>10. X = {m}
    BY <2>8, <2>9
  <2> QED
    BY <2>4, <2>8, <2>10, FS_Singleton DEF s
<1>6. ASSUME NEW r \in Ranks, NEW j \in DOMAIN sent[r], NEW to, to = sent[r][j].to
      PROVE  \E k \in DOMAIN posted[to] : Neighbour(to, tp, posted[to][k].msg.dir) = r
  <2> DEFINE G == Gives(r, kind, tp)
  <2> DEFINE K == Awaits(to, kind, tp)
  <2>1. /\ \E p \in 1..3 : \E i \in G[p] : j = MsgSlot(G, p, i)
        /\ \A p \in 1..3 : \A i \in G[p] : sent[r][MsgSlot(G, p, i)].to = Neighbour(r, tp, Dirs[p][i])
    BY <1>3, Zenon DEF SentWell
  <2>2. PICK p \in 1..3 : \E i \in G[p] : j = MsgSlot(G, p, i)
    BY <2>1
  <2>3. PICK i \in G[p] : j = MsgSlot(G, p, i)
    BY <2>2
  <2>4. to = Neighbour(r, tp, Dirs[p][i])
    BY <1>6, <2>1, <2>3
  <2>5. to \in Ranks /\ \E x \in K[p] : Neighbour(to, tp, Dirs[p][x]) = r
    BY <1>4, <2>4, GivenIsAwaited
  <2>6. PICK x \in K[p] : Neighbour(to, tp, Dirs[p][x]) = r
    BY <2>5
  <2>7. MsgSlot(K, p, x) \in DOMAIN posted[to] /\ posted[to][MsgSlot(K, p, x)].msg.dir = Dirs[p][x]
    <3> DEFINE s == posted[to]
    <3>1. PostedWell(s, K, F, nx, D)
      BY <1>3, <2>5
    <3> HIDE DEF s, K
    <3>2. MsgSlot(K, p, x) \in DOMAIN s /\ s[MsgSlot(K, p, x)].msg.dir = Dirs[p][x]
      BY <3>1, Zenon DEF PostedWell
    <3> QED
      BY <3>2, Zenon DEF s
  <2> HIDE DEF K
  <2> QED
    BY <2>6, <2>7
<1>7. ASSUME NEW r \in Ranks, NEW i \in DOMAIN posted[r]
      PROVE  LET from == Neighbour(r, tp, posted[r][i].msg.dir)
                 from_r == {k \in DOMAIN sent[from] : sent[from][k].to = r}
             IN /\ Cardinality(from_r) = 1
                /\ \A k \in from_r : Len(sent[from][k].data) = posted[r][i].msg.count
  <2> DEFINE from == Neighbour(r, tp, posted[r][i].msg.dir)
  <2> DEFINE X == {k \in DOMAIN sent[from] : sent[from][k].to = r}
  <2>2. from = Neighbour(r, tp, posted[r][i].msg.dir)
    OBVIOUS
  <2>3. X = SentTo(from, r)
    BY DEF SentTo
  <2> HIDE DEF from, X
  <2>1. /\ Cardinality(X) = 1
        /\ \A k \in X : Len(sent[from][k].data) = posted[r][i].msg.count
    BY <1>5, <2>2, <2>3
  <2> QED
    BY <2>1, Zenon DEF from, X
<1>8. \A r \in Ranks : \A i \in DOMAIN sent[r] :
        LET to == sent[r][i].to
        IN \E k \in DOMAIN posted[to] : Neighbour(to, tp, posted[to][k].msg.dir) = r
  BY <1>6, Zenon
<1> QED
  BY <1>7, <1>8, Zenon DEF MessagesMatch

(* The values of a message are those it lists or counts, once for every    *)
(* field.                                                                  *)
LEMMA LengthIs ==
  ASSUME NEW e, NEW x \in Nat, Listing(e.msg, x) \/ Counting(e.msg, x)
  PROVE  Length(e) = Call.fields*x
<1>1. CASE Listing(e.msg, x)
  <2> DEFINE s == e.msg.nodes
  <2>1. "count" \notin DOMAIN e.msg /\ s = [q \in 1..x |-> s[q]]
    BY <1>1, Zenon DEF Listing
  <2> HIDE DEF s
  <2>2. Len(s) = x
    BY <2>1, LengthOf
  <2>3. Length(e) = Call.fields*Len(s)
    BY <2>1, Zenon DEF Length, s
  <2> QED
    BY <2>2, <2>3, Zenon
<1>2. CASE Counting(e.msg, x)
  BY <1>2, Zenon DEF Counting, Length
<1> QED
  BY <1>1, <1>2

UnpackedWell(s, K, F, n, d) ==
  /\ DOMAIN s = 1..All(K) /\ Len(s) = All(K)
  /\ \A p \in 1..3 : \A i \in K[p] :
       /\ s[MsgSlot(K, p, i)].at = Place(K, F, n, p, i)
       /\ s[MsgSlot(K, p, i)].msg.dir = Dirs[p][i]
       /\ \/ Listing(s[MsgSlot(K, p, i)].msg, Extent(p, d))
          \/ Counting(s[MsgSlot(K, p, i)].msg, Extent(p, d))

(* What the unpacking function takes each request for.                     *)
LEMMA UnpackFacts ==
  ASSUME kind \in DOMAIN Exchanges, nx \in Nat, NEW r
  PROVE  UnpackedWell(Unpacked(r), Awaits(r, kind, tp), Exchanges[kind].fields, nx, D)
<1> DEFINE K == Awaits(r, kind, tp)
<1> DEFINE T == UnpackTable(kind, D)
<1> DEFINE F == Exchanges[kind].fields
<1> DEFINE s == Unpacked(r)
<1>1. /\ Laid(s, K, T, F, nx)
      /\ \A p \in 1..3 : \A i \in K[p] :
           T[p][i].dir = Dirs[p][i] /\ (Listing(T[p][i], Extent(p, D)) \/ Counting(T[p][i], Extent(p, D)))
  BY UnpackLaid, Zenon
<1>2. All(K) \in Nat
  BY AwaitsAre, PartsCount
<1> HIDE DEF K, T, F, s
<1>3. /\ s = [j \in 1..All(K) |-> s[j]]
      /\ \A p \in 1..3 : \A i \in K[p] : s[MsgSlot(K, p, i)] = [at |-> Place(K, F, nx, p, i), msg |-> T[p][i]]
  BY <1>1, Zenon DEF Laid
<1>4. DOMAIN s = 1..All(K) /\ Len(s) = All(K)
  BY <1>2, <1>3, LengthOf
<1>5. ASSUME NEW p \in 1..3, NEW i \in K[p]
      PROVE  /\ s[MsgSlot(K, p, i)].at = Place(K, F, nx, p, i)
             /\ s[MsgSlot(K, p, i)].msg.dir = Dirs[p][i]
             /\ \/ Listing(s[MsgSlot(K, p, i)].msg, Extent(p, D))
                \/ Counting(s[MsgSlot(K, p, i)].msg, Extent(p, D))
  <2> DEFINE e == s[MsgSlot(K, p, i)]
  <2>1. e = [at |-> Place(K, F, nx, p, i), msg |-> T[p][i]]
    BY <1>3, Zenon
  <2> HIDE DEF e
  <2>2. e.at = Place(K, F, nx, p, i) /\ e.msg = T[p][i]
    BY <2>1
  <2> QED
    BY <1>1, <2>2, Zenon DEF e
<1> QED
  BY <1>4, <1>5, Zenon DEF UnpackedWell, K, F, s

(* The unpacking functions take each request for what CommRecv posted, and *)
(* read its data where they lie.                                           *)
LEMMA UnpackMatches ==
  ASSUME CommAssumption, CommIInv
  PROVE  UnpacksWhatWasPosted
<1> SUFFICES ASSUME turn[1] = "Unpack", NEW r \in Ranks
             PROVE  LET u == Unpacked(r) IN
                    /\ Len(u) = Len(posted[r])
                    /\ \A i \in DOMAIN u : /\ u[i].msg.dir = posted[r][i].msg.dir
                                           /\ u[i].at = posted[r][i].at
                                           /\ Length(u[i]) = Length(posted[r][i])
  BY Zenon DEF UnpacksWhatWasPosted
<1> DEFINE F == Exchanges[kind].fields
<1> DEFINE K == Awaits(r, kind, tp)
<1> DEFINE u == Unpacked(r)
<1> DEFINE s == posted[r]
<1>1. StateIs
  BY StateFacts
<1>2. Made(turn, "CommRecv", {"CommSend", "Unpack", "done"}, r)
  BY DEF Made
<1>3. PostedWell(s, K, F, nx, D)
  BY <1>1, <1>2, Zenon DEF StateIs
<1>4. kind \in DOMAIN Exchanges /\ nx \in Nat /\ D \in Nat
  BY <1>1 DEF StateIs
<1>5. UnpackedWell(u, K, F, nx, D)
  BY <1>4, UnpackFacts
<1>6. Parts(K)
  BY AwaitsAre
<1> HIDE DEF F, K, u, s
<1>7. /\ DOMAIN s = 1..All(K) /\ Len(s) = All(K)
      /\ \A p \in 1..3 : \A i \in K[p] :
           /\ s[MsgSlot(K, p, i)].at = Place(K, F, nx, p, i)
           /\ s[MsgSlot(K, p, i)].msg.dir = Dirs[p][i]
           /\ Counting(s[MsgSlot(K, p, i)].msg, Extent(p, D))
      /\ \A j \in DOMAIN s : \E p \in 1..3 : \E i \in K[p] : j = MsgSlot(K, p, i)
  BY <1>3, Zenon DEF PostedWell
<1>8. /\ DOMAIN u = 1..All(K) /\ Len(u) = All(K)
      /\ \A p \in 1..3 : \A i \in K[p] :
           /\ u[MsgSlot(K, p, i)].at = Place(K, F, nx, p, i)
           /\ u[MsgSlot(K, p, i)].msg.dir = Dirs[p][i]
           /\ \/ Listing(u[MsgSlot(K, p, i)].msg, Extent(p, D))
              \/ Counting(u[MsgSlot(K, p, i)].msg, Extent(p, D))
  BY <1>5, Zenon DEF UnpackedWell
<1>9. ASSUME NEW j \in DOMAIN u
      PROVE  u[j].msg.dir = s[j].msg.dir /\ u[j].at = s[j].at /\ Length(u[j]) = Length(s[j])
  <2>1. PICK p \in 1..3 : \E i \in K[p] : j = MsgSlot(K, p, i)
    BY <1>7, <1>8
  <2>2. PICK i \in K[p] : j = MsgSlot(K, p, i)
    BY <2>1
  <2> DEFINE x == Extent(p, D)
  <2>3. /\ u[j].msg.dir = s[j].msg.dir /\ u[j].at = s[j].at
        /\ (Listing(u[j].msg, x) \/ Counting(u[j].msg, x)) /\ Counting(s[j].msg, x)
    <3> DEFINE m == MsgSlot(K, p, i)
    <3>1. /\ s[m].at = Place(K, F, nx, p, i) /\ s[m].msg.dir = Dirs[p][i]
          /\ Counting(s[m].msg, x)
      BY <1>7, Zenon
    <3>2. /\ u[m].at = Place(K, F, nx, p, i) /\ u[m].msg.dir = Dirs[p][i]
          /\ (Listing(u[m].msg, x) \/ Counting(u[m].msg, x))
      BY <1>8, Zenon
    <3>3. j = m
      BY <2>2
    <3> HIDE DEF m, x
    <3> QED
      BY <3>1, <3>2, <3>3, Zenon
  <2>4. x \in Nat
    BY <1>4, ExtentIs
  <2> HIDE DEF x
  <2>5. Length(u[j]) = Call.fields*x
    BY <2>3, <2>4, LengthIs
  <2>6. Length(s[j]) = Call.fields*x
    BY <2>3, <2>4, LengthIs
  <2> QED
    BY <2>3, <2>5, <2>6
<1> QED
  BY <1>7, <1>8, <1>9, Zenon DEF u, s

(* No message fits into any buffer.                                        *)
LEMMA NothingFits ==
  ASSUME NEW size
  PROVE  FitIn({}, 0, size)
  BY FS_EmptySet DEF FitIn

(* The receives of a rank fit into commDataRecv.                           *)
LEMMA PostedFit ==
  ASSUME CommAssumption, CommIInv, NEW r \in Ranks,
         NEW S, S = {[from |-> posted[r][j].at, to |-> posted[r][j].at + Length(posted[r][j])]
                       : j \in DOMAIN posted[r]}
  PROVE  FitIn(S, Len(posted[r]), CommBufSize(r))
<1> DEFINE F == Exchanges[kind].fields
<1> DEFINE K == Awaits(r, kind, tp)
<1> DEFINE s == posted[r]
<1> DEFINE d == D
<1>1. StateIs
  BY StateFacts
<1>2. CASE s = << >>
  <2>1. DOMAIN s = {} /\ Len(s) = 0
    BY <1>2
  <2>2. S = {}
    BY <2>1
  <2> HIDE DEF s
  <2> QED
    BY <2>1, <2>2, NothingFits, Zenon DEF s
<1>3. CASE PostedWell(s, K, F, nx, d)
  <2>1. Parts(K) /\ \A p \in 1..3 : K[p] \subseteq 1..Entries(p)
    BY AwaitsAre
  <2>2. \A p \in 1..3 : \A i \in K[p] : HasNeighbour(r, tp, Dirs[p][i])
    BY TakesPart
  <2>3. nx \in Nat /\ F \in 1..6 /\ d \in Nat \ {0} /\ d <= nx + 1
    BY <1>1 DEF StateIs
  <2>4. Call.fields = F
    BY DEF Call
  <2> DEFINE a == [j \in 1..All(K) |-> s[j].at]
  <2> DEFINE z == [j \in 1..All(K) |-> s[j].at + Length(s[j])]
  <2> HIDE DEF K, s, d, F
  <2>5. /\ DOMAIN s = 1..All(K) /\ Len(s) = All(K)
        /\ \A p \in 1..3 : \A i \in K[p] :
             /\ MsgSlot(K, p, i) \in DOMAIN s
             /\ s[MsgSlot(K, p, i)].at = Place(K, F, nx, p, i)
             /\ Counting(s[MsgSlot(K, p, i)].msg, Extent(p, d))
    BY <1>3, Zenon DEF PostedWell
  <2>6. Spans(S, All(K), a, z)
    BY <2>5 DEF s, Spans
  <2>7. ASSUME NEW p \in 1..3, NEW i \in K[p]
        PROVE  /\ a[MsgSlot(K, p, i)] = Place(K, F, nx, p, i)
               /\ z[MsgSlot(K, p, i)] = Place(K, F, nx, p, i) + F*Extent(p, d)
    <3> DEFINE m == MsgSlot(K, p, i)
    <3>1. m \in 1..All(K) /\ s[m].at = Place(K, F, nx, p, i) /\ Counting(s[m].msg, Extent(p, d))
      BY <2>5, Zenon
    <3> HIDE DEF m
    <3>2. a[m] = s[m].at /\ z[m] = s[m].at + Length(s[m])
      BY <3>1
    <3> DEFINE x == Extent(p, d)
    <3>3. x \in Nat
      BY <2>3, ExtentIs
    <3> HIDE DEF x, a, z
    <3>4. Length(s[m]) = Call.fields*x
      BY <3>1, <3>3, LengthIs DEF x
    <3> QED
      BY <2>4, <3>1, <3>2, <3>4, Zenon DEF m, x
  <2>9. HeldIn(a, z, K, F, nx, d)
    BY <2>7, Zenon DEF HeldIn
  <2> HIDE DEF a, z
  <2>8. FitIn(S, All(K), CommBufSize(r))
    BY <2>1, <2>2, <2>3, <2>6, <2>9, MessagesFit
  <2> QED
    BY <2>5, <2>8, Zenon DEF s
<1> QED
  BY <1>1, <1>2, <1>3, Zenon DEF StateIs

(* The sends of a rank fit into commDataSend.                              *)
LEMMA SentFit ==
  ASSUME CommAssumption, CommIInv, NEW r \in Ranks,
         NEW S, S = {[from |-> sent[r][j].at, to |-> sent[r][j].at + Call.fields*Len(sent[r][j].data)]
                       : j \in DOMAIN sent[r]}
  PROVE  FitIn(S, Len(sent[r]), CommBufSize(r))
<1> DEFINE F == Exchanges[kind].fields
<1> DEFINE K == Gives(r, kind, tp)
<1> DEFINE s == sent[r]
<1> DEFINE d == D
<1>1. StateIs
  BY StateFacts
<1>2. CASE s = << >>
  <2>1. DOMAIN s = {} /\ Len(s) = 0
    BY <1>2
  <2>2. S = {}
    BY <2>1
  <2> HIDE DEF s
  <2> QED
    BY <2>1, <2>2, NothingFits, Zenon DEF s
<1>3. CASE SentWell(s, K, F, nx, d, r, tp)
  <2>1. Parts(K) /\ \A p \in 1..3 : K[p] \subseteq 1..Entries(p)
    BY AwaitsAre
  <2>2. \A p \in 1..3 : \A i \in K[p] : HasNeighbour(r, tp, Dirs[p][i])
    BY TakesPart
  <2>3. nx \in Nat /\ F \in 1..6 /\ d \in Nat \ {0} /\ d <= nx + 1
    BY <1>1 DEF StateIs
  <2>4. Call.fields = F
    BY DEF Call
  <2> DEFINE a == [j \in 1..All(K) |-> s[j].at]
  <2> DEFINE z == [j \in 1..All(K) |-> s[j].at + F*Len(s[j].data)]
  <2> HIDE DEF K, s, d, F
  <2>5. /\ DOMAIN s = 1..All(K) /\ Len(s) = All(K)
        /\ \A p \in 1..3 : \A i \in K[p] :
             /\ MsgSlot(K, p, i) \in DOMAIN s
             /\ s[MsgSlot(K, p, i)].at = Place(K, F, nx, p, i)
             /\ Len(s[MsgSlot(K, p, i)].data) = Extent(p, d)
    BY <1>3, Zenon DEF SentWell
  <2>6. Spans(S, All(K), a, z)
    BY <2>4, <2>5 DEF s, Spans
  <2>7. ASSUME NEW p \in 1..3, NEW i \in K[p]
        PROVE  /\ a[MsgSlot(K, p, i)] = Place(K, F, nx, p, i)
               /\ z[MsgSlot(K, p, i)] = Place(K, F, nx, p, i) + F*Extent(p, d)
    <3> DEFINE m == MsgSlot(K, p, i)
    <3>1. m \in 1..All(K) /\ s[m].at = Place(K, F, nx, p, i) /\ Len(s[m].data) = Extent(p, d)
      BY <2>5, Zenon
    <3> HIDE DEF m
    <3>2. a[m] = s[m].at /\ z[m] = s[m].at + F*Len(s[m].data)
      BY <3>1
    <3> HIDE DEF a, z
    <3> QED
      BY <3>1, <3>2, Zenon DEF m
  <2>9. HeldIn(a, z, K, F, nx, d)
    BY <2>7, Zenon DEF HeldIn
  <2> HIDE DEF a, z
  <2>8. FitIn(S, All(K), CommBufSize(r))
    BY <2>1, <2>2, <2>3, <2>6, <2>9, MessagesFit
  <2> QED
    BY <2>5, <2>8, Zenon DEF s
<1> QED
  BY <1>1, <1>2, <1>3, Zenon DEF StateIs

(* The messages never overlap and never run past the buffers' end.         *)
LEMMA FitHolds ==
  ASSUME CommAssumption, CommIInv
  PROVE  BuffersFit
<1> SUFFICES ASSUME NEW r \in Ranks
             PROVE  LET Part(slot, len) == [from |-> slot.at, to |-> slot.at + len]
                        out == {Part(sent[r][i], Call.fields*Len(sent[r][i].data)) : i \in DOMAIN sent[r]}
                        in == {Part(posted[r][i], Length(posted[r][i])) : i \in DOMAIN posted[r]}
                        Apart(parts) == \A p, q \in parts : p = q \/ p.to <= q.from \/ q.to <= p.from
                    IN /\ Apart(out) /\ Apart(in)
                       /\ Cardinality(out) = Len(sent[r]) /\ Cardinality(in) = Len(posted[r])
                       /\ \A p \in out \cup in : p.to <= CommBufSize(r)
  BY Zenon DEF BuffersFit
<1> DEFINE out == {[from |-> sent[r][i].at, to |-> sent[r][i].at + Call.fields*Len(sent[r][i].data)]
                     : i \in DOMAIN sent[r]}
<1> DEFINE in == {[from |-> posted[r][i].at, to |-> posted[r][i].at + Length(posted[r][i])]
                    : i \in DOMAIN posted[r]}
<1>1. FitIn(out, Len(sent[r]), CommBufSize(r))
  BY SentFit, Zenon
<1>2. FitIn(in, Len(posted[r]), CommBufSize(r))
  BY PostedFit, Zenon
<1> HIDE DEF out, in
<1>3. /\ \A p, q \in out : p = q \/ p.to <= q.from \/ q.to <= p.from
      /\ \A p, q \in in : p = q \/ p.to <= q.from \/ q.to <= p.from
      /\ Cardinality(out) = Len(sent[r]) /\ Cardinality(in) = Len(posted[r])
      /\ \A p \in out \cup in : p.to <= CommBufSize(r)
  BY <1>1, <1>2, Zenon DEF FitIn
<1> QED
  BY <1>3, Zenon DEF out, in

(* For every number of ranks, every edge and every one of the four         *)
(* exchanges, CommRecv, CommSend and the unpacking functions agree: each   *)
(* receive posted has exactly one message of its length, each message a    *)
(* receive, each request is unpacked for what it is, and the buffers of    *)
(* SetupCommBuffers hold them all.                                         *)
THEOREM ExchangeInvHolds == CommSpec => []ExchangeInv
<1>1. CommIInv => ExchangeInv
  BY CommAssumption, TypesHold, MatchHolds, UnpackMatches, FitHolds DEF ExchangeInv
<1> QED
  BY <1>1, CommInductive, PTL

-----------------------------------------------------------------------------
(***************************************************************************)
(* The nodes of a message: all those of its side of the cube, each at one  *)
(* place, and the neighbour's message back has at the same place the node  *)
(* that is the same one in the whole cube.                                 *)
(***************************************************************************)

(* The nodes a message stands for, in its order.  In direction dir they    *)
(* have coordinate 0 or the last one along the axes dir steps along; the   *)
(* others run, the first of them fastest.                                  *)
Held(s, free, d) == IF s = 0 THEN free ELSE IF s = -1 THEN 0 ELSE d - 1
Fast(x, d) == (x - 1) % d
Slow(x, d) == (x - 1) \div d
Spot(dir, x, d) ==
  <<Held(dir[1], Fast(x, d), d),
    Held(dir[2], IF dir[1] = 0 THEN Slow(x, d) ELSE Fast(x, d), d),
    Held(dir[3], IF dir[1] = 0 \/ dir[2] = 0 THEN Slow(x, d) ELSE Fast(x, d), d)>>
NodeAt(dir, x, d) == Point(Spot(dir, x, d)[1], Spot(dir, x, d)[2], Spot(dir, x, d)[3], d)

(* The node on the other side that is the same node.                       *)
Facing(s, at, d) == IF s = 0 THEN at ELSE IF s = -1 THEN d - 1 ELSE 0
Side3(s, at, d) == (s = -1 => at = 0) /\ (s = 1 => at = d - 1)
OnSide(dir, m, d) ==
  LET g == Digits(m, d) IN Side3(dir[1], g.x, d) /\ Side3(dir[2], g.y, d) /\ Side3(dir[3], g.z, d)
Twin(dir, m, d) ==
  LET g == Digits(m, d)
  IN Point(Facing(dir[1], g.x, d), Facing(dir[2], g.y, d), Facing(dir[3], g.z, d), d)

(* The place of a value in its message, as a number of two digits.         *)
LEMMA PlacesSplit ==
  ASSUME NEW d \in Nat \ {0}, NEW x \in Nat \ {0}
  PROVE  /\ x - 1 = Slow(x, d)*d + Fast(x, d) /\ Slow(x, d) \in Nat /\ Fast(x, d) \in 0..d - 1
         /\ x <= d*d => Slow(x, d) \in 0..d - 1
<1>1. x - 1 \in Nat
  OBVIOUS
<1>2. x - 1 = Slow(x, d)*d + Fast(x, d) /\ Slow(x, d) \in Nat /\ Fast(x, d) \in 0..d - 1
  BY <1>1, SMT DEF Slow, Fast
<1>3. ASSUME x <= d*d, Slow(x, d) >= d PROVE FALSE
  <2>1. \A s \in Nat : s >= d => s*d >= d*d
    BY SMT
  <2>2. Slow(x, d)*d >= d*d /\ Slow(x, d)*d \in Nat /\ d*d \in Nat
    BY <1>2, <1>3, <2>1
  <2> QED
    BY <1>2, <1>3, <2>2
<1> QED
  BY <1>2, <1>3

(* A place in a message that is no longer than an edge.                    *)
LEMMA ShortPlaces ==
  ASSUME NEW d \in Nat \ {0}, NEW x \in 1..d
  PROVE  Slow(x, d) = 0 /\ Fast(x, d) = x - 1
<1>1. x - 1 \in 0..d - 1
  OBVIOUS
<1> QED
  BY <1>1, SMT DEF Slow, Fast

(* The nodes of the faces CommSend packs.                                  *)
LEMMA FaceNodes ==
  ASSUME NEW d \in Nat \ {0}, NEW i \in 1..6, NEW x \in 1..d*d
  PROVE  SendFaces(d, d, d)[i].nodes[x] = NodeAt(FaceDirs[i], x, d)
<1>1. /\ x - 1 = Slow(x, d)*d + Fast(x, d) /\ Slow(x, d) \in Nat /\ Fast(x, d) \in Nat
  BY PlacesSplit
<1>2. CASE i = 1
  <2>1. SendFaces(d, d, d)[i].nodes = Line(0, d*d, 1) /\ FaceDirs[i] = <<0, 0, -1>>
    BY <1>2 DEF SendFaces, Msg, FaceDirs
  <2>2. NodeAt(<<0, 0, -1>>, x, d) = Point(Fast(x, d), Slow(x, d), 0, d)
    BY DEF NodeAt, Spot, Held
  <2>3. Line(0, d*d, 1)[x] = 0 + (x - 1)*(1)
    BY DEF Line
  <2>4. 0 + (x - 1)*(1) = Point(Fast(x, d), Slow(x, d), 0, d)
    BY <1>1 DEF Point
  <2> QED
    BY <2>1, <2>2, <2>3, <2>4
<1>3. CASE i = 2
  <2>1. SendFaces(d, d, d)[i].nodes = Line(d*d*(d - 1), d*d, 1) /\ FaceDirs[i] = <<0, 0, 1>>
    BY <1>3 DEF SendFaces, Msg, FaceDirs
  <2>2. NodeAt(<<0, 0, 1>>, x, d) = Point(Fast(x, d), Slow(x, d), d - 1, d)
    BY DEF NodeAt, Spot, Held
  <2>3. Line(d*d*(d - 1), d*d, 1)[x] = d*d*(d - 1) + (x - 1)*(1)
    BY DEF Line
  <2>4. d*d*(d - 1) + (x - 1)*(1) = Point(Fast(x, d), Slow(x, d), d - 1, d)
    BY <1>1 DEF Point
  <2> QED
    BY <2>1, <2>2, <2>3, <2>4
<1>4. CASE i = 3
  <2>1. SendFaces(d, d, d)[i].nodes = Grid(0, d, d*d, d, 1) /\ FaceDirs[i] = <<0, -1, 0>>
    BY <1>4 DEF SendFaces, Msg, FaceDirs
  <2>2. NodeAt(<<0, -1, 0>>, x, d) = Point(Fast(x, d), 0, Slow(x, d), d)
    BY DEF NodeAt, Spot, Held
  <2>3. Grid(0, d, d*d, d, 1)[x] = 0 + Slow(x, d)*(d*d) + Fast(x, d)*1
    BY DEF Grid, Fast, Slow
  <2>4. 0 + Slow(x, d)*(d*d) + Fast(x, d)*1 = Point(Fast(x, d), 0, Slow(x, d), d)
    BY <1>1 DEF Point
  <2> QED
    BY <2>1, <2>2, <2>3, <2>4
<1>5. CASE i = 4
  <2>1. SendFaces(d, d, d)[i].nodes = Grid(d*(d - 1), d, d*d, d, 1) /\ FaceDirs[i] = <<0, 1, 0>>
    BY <1>5 DEF SendFaces, Msg, FaceDirs
  <2>2. NodeAt(<<0, 1, 0>>, x, d) = Point(Fast(x, d), d - 1, Slow(x, d), d)
    BY DEF NodeAt, Spot, Held
  <2>3. Grid(d*(d - 1), d, d*d, d, 1)[x] = d*(d - 1) + Slow(x, d)*(d*d) + Fast(x, d)*1
    BY DEF Grid, Fast, Slow
  <2>4. d*(d - 1) + Slow(x, d)*(d*d) + Fast(x, d)*1 = Point(Fast(x, d), d - 1, Slow(x, d), d)
    BY <1>1 DEF Point
  <2> QED
    BY <2>1, <2>2, <2>3, <2>4
<1>6. CASE i = 5
  <2>1. SendFaces(d, d, d)[i].nodes = Grid(0, d, d*d, d, d) /\ FaceDirs[i] = <<-1, 0, 0>>
    BY <1>6 DEF SendFaces, Msg, FaceDirs
  <2>2. NodeAt(<<-1, 0, 0>>, x, d) = Point(0, Fast(x, d), Slow(x, d), d)
    BY DEF NodeAt, Spot, Held
  <2>3. Grid(0, d, d*d, d, d)[x] = 0 + Slow(x, d)*(d*d) + Fast(x, d)*d
    BY DEF Grid, Fast, Slow
  <2>4. 0 + Slow(x, d)*(d*d) + Fast(x, d)*d = Point(0, Fast(x, d), Slow(x, d), d)
    BY <1>1 DEF Point
  <2> QED
    BY <2>1, <2>2, <2>3, <2>4
<1>7. CASE i = 6
  <2>1. SendFaces(d, d, d)[i].nodes = Grid(d - 1, d, d*d, d, d) /\ FaceDirs[i] = <<1, 0, 0>>
    BY <1>7 DEF SendFaces, Msg, FaceDirs
  <2>2. NodeAt(<<1, 0, 0>>, x, d) = Point(d - 1, Fast(x, d), Slow(x, d), d)
    BY DEF NodeAt, Spot, Held
  <2>3. Grid(d - 1, d, d*d, d, d)[x] = d - 1 + Slow(x, d)*(d*d) + Fast(x, d)*d
    BY DEF Grid, Fast, Slow
  <2>4. d - 1 + Slow(x, d)*(d*d) + Fast(x, d)*d = Point(d - 1, Fast(x, d), Slow(x, d), d)
    BY <1>1 DEF Point
  <2> QED
    BY <2>1, <2>2, <2>3, <2>4
<1> QED
  BY <1>2, <1>3, <1>4, <1>5, <1>6, <1>7

(* Those of the edges between two faces of the same sense.                 *)
LEMMA AlongNodes ==
  ASSUME NEW d \in Nat \ {0}, NEW i \in 1..6, NEW x \in 1..d
  PROVE  SendEdgesAlong(d, d, d)[i].nodes[x] = NodeAt(AlongDirs[i], x, d)
<1>1. /\ x - 1 = Slow(x, d)*d + Fast(x, d) /\ Slow(x, d) \in Nat /\ Fast(x, d) \in Nat
      /\ Slow(x, d) = 0 /\ Fast(x, d) = x - 1
  <2>1. x \in Nat \ {0} /\ Slow(x, d) = 0 /\ Fast(x, d) = x - 1
    BY ShortPlaces
  <2>2. x - 1 = Slow(x, d)*d + Fast(x, d)
    BY <2>1, PlacesSplit
  <2> QED
    BY <2>1, <2>2
<1>2. CASE i = 1
  <2>1. SendEdgesAlong(d, d, d)[i].nodes = Line(0, d, d*d) /\ AlongDirs[i] = <<-1, -1, 0>>
    BY <1>2 DEF SendEdgesAlong, Msg, AlongDirs
  <2>2. NodeAt(<<-1, -1, 0>>, x, d) = Point(0, 0, Fast(x, d), d)
    BY DEF NodeAt, Spot, Held
  <2>3. Line(0, d, d*d)[x] = 0 + (x - 1)*(d*d)
    BY DEF Line
  <2>4. 0 + (x - 1)*(d*d) = Point(0, 0, Fast(x, d), d)
    BY <1>1 DEF Point
  <2> QED
    BY <2>1, <2>2, <2>3, <2>4
<1>3. CASE i = 2
  <2>1. SendEdgesAlong(d, d, d)[i].nodes = Line(0, d, 1) /\ AlongDirs[i] = <<0, -1, -1>>
    BY <1>3 DEF SendEdgesAlong, Msg, AlongDirs
  <2>2. NodeAt(<<0, -1, -1>>, x, d) = Point(Fast(x, d), 0, 0, d)
    BY DEF NodeAt, Spot, Held
  <2>3. Line(0, d, 1)[x] = 0 + (x - 1)*(1)
    BY DEF Line
  <2>4. 0 + (x - 1)*(1) = Point(Fast(x, d), 0, 0, d)
    BY <1>1 DEF Point
  <2> QED
    BY <2>1, <2>2, <2>3, <2>4
<1>4. CASE i = 3
  <2>1. SendEdgesAlong(d, d, d)[i].nodes = Line(0, d, d) /\ AlongDirs[i] = <<-1, 0, -1>>
    BY <1>4 DEF SendEdgesAlong, Msg, AlongDirs
  <2>2. NodeAt(<<-1, 0, -1>>, x, d) = Point(0, Fast(x, d), 0, d)
    BY DEF NodeAt, Spot, Held
  <2>3. Line(0, d, d)[x] = 0 + (x - 1)*(d)
    BY DEF Line
  <2>4. 0 + (x - 1)*(d) = Point(0, Fast(x, d), 0, d)
    BY <1>1 DEF Point
  <2> QED
    BY <2>1, <2>2, <2>3, <2>4
<1>5. CASE i = 4
  <2>1. SendEdgesAlong(d, d, d)[i].nodes = Line(d*d - 1, d, d*d) /\ AlongDirs[i] = <<1, 1, 0>>
    BY <1>5 DEF SendEdgesAlong, Msg, AlongDirs
  <2>2. NodeAt(<<1, 1, 0>>, x, d) = Point(d - 1, d - 1, Fast(x, d), d)
    BY DEF NodeAt, Spot, Held
  <2>3. Line(d*d - 1, d, d*d)[x] = d*d - 1 + (x - 1)*(d*d)
    BY DEF Line
  <2>4. d*d - 1 + (x - 1)*(d*d) = Point(d - 1, d - 1, Fast(x, d), d)
    BY <1>1 DEF Point
  <2> QED
    BY <2>1, <2>2, <2>3, <2>4
<1>6. CASE i = 5
  <2>1. SendEdgesAlong(d, d, d)[i].nodes = Line(d*(d - 1) + d*d*(d - 1), d, 1) /\ AlongDirs[i] = <<0, 1, 1>>
    BY <1>6 DEF SendEdgesAlong, Msg, AlongDirs
  <2>2. NodeAt(<<0, 1, 1>>, x, d) = Point(Fast(x, d), d - 1, d - 1, d)
    BY DEF NodeAt, Spot, Held
  <2>3. Line(d*(d - 1) + d*d*(d - 1), d, 1)[x] = d*(d - 1) + d*d*(d - 1) + (x - 1)*(1)
    BY DEF Line
  <2>4. d*(d - 1) + d*d*(d - 1) + (x - 1)*(1) = Point(Fast(x, d), d - 1, d - 1, d)
    BY <1>1 DEF Point
  <2> QED
    BY <2>1, <2>2, <2>3, <2>4
<1>7. CASE i = 6
  <2>1. SendEdgesAlong(d, d, d)[i].nodes = Line(d*d*(d - 1) + d - 1, d, d) /\ AlongDirs[i] = <<1, 0, 1>>
    BY <1>7 DEF SendEdgesAlong, Msg, AlongDirs
  <2>2. NodeAt(<<1, 0, 1>>, x, d) = Point(d - 1, Fast(x, d), d - 1, d)
    BY DEF NodeAt, Spot, Held
  <2>3. Line(d*d*(d - 1) + d - 1, d, d)[x] = d*d*(d - 1) + d - 1 + (x - 1)*(d)
    BY DEF Line
  <2>4. d*d*(d - 1) + d - 1 + (x - 1)*(d) = Point(d - 1, Fast(x, d), d - 1, d)
    BY <1>1 DEF Point
  <2> QED
    BY <2>1, <2>2, <2>3, <2>4
<1> QED
  BY <1>2, <1>3, <1>4, <1>5, <1>6, <1>7

(* Those of the other edges.                                               *)
LEMMA AcrossNodes ==
  ASSUME NEW d \in Nat \ {0}, NEW i \in 1..6, NEW x \in 1..d
  PROVE  SendEdgesAcross(d, d, d)[i].nodes[x] = NodeAt(AcrossDirs[i], x, d)
<1>1. /\ x - 1 = Slow(x, d)*d + Fast(x, d) /\ Slow(x, d) \in Nat /\ Fast(x, d) \in Nat
      /\ Slow(x, d) = 0 /\ Fast(x, d) = x - 1
  <2>1. x \in Nat \ {0} /\ Slow(x, d) = 0 /\ Fast(x, d) = x - 1
    BY ShortPlaces
  <2>2. x - 1 = Slow(x, d)*d + Fast(x, d)
    BY <2>1, PlacesSplit
  <2> QED
    BY <2>1, <2>2
<1>2. CASE i = 1
  <2>1. SendEdgesAcross(d, d, d)[i].nodes = Line(d*(d - 1), d, d*d) /\ AcrossDirs[i] = <<-1, 1, 0>>
    BY <1>2 DEF SendEdgesAcross, Msg, AcrossDirs
  <2>2. NodeAt(<<-1, 1, 0>>, x, d) = Point(0, d - 1, Fast(x, d), d)
    BY DEF NodeAt, Spot, Held
  <2>3. Line(d*(d - 1), d, d*d)[x] = d*(d - 1) + (x - 1)*(d*d)
    BY DEF Line
  <2>4. d*(d - 1) + (x - 1)*(d*d) = Point(0, d - 1, Fast(x, d), d)
    BY <1>1 DEF Point
  <2> QED
    BY <2>1, <2>2, <2>3, <2>4
<1>3. CASE i = 2
  <2>1. SendEdgesAcross(d, d, d)[i].nodes = Line(d*d*(d - 1), d, 1) /\ AcrossDirs[i] = <<0, -1, 1>>
    BY <1>3 DEF SendEdgesAcross, Msg, AcrossDirs
  <2>2. NodeAt(<<0, -1, 1>>, x, d) = Point(Fast(x, d), 0, d - 1, d)
    BY DEF NodeAt, Spot, Held
  <2>3. Line(d*d*(d - 1), d, 1)[x] = d*d*(d - 1) + (x - 1)*(1)
    BY DEF Line
  <2>4. d*d*(d - 1) + (x - 1)*(1) = Point(Fast(x, d), 0, d - 1, d)
    BY <1>1 DEF Point
  <2> QED
    BY <2>1, <2>2, <2>3, <2>4
<1>4. CASE i = 3
  <2>1. SendEdgesAcross(d, d, d)[i].nodes = Line(d*d*(d - 1), d, d) /\ AcrossDirs[i] = <<-1, 0, 1>>
    BY <1>4 DEF SendEdgesAcross, Msg, AcrossDirs
  <2>2. NodeAt(<<-1, 0, 1>>, x, d) = Point(0, Fast(x, d), d - 1, d)
    BY DEF NodeAt, Spot, Held
  <2>3. Line(d*d*(d - 1), d, d)[x] = d*d*(d - 1) + (x - 1)*(d)
    BY DEF Line
  <2>4. d*d*(d - 1) + (x - 1)*(d) = Point(0, Fast(x, d), d - 1, d)
    BY <1>1 DEF Point
  <2> QED
    BY <2>1, <2>2, <2>3, <2>4
<1>5. CASE i = 4
  <2>1. SendEdgesAcross(d, d, d)[i].nodes = Line(d - 1, d, d*d) /\ AcrossDirs[i] = <<1, -1, 0>>
    BY <1>5 DEF SendEdgesAcross, Msg, AcrossDirs
  <2>2. NodeAt(<<1, -1, 0>>, x, d) = Point(d - 1, 0, Fast(x, d), d)
    BY DEF NodeAt, Spot, Held
  <2>3. Line(d - 1, d, d*d)[x] = d - 1 + (x - 1)*(d*d)
    BY DEF Line
  <2>4. d - 1 + (x - 1)*(d*d) = Point(d - 1, 0, Fast(x, d), d)
    BY <1>1 DEF Point
  <2> QED
    BY <2>1, <2>2, <2>3, <2>4
<1>6. CASE i = 5
  <2>1. SendEdgesAcross(d, d, d)[i].nodes = Line(d*(d - 1), d, 1) /\ AcrossDirs[i] = <<0, 1, -1>>
    BY <1>6 DEF SendEdgesAcross, Msg, AcrossDirs
  <2>2. NodeAt(<<0, 1, -1>>, x, d) = Point(Fast(x, d), d - 1, 0, d)
    BY DEF NodeAt, Spot, Held
  <2>3. Line(d*(d - 1), d, 1)[x] = d*(d - 1) + (x - 1)*(1)
    BY DEF Line
  <2>4. d*(d - 1) + (x - 1)*(1) = Point(Fast(x, d), d - 1, 0, d)
    BY <1>1 DEF Point
  <2> QED
    BY <2>1, <2>2, <2>3, <2>4
<1>7. CASE i = 6
  <2>1. SendEdgesAcross(d, d, d)[i].nodes = Line(d - 1, d, d) /\ AcrossDirs[i] = <<1, 0, -1>>
    BY <1>7 DEF SendEdgesAcross, Msg, AcrossDirs
  <2>2. NodeAt(<<1, 0, -1>>, x, d) = Point(d - 1, Fast(x, d), 0, d)
    BY DEF NodeAt, Spot, Held
  <2>3. Line(d - 1, d, d)[x] = d - 1 + (x - 1)*(d)
    BY DEF Line
  <2>4. d - 1 + (x - 1)*(d) = Point(d - 1, Fast(x, d), 0, d)
    BY <1>1 DEF Point
  <2> QED
    BY <2>1, <2>2, <2>3, <2>4
<1> QED
  BY <1>2, <1>3, <1>4, <1>5, <1>6, <1>7

(* Those of the corners.                                                   *)
LEMMA CornerNodes ==
  ASSUME NEW d \in Nat \ {0}, NEW i \in 1..8, NEW x \in 1..1
  PROVE  SendCorners(d, d, d)[i].nodes[x] = NodeAt(CornerDirs[i], x, d)
<1>1. /\ x - 1 = Slow(x, d)*d + Fast(x, d) /\ Slow(x, d) \in Nat /\ Fast(x, d) \in Nat
      /\ Slow(x, d) = 0 /\ Fast(x, d) = x - 1
  <2>1. x \in Nat \ {0} /\ Slow(x, d) = 0 /\ Fast(x, d) = x - 1
    BY ShortPlaces
  <2>2. x - 1 = Slow(x, d)*d + Fast(x, d)
    BY <2>1, PlacesSplit
  <2> QED
    BY <2>1, <2>2
<1>2. CASE i = 1
  <2>1. SendCorners(d, d, d)[i].nodes = Line(0, 1, 1) /\ CornerDirs[i] = <<-1, -1, -1>>
    BY <1>2 DEF SendCorners, Msg, CornerDirs
  <2>2. NodeAt(<<-1, -1, -1>>, x, d) = Point(0, 0, 0, d)
    BY DEF NodeAt, Spot, Held
  <2>3. Line(0, 1, 1)[x] = 0 + (x - 1)*(1)
    BY DEF Line
  <2>4. 0 + (x - 1)*(1) = Point(0, 0, 0, d)
    BY <1>1 DEF Point
  <2> QED
    BY <2>1, <2>2, <2>3, <2>4
<1>3. CASE i = 2
  <2>1. SendCorners(d, d, d)[i].nodes = Line(d*d*(d - 1), 1, 1) /\ CornerDirs[i] = <<-1, -1, 1>>
    BY <1>3 DEF SendCorners, Msg, CornerDirs
  <2>2. NodeAt(<<-1, -1, 1>>, x, d) = Point(0, 0, d - 1, d)
    BY DEF NodeAt, Spot, Held
  <2>3. Line(d*d*(d - 1), 1, 1)[x] = d*d*(d - 1) + (x - 1)*(1)
    BY DEF Line
  <2>4. d*d*(d - 1) + (x - 1)*(1) = Point(0, 0, d - 1, d)
    BY <1>1 DEF Point
  <2> QED
    BY <2>1, <2>2, <2>3, <2>4
<1>4. CASE i = 3
  <2>1. SendCorners(d, d, d)[i].nodes = Line(d - 1, 1, 1) /\ CornerDirs[i] = <<1, -1, -1>>
    BY <1>4 DEF SendCorners, Msg, CornerDirs
  <2>2. NodeAt(<<1, -1, -1>>, x, d) = Point(d - 1, 0, 0, d)
    BY DEF NodeAt, Spot, Held
  <2>3. Line(d - 1, 1, 1)[x] = d - 1 + (x - 1)*(1)
    BY DEF Line
  <2>4. d - 1 + (x - 1)*(1) = Point(d - 1, 0, 0, d)
    BY <1>1 DEF Point
  <2> QED
    BY <2>1, <2>2, <2>3, <2>4
<1>5. CASE i = 4
  <2>1. SendCorners(d, d, d)[i].nodes = Line(d*d*(d - 1) + d - 1, 1, 1) /\ CornerDirs[i] = <<1, -1, 1>>
    BY <1>5 DEF SendCorners, Msg, CornerDirs
  <2>2. NodeAt(<<1, -1, 1>>, x, d) = Point(d - 1, 0, d - 1, d)
    BY DEF NodeAt, Spot, Held
  <2>3. Line(d*d*(d - 1) + d - 1, 1, 1)[x] = d*d*(d - 1) + d - 1 + (x - 1)*(1)
    BY DEF Line
  <2>4. d*d*(d - 1) + d - 1 + (x - 1)*(1) = Point(d - 1, 0, d - 1, d)
    BY <1>1 DEF Point
  <2> QED
    BY <2>1, <2>2, <2>3, <2>4
<1>6. CASE i = 5
  <2>1. SendCorners(d, d, d)[i].nodes = Line(d*(d - 1), 1, 1) /\ CornerDirs[i] = <<-1, 1, -1>>
    BY <1>6 DEF SendCorners, Msg, CornerDirs
  <2>2. NodeAt(<<-1, 1, -1>>, x, d) = Point(0, d - 1, 0, d)
    BY DEF NodeAt, Spot, Held
  <2>3. Line(d*(d - 1), 1, 1)[x] = d*(d - 1) + (x - 1)*(1)
    BY DEF Line
  <2>4. d*(d - 1) + (x - 1)*(1) = Point(0, d - 1, 0, d)
    BY <1>1 DEF Point
  <2> QED
    BY <2>1, <2>2, <2>3, <2>4
<1>7. CASE i = 6
  <2>1. SendCorners(d, d, d)[i].nodes = Line(d*d*(d - 1) + d*(d - 1), 1, 1) /\ CornerDirs[i] = <<-1, 1, 1>>
    BY <1>7 DEF SendCorners, Msg, CornerDirs
  <2>2. NodeAt(<<-1, 1, 1>>, x, d) = Point(0, d - 1, d - 1, d)
    BY DEF NodeAt, Spot, Held
  <2>3. Line(d*d*(d - 1) + d*(d - 1), 1, 1)[x] = d*d*(d - 1) + d*(d - 1) + (x - 1)*(1)
    BY DEF Line
  <2>4. d*d*(d - 1) + d*(d - 1) + (x - 1)*(1) = Point(0, d - 1, d - 1, d)
    BY <1>1 DEF Point
  <2> QED
    BY <2>1, <2>2, <2>3, <2>4
<1>8. CASE i = 7
  <2>1. SendCorners(d, d, d)[i].nodes = Line(d*d - 1, 1, 1) /\ CornerDirs[i] = <<1, 1, -1>>
    BY <1>8 DEF SendCorners, Msg, CornerDirs
  <2>2. NodeAt(<<1, 1, -1>>, x, d) = Point(d - 1, d - 1, 0, d)
    BY DEF NodeAt, Spot, Held
  <2>3. Line(d*d - 1, 1, 1)[x] = d*d - 1 + (x - 1)*(1)
    BY DEF Line
  <2>4. d*d - 1 + (x - 1)*(1) = Point(d - 1, d - 1, 0, d)
    BY <1>1 DEF Point
  <2> QED
    BY <2>1, <2>2, <2>3, <2>4
<1>9. CASE i = 8
  <2>1. SendCorners(d, d, d)[i].nodes = Line(d*d*d - 1, 1, 1) /\ CornerDirs[i] = <<1, 1, 1>>
    BY <1>9 DEF SendCorners, Msg, CornerDirs
  <2>2. NodeAt(<<1, 1, 1>>, x, d) = Point(d - 1, d - 1, d - 1, d)
    BY DEF NodeAt, Spot, Held
  <2>3. Line(d*d*d - 1, 1, 1)[x] = d*d*d - 1 + (x - 1)*(1)
    BY DEF Line
  <2>4. d*d*d - 1 + (x - 1)*(1) = Point(d - 1, d - 1, d - 1, d)
    BY <1>1 DEF Point
  <2> QED
    BY <2>1, <2>2, <2>3, <2>4
<1> QED
  BY <1>2, <1>3, <1>4, <1>5, <1>6, <1>7, <1>8, <1>9

(* The nodes of every message, in its order.                               *)
LEMMA SentNodes ==
  ASSUME NEW d \in Nat \ {0}, NEW p \in 1..3, NEW i \in 1..Entries(p), NEW x \in 1..Extent(p, d)
  PROVE  SendTable(d)[p][i].nodes[x] = NodeAt(Dirs[p][i], x, d)
<1> DEFINE f == SendFaces(d, d, d)
<1> DEFINE a == SendEdgesAlong(d, d, d)
<1> DEFINE b == SendEdgesAcross(d, d, d)
<1> DEFINE c == SendCorners(d, d, d)
<1> DEFINE e == a \o b
<1>1. /\ Dirs[1] = FaceDirs /\ Dirs[2] = EdgeDirs /\ Dirs[3] = CornerDirs
      /\ Entries(1) = 6 /\ Entries(2) = 12 /\ Entries(3) = 8
      /\ Extent(1, d) = d*d /\ Extent(2, d) = d /\ Extent(3, d) = 1
      /\ (p = 1 \/ p = 2 \/ p = 3)
  BY PartsOf
<1>2. SendTable(d) = <<f, e, c>>
  BY Zenon DEF SendTable
<1>3. Agrees(a, a, AlongDirs, 6) /\ Agrees(b, b, AcrossDirs, 6)
  BY EdgesAlongAgree, EdgesAcrossAgree
<1>4. \A j \in 1..12 : JoinAt(e, a, b, j)
  BY <1>3, JoinedAt
<1>5. \A j \in 1..6, y \in 1..d*d : f[j].nodes[y] = NodeAt(FaceDirs[j], y, d)
  BY FaceNodes
<1>6. \A j \in 1..6, y \in 1..d : a[j].nodes[y] = NodeAt(AlongDirs[j], y, d)
  BY AlongNodes
<1>7. \A j \in 1..6, y \in 1..d : b[j].nodes[y] = NodeAt(AcrossDirs[j], y, d)
  BY AcrossNodes
<1>8. \A j \in 1..8, y \in 1..1 : c[j].nodes[y] = NodeAt(CornerDirs[j], y, d)
  BY CornerNodes
<1> HIDE DEF f, a, b, c, e
<1> DEFINE T == <<f, e, c>>
<1>9. T[1] = f /\ T[2] = e /\ T[3] = c /\ SendTable(d) = T
  BY <1>2
<1> HIDE DEF T
<1>10. CASE p = 1
  BY <1>1, <1>5, <1>9, <1>10, Zenon
<1>11. CASE p = 2
  <2>1. JoinAt(e, a, b, i) /\ x \in 1..d
    BY <1>1, <1>4, <1>11
  <2>2. e[i].nodes[x] = NodeAt(EdgeDirs[i], x, d)
    BY <1>6, <1>7, <2>1, Zenon DEF JoinAt
  <2> QED
    BY <1>1, <1>9, <1>11, <2>2, Zenon
<1>12. CASE p = 3
  BY <1>1, <1>8, <1>9, <1>12, Zenon
<1> QED
  BY <1>1, <1>10, <1>11, <1>12

Shape(p, dir) ==
  /\ p = 1 => \/ dir[1] = 0 /\ dir[2] = 0 /\ dir[3] # 0
              \/ dir[1] = 0 /\ dir[2] # 0 /\ dir[3] = 0
              \/ dir[1] # 0 /\ dir[2] = 0 /\ dir[3] = 0
  /\ p = 2 => \/ dir[1] = 0 /\ dir[2] # 0 /\ dir[3] # 0
              \/ dir[1] # 0 /\ dir[2] = 0 /\ dir[3] # 0
              \/ dir[1] # 0 /\ dir[2] # 0 /\ dir[3] = 0
  /\ p = 3 => dir[1] # 0 /\ dir[2] # 0 /\ dir[3] # 0

(* Towards a face one coordinate steps, towards an edge two, towards a     *)
(* corner three.                                                           *)
LEMMA ShapeIs ==
  ASSUME NEW p \in 1..3, NEW i \in 1..Entries(p)
  PROVE  Dirs[p][i] \in Steps /\ Shape(p, Dirs[p][i])
<1>1. \A j \in 1..6 : Shape(1, FaceDirs[j])
  BY DEF FaceDirs, Shape
<1>2. \A j \in 1..12 : Shape(2, EdgeDirs[j])
  BY DEF EdgeDirs, Shape
<1>3. \A j \in 1..8 : Shape(3, CornerDirs[j])
  BY DEF CornerDirs, Shape
<1> QED
  BY <1>1, <1>2, <1>3, PartsOf, DirsAreSteps

(* The direction in a table that has a shape, and every step but none.     *)
LEMMA StepListed ==
  ASSUME NEW dir \in Steps, dir # <<0, 0, 0>>
  PROVE  \E p \in 1..3 : \E i \in 1..Entries(p) : Dirs[p][i] = dir
<1>1. dir = <<dir[1], dir[2], dir[3]>> /\ dir[1] \in -1..1 /\ dir[2] \in -1..1 /\ dir[3] \in -1..1
  BY StepParts
<1>2. /\ Dirs[1] = FaceDirs /\ Dirs[2] = EdgeDirs /\ Dirs[3] = CornerDirs
      /\ Entries(1) = 6 /\ Entries(2) = 12 /\ Entries(3) = 8
  BY PartsOf
<1> DEFINE One(s, n) == \E i \in 1..n : s[i] = dir
<1>3. CASE dir[3] = 0 /\ dir[2] = 0
  <2>1. FaceDirs[5] = <<-1, 0, 0>> /\ FaceDirs[6] = <<1, 0, 0>>
    BY DEF FaceDirs
  <2>2. One(FaceDirs, 6)
    BY <1>1, <1>3, <2>1
  <2> QED
    BY <1>2, <2>2
<1>4. CASE dir[3] = 0 /\ dir[2] # 0
  <2>1. /\ FaceDirs[3] = <<0, -1, 0>> /\ FaceDirs[4] = <<0, 1, 0>>
        /\ EdgeDirs[1] = <<-1, -1, 0>> /\ EdgeDirs[4] = <<1, 1, 0>>
        /\ EdgeDirs[7] = <<-1, 1, 0>> /\ EdgeDirs[10] = <<1, -1, 0>>
    BY DEF FaceDirs, EdgeDirs
  <2>2. One(FaceDirs, 6) \/ One(EdgeDirs, 12)
    BY <1>1, <1>4, <2>1
  <2> QED
    BY <1>2, <2>2
<1>5. CASE dir[3] # 0 /\ dir[2] = 0
  <2>1. /\ FaceDirs[1] = <<0, 0, -1>> /\ FaceDirs[2] = <<0, 0, 1>>
        /\ EdgeDirs[3] = <<-1, 0, -1>> /\ EdgeDirs[6] = <<1, 0, 1>>
        /\ EdgeDirs[9] = <<-1, 0, 1>> /\ EdgeDirs[12] = <<1, 0, -1>>
    BY DEF FaceDirs, EdgeDirs
  <2>2. One(FaceDirs, 6) \/ One(EdgeDirs, 12)
    BY <1>1, <1>5, <2>1
  <2> QED
    BY <1>2, <2>2
<1>6. CASE dir[3] # 0 /\ dir[2] # 0
  <2>1. /\ EdgeDirs[2] = <<0, -1, -1>> /\ EdgeDirs[5] = <<0, 1, 1>>
        /\ EdgeDirs[8] = <<0, -1, 1>> /\ EdgeDirs[11] = <<0, 1, -1>>
    BY DEF EdgeDirs
  <2>2. /\ CornerDirs[1] = <<-1, -1, -1>> /\ CornerDirs[2] = <<-1, -1, 1>>
        /\ CornerDirs[3] = <<1, -1, -1>> /\ CornerDirs[4] = <<1, -1, 1>>
        /\ CornerDirs[5] = <<-1, 1, -1>> /\ CornerDirs[6] = <<-1, 1, 1>>
        /\ CornerDirs[7] = <<1, 1, -1>> /\ CornerDirs[8] = <<1, 1, 1>>
    BY DEF CornerDirs
  <2>3. CASE dir[1] = 0
    <3>1. One(EdgeDirs, 12)
      BY <1>1, <1>6, <2>1, <2>3
    <3> QED
      BY <1>2, <3>1
  <2>4. CASE dir[1] # 0
    <3>1. One(CornerDirs, 8)
      BY <1>1, <1>6, <2>2, <2>4
    <3> QED
      BY <1>2, <3>1
  <2> QED
    BY <2>3, <2>4
<1> QED
  BY <1>3, <1>4, <1>5, <1>6

(* The digits of the nodes of a message, and what the neighbour sends      *)
(* under the same place.                                                   *)
LEMMA NodeFacts ==
  ASSUME NEW d \in Nat \ {0}, NEW dir \in Steps, NEW x \in 1..d*d
  PROVE  LET s == Spot(dir, x, d)
             m == NodeAt(dir, x, d)
         IN /\ s[1] \in 0..d - 1 /\ s[2] \in 0..d - 1 /\ s[3] \in 0..d - 1
            /\ m \in 0..Cube(d) - 1 /\ Digits(m, d) = [x |-> s[1], y |-> s[2], z |-> s[3]]
            /\ OnSide(dir, m, d) /\ Twin(dir, m, d) = NodeAt(Opposite(dir), x, d)
<1> DEFINE s == Spot(dir, x, d)
<1> DEFINE m == NodeAt(dir, x, d)
<1>1. d*d \in Nat /\ x \in Nat \ {0} /\ x <= d*d
  BY SMT
<1>2. Slow(x, d) \in 0..d - 1 /\ Fast(x, d) \in 0..d - 1
  BY <1>1, PlacesSplit
<1>3. dir[1] \in -1..1 /\ dir[2] \in -1..1 /\ dir[3] \in -1..1
  BY StepParts
<1>4. \A t \in -1..1, f \in 0..d - 1 : /\ Held(t, f, d) \in 0..d - 1 /\ Side3(t, Held(t, f, d), d)
                                      /\ Facing(t, Held(t, f, d), d) = Held(-t, f, d)
  BY DEF Held, Side3, Facing
<1> DEFINE f == Fast(x, d)
<1> DEFINE g == IF dir[1] = 0 THEN Slow(x, d) ELSE Fast(x, d)
<1> DEFINE h == IF dir[1] = 0 \/ dir[2] = 0 THEN Slow(x, d) ELSE Fast(x, d)
<1>5. f \in 0..d - 1 /\ g \in 0..d - 1 /\ h \in 0..d - 1
  BY <1>2
<1>6. s[1] = Held(dir[1], f, d) /\ s[2] = Held(dir[2], g, d) /\ s[3] = Held(dir[3], h, d)
  BY DEF Spot
<1> DEFINE o == Opposite(dir)
<1>7. o[1] = -dir[1] /\ o[2] = -dir[2] /\ o[3] = -dir[3]
  BY DEF Opposite
<1>8. /\ Spot(o, x, d)[1] = Held(o[1], f, d) /\ Spot(o, x, d)[2] = Held(o[2], g, d)
      /\ Spot(o, x, d)[3] = Held(o[3], h, d)
  <2>1. (o[1] = 0 <=> dir[1] = 0) /\ (o[2] = 0 <=> dir[2] = 0)
    BY <1>3, <1>7
  <2> HIDE DEF o
  <2> QED
    BY <2>1 DEF Spot
<1> HIDE DEF f, g, h, s, o
<1>9. s[1] \in 0..d - 1 /\ s[2] \in 0..d - 1 /\ s[3] \in 0..d - 1
  BY <1>3, <1>4, <1>5, <1>6
<1>10. m = Point(s[1], s[2], s[3], d)
  BY DEF NodeAt, s
<1> HIDE DEF m
<1>11. m \in 0..Cube(d) - 1 /\ Digits(m, d) = [x |-> s[1], y |-> s[2], z |-> s[3]]
  BY <1>9, <1>10, DigitsOf
<1>12. OnSide(dir, m, d)
  BY <1>3, <1>4, <1>5, <1>6, <1>11 DEF OnSide
<1>13. Twin(dir, m, d) = Point(Facing(dir[1], s[1], d), Facing(dir[2], s[2], d), Facing(dir[3], s[3], d), d)
  BY <1>11 DEF Twin
<1>14. Facing(dir[1], s[1], d) = Spot(o, x, d)[1]
  BY <1>3, <1>4, <1>5, <1>6, <1>7, <1>8
<1>15. Facing(dir[2], s[2], d) = Spot(o, x, d)[2]
  BY <1>3, <1>4, <1>5, <1>6, <1>7, <1>8
<1>16. Facing(dir[3], s[3], d) = Spot(o, x, d)[3]
  BY <1>3, <1>4, <1>5, <1>6, <1>7, <1>8
<1>17. Twin(dir, m, d) = NodeAt(o, x, d)
  BY <1>13, <1>14, <1>15, <1>16, Zenon DEF NodeAt
<1> QED
  BY <1>9, <1>11, <1>12, <1>17 DEF m, s, o

PlaceOf(dir, g, d) ==
  IF dir[1] = 0
  THEN IF dir[2] = 0 THEN g.y*d + g.x + 1 ELSE IF dir[3] = 0 THEN g.z*d + g.x + 1 ELSE g.x + 1
  ELSE IF dir[2] = 0
  THEN IF dir[3] = 0 THEN g.z*d + g.y + 1 ELSE g.y + 1
  ELSE IF dir[3] = 0 THEN g.z + 1 ELSE 1

(* Two digits are those of one place.                                      *)
LEMMA PlaceDigits ==
  ASSUME NEW d \in Nat \ {0}, NEW u \in 0..d - 1, NEW v \in 0..d - 1
  PROVE  /\ v*d + u + 1 \in 1..d*d
         /\ Fast(v*d + u + 1, d) = u /\ Slow(v*d + u + 1, d) = v
         /\ u + 1 \in 1..d /\ Fast(u + 1, d) = u
         /\ d*d \in Nat /\ d <= d*d /\ 1 \in 1..d*d
<1>1. v*d \in Nat /\ d*d \in Nat /\ v*d <= (d - 1)*d /\ (d - 1)*d = d*d - d /\ d <= d*d
  <2>1. v <= d - 1 /\ v \in Nat /\ d - 1 \in Nat
    OBVIOUS
  <2>2. \A a, b \in Nat : a <= b => a*d <= b*d
    BY SMT
  <2>3. d*d \in Nat /\ v*d \in Nat /\ (d - 1)*d = d*d - d /\ (d - 1)*d \in Nat
    BY <2>1, SMT
  <2> QED
    BY <2>1, <2>2, <2>3
<1>2. d*d \in Nat /\ d <= d*d /\ 1 \in 1..d*d
  <2> DEFINE dd == d*d
  <2>1. dd \in Nat /\ d <= dd
    BY <1>1
  <2> HIDE DEF dd
  <2>2. dd \in Nat /\ d <= dd /\ 1 \in 1..dd
    BY <2>1
  <2> QED
    BY <2>2 DEF dd
<1>3. v*d + u + 1 \in 1..d*d
  <2> DEFINE vd == v*d
  <2> DEFINE dd == d*d
  <2>1. vd \in Nat /\ dd \in Nat /\ vd <= dd - d
    BY <1>1
  <2> HIDE DEF vd, dd
  <2>2. vd + u + 1 \in 1..dd
    BY <2>1
  <2> QED
    BY <2>2 DEF vd, dd
<1>4. Fast(v*d + u + 1, d) = u /\ Slow(v*d + u + 1, d) = v
  <2>1. (v*d + u) % d = u /\ (v*d + u) \div d = v
    BY SMT
  <2>2. (v*d + u + 1) - 1 = v*d + u
    BY <1>1
  <2> QED
    BY <2>1, <2>2, Zenon DEF Fast, Slow
<1>5. u + 1 \in 1..d /\ Fast(u + 1, d) = u
  <2>1. (u + 1) - 1 = u /\ u % d = u
    BY SMT
  <2> QED
    BY <2>1 DEF Fast
<1> QED
  BY <1>2, <1>3, <1>4, <1>5, Zenon

(* Every node on the side is in the message, at just one place.            *)
LEMMA NodeFound ==
  ASSUME NEW d \in Nat \ {0}, NEW p \in 1..3, NEW dir \in Steps, Shape(p, dir),
         NEW m \in 0..Cube(d) - 1, OnSide(dir, m, d)
  PROVE  LET x == PlaceOf(dir, Digits(m, d), d)
         IN /\ x \in 1..Extent(p, d) /\ NodeAt(dir, x, d) = m
            /\ \A y \in 1..Extent(p, d) : NodeAt(dir, y, d) = m => y = x
<1> DEFINE g == Digits(m, d)
<1> DEFINE x == PlaceOf(dir, g, d)
<1>1. g.x \in 0..d - 1 /\ g.y \in 0..d - 1 /\ g.z \in 0..d - 1 /\ m = Point(g.x, g.y, g.z, d)
  BY DigitsPoint
<1>2. Side3(dir[1], g.x, d) /\ Side3(dir[2], g.y, d) /\ Side3(dir[3], g.z, d)
  BY DEF OnSide
<1>3. dir[1] \in -1..1 /\ dir[2] \in -1..1 /\ dir[3] \in -1..1
  BY StepParts
<1>4. \A t \in -1..1 : \A a : t # 0 /\ Side3(t, a, d) => \A f : Held(t, f, d) = a
  BY DEF Side3, Held
<1>5. \A f : Held(0, f, d) = f
  BY DEF Held
<1>6. Extent(1, d) = d*d /\ Extent(2, d) = d /\ Extent(3, d) = 1 /\ (p = 1 \/ p = 2 \/ p = 3)
  BY PartsOf
<1>7. \A u, v \in 0..d - 1 : /\ v*d + u + 1 \in 1..d*d
                             /\ Fast(v*d + u + 1, d) = u /\ Slow(v*d + u + 1, d) = v
                             /\ u + 1 \in 1..d /\ Fast(u + 1, d) = u
                             /\ d*d \in Nat /\ d <= d*d /\ 1 \in 1..d*d
  BY PlaceDigits, Zenon
<1>8. \A y \in 1..d*d : y = Slow(y, d)*d + Fast(y, d) + 1
  <2> SUFFICES ASSUME NEW y \in 1..d*d PROVE y = Slow(y, d)*d + Fast(y, d) + 1
    OBVIOUS
  <2>1. y \in Nat \ {0}
    BY <1>1, <1>7
  <2>2. y - 1 = Slow(y, d)*d + Fast(y, d) /\ Slow(y, d) \in Nat /\ Fast(y, d) \in Nat
    BY <2>1, PlacesSplit
  <2> DEFINE sd == Slow(y, d)*d
  <2>3. y - 1 = sd + Fast(y, d) /\ sd \in Nat
    BY <2>2, SMT
  <2> HIDE DEF sd
  <2>4. y = sd + Fast(y, d) + 1
    BY <2>1, <2>2, <2>3
  <2> QED
    BY <2>4 DEF sd
<1>9. \A y \in 1..d : y \in Nat \ {0} /\ y = Fast(y, d) + 1
  BY ShortPlaces
<1>10. \A y \in 1..Extent(p, d) : y \in 1..d*d
  <2> DEFINE dd == d*d
  <2>1. dd \in Nat /\ d <= dd /\ 1 \in 1..dd
    BY <1>1, <1>7
  <2>2. Extent(p, d) = dd \/ Extent(p, d) = d \/ Extent(p, d) = 1
    BY <1>6
  <2> HIDE DEF dd
  <2>3. \A y \in 1..Extent(p, d) : y \in 1..dd
    BY <2>1, <2>2
  <2> QED
    BY <2>3 DEF dd
<1> HIDE DEF g
<1>11. ASSUME NEW y \in 1..Extent(p, d), NodeAt(dir, y, d) = m
       PROVE  Spot(dir, y, d)[1] = g.x /\ Spot(dir, y, d)[2] = g.y /\ Spot(dir, y, d)[3] = g.z
  <2>1. y \in 1..d*d
    BY <1>10
  <2>2. Digits(m, d) = [x |-> Spot(dir, y, d)[1], y |-> Spot(dir, y, d)[2], z |-> Spot(dir, y, d)[3]]
    BY <1>11, <2>1, NodeFacts
  <2> QED
    BY <2>2 DEF g
<1> DEFINE Good(w) == /\ w \in 1..Extent(p, d)
                      /\ Spot(dir, w, d)[1] = g.x /\ Spot(dir, w, d)[2] = g.y /\ Spot(dir, w, d)[3] = g.z
                      /\ \A y \in 1..Extent(p, d) :
                           /\ Spot(dir, y, d)[1] = g.x /\ Spot(dir, y, d)[2] = g.y
                           /\ Spot(dir, y, d)[3] = g.z
                           => y = w
<1>12. \A w : /\ Spot(dir, w, d)[1] = Held(dir[1], Fast(w, d), d)
              /\ Spot(dir, w, d)[2] = Held(dir[2], IF dir[1] = 0 THEN Slow(w, d) ELSE Fast(w, d), d)
              /\ Spot(dir, w, d)[3] =
                   Held(dir[3], IF dir[1] = 0 \/ dir[2] = 0 THEN Slow(w, d) ELSE Fast(w, d), d)
  BY DEF Spot
<1>13. ASSUME p = 1 /\ dir[1] = 0 /\ dir[2] = 0 /\ dir[3] # 0
       PROVE  Good(x)
  <2> DEFINE w == g.y*d + g.x + 1
  <2>1. x = w
    BY <1>1, <1>13 DEF PlaceOf
  <2>2. w \in 1..d*d /\ Fast(w, d) = g.x /\ Slow(w, d) = g.y
    BY <1>1, <1>7
  <2> HIDE DEF w, x
  <2>3. w \in 1..Extent(p, d)
    BY <1>6, <1>13, <2>2
  <2>4. Spot(dir, w, d)[1] = g.x /\ Spot(dir, w, d)[2] = g.y /\ Spot(dir, w, d)[3] = g.z
    BY <1>2, <1>3, <1>4, <1>5, <1>12, <1>13, <2>2
  <2>5. ASSUME NEW y \in 1..Extent(p, d), Spot(dir, y, d)[1] = g.x, Spot(dir, y, d)[2] = g.y,
               Spot(dir, y, d)[3] = g.z
        PROVE  y = w
    <3>1. Fast(y, d) = g.x /\ Slow(y, d) = g.y
      BY <1>5, <1>12, <1>13, <2>5
    <3>2. y = Slow(y, d)*d + Fast(y, d) + 1
      BY <1>8, <1>10
    <3> QED
      BY <3>1, <3>2 DEF w
  <2> QED
    BY <2>1, <2>3, <2>4, <2>5
<1>14. ASSUME p = 1 /\ dir[1] = 0 /\ dir[2] # 0 /\ dir[3] = 0
       PROVE  Good(x)
  <2> DEFINE w == g.z*d + g.x + 1
  <2>1. x = w
    BY <1>1, <1>14 DEF PlaceOf
  <2>2. w \in 1..d*d /\ Fast(w, d) = g.x /\ Slow(w, d) = g.z
    BY <1>1, <1>7
  <2> HIDE DEF w, x
  <2>3. w \in 1..Extent(p, d)
    BY <1>6, <1>14, <2>2
  <2>4. Spot(dir, w, d)[1] = g.x /\ Spot(dir, w, d)[2] = g.y /\ Spot(dir, w, d)[3] = g.z
    BY <1>2, <1>3, <1>4, <1>5, <1>12, <1>14, <2>2
  <2>5. ASSUME NEW y \in 1..Extent(p, d), Spot(dir, y, d)[1] = g.x, Spot(dir, y, d)[2] = g.y,
               Spot(dir, y, d)[3] = g.z
        PROVE  y = w
    <3>1. Fast(y, d) = g.x /\ Slow(y, d) = g.z
      BY <1>5, <1>12, <1>14, <2>5
    <3>2. y = Slow(y, d)*d + Fast(y, d) + 1
      BY <1>8, <1>10
    <3> QED
      BY <3>1, <3>2 DEF w
  <2> QED
    BY <2>1, <2>3, <2>4, <2>5
<1>15. ASSUME p = 1 /\ dir[1] # 0 /\ dir[2] = 0 /\ dir[3] = 0
       PROVE  Good(x)
  <2> DEFINE w == g.z*d + g.y + 1
  <2>1. x = w
    BY <1>1, <1>15 DEF PlaceOf
  <2>2. w \in 1..d*d /\ Fast(w, d) = g.y /\ Slow(w, d) = g.z
    BY <1>1, <1>7
  <2> HIDE DEF w, x
  <2>3. w \in 1..Extent(p, d)
    BY <1>6, <1>15, <2>2
  <2>4. Spot(dir, w, d)[1] = g.x /\ Spot(dir, w, d)[2] = g.y /\ Spot(dir, w, d)[3] = g.z
    BY <1>2, <1>3, <1>4, <1>5, <1>12, <1>15, <2>2
  <2>5. ASSUME NEW y \in 1..Extent(p, d), Spot(dir, y, d)[1] = g.x, Spot(dir, y, d)[2] = g.y,
               Spot(dir, y, d)[3] = g.z
        PROVE  y = w
    <3>1. Fast(y, d) = g.y /\ Slow(y, d) = g.z
      BY <1>5, <1>12, <1>15, <2>5
    <3>2. y = Slow(y, d)*d + Fast(y, d) + 1
      BY <1>8, <1>10
    <3> QED
      BY <3>1, <3>2 DEF w
  <2> QED
    BY <2>1, <2>3, <2>4, <2>5
<1>16. ASSUME p = 2 /\ dir[1] = 0 /\ dir[2] # 0 /\ dir[3] # 0
       PROVE  Good(x)
  <2> DEFINE w == g.x + 1
  <2>1. x = w
    BY <1>1, <1>16 DEF PlaceOf
  <2>2. w \in 1..d /\ Fast(w, d) = g.x
    BY <1>1, <1>7
  <2> HIDE DEF w, x
  <2>3. w \in 1..Extent(p, d)
    BY <1>6, <1>16, <2>2
  <2>4. Spot(dir, w, d)[1] = g.x /\ Spot(dir, w, d)[2] = g.y /\ Spot(dir, w, d)[3] = g.z
    BY <1>2, <1>3, <1>4, <1>5, <1>12, <1>16, <2>2
  <2>5. ASSUME NEW y \in 1..Extent(p, d), Spot(dir, y, d)[1] = g.x, Spot(dir, y, d)[2] = g.y,
               Spot(dir, y, d)[3] = g.z
        PROVE  y = w
    <3>1. Fast(y, d) = g.x
      BY <1>5, <1>12, <1>16, <2>5
    <3>2. y = Fast(y, d) + 1
      BY <1>6, <1>9, <1>16
    <3> QED
      BY <3>1, <3>2 DEF w
  <2> QED
    BY <2>1, <2>3, <2>4, <2>5
<1>17. ASSUME p = 2 /\ dir[1] # 0 /\ dir[2] = 0 /\ dir[3] # 0
       PROVE  Good(x)
  <2> DEFINE w == g.y + 1
  <2>1. x = w
    BY <1>1, <1>17 DEF PlaceOf
  <2>2. w \in 1..d /\ Fast(w, d) = g.y
    BY <1>1, <1>7
  <2> HIDE DEF w, x
  <2>3. w \in 1..Extent(p, d)
    BY <1>6, <1>17, <2>2
  <2>4. Spot(dir, w, d)[1] = g.x /\ Spot(dir, w, d)[2] = g.y /\ Spot(dir, w, d)[3] = g.z
    BY <1>2, <1>3, <1>4, <1>5, <1>12, <1>17, <2>2
  <2>5. ASSUME NEW y \in 1..Extent(p, d), Spot(dir, y, d)[1] = g.x, Spot(dir, y, d)[2] = g.y,
               Spot(dir, y, d)[3] = g.z
        PROVE  y = w
    <3>1. Fast(y, d) = g.y
      BY <1>5, <1>12, <1>17, <2>5
    <3>2. y = Fast(y, d) + 1
      BY <1>6, <1>9, <1>17
    <3> QED
      BY <3>1, <3>2 DEF w
  <2> QED
    BY <2>1, <2>3, <2>4, <2>5
<1>18. ASSUME p = 2 /\ dir[1] # 0 /\ dir[2] # 0 /\ dir[3] = 0
       PROVE  Good(x)
  <2> DEFINE w == g.z + 1
  <2>1. x = w
    BY <1>1, <1>18 DEF PlaceOf
  <2>2. w \in 1..d /\ Fast(w, d) = g.z
    BY <1>1, <1>7
  <2> HIDE DEF w, x
  <2>3. w \in 1..Extent(p, d)
    BY <1>6, <1>18, <2>2
  <2>4. Spot(dir, w, d)[1] = g.x /\ Spot(dir, w, d)[2] = g.y /\ Spot(dir, w, d)[3] = g.z
    BY <1>2, <1>3, <1>4, <1>5, <1>12, <1>18, <2>2
  <2>5. ASSUME NEW y \in 1..Extent(p, d), Spot(dir, y, d)[1] = g.x, Spot(dir, y, d)[2] = g.y,
               Spot(dir, y, d)[3] = g.z
        PROVE  y = w
    <3>1. Fast(y, d) = g.z
      BY <1>5, <1>12, <1>18, <2>5
    <3>2. y = Fast(y, d) + 1
      BY <1>6, <1>9, <1>18
    <3> QED
      BY <3>1, <3>2 DEF w
  <2> QED
    BY <2>1, <2>3, <2>4, <2>5
<1>19. ASSUME p = 3 /\ dir[1] # 0 /\ dir[2] # 0 /\ dir[3] # 0
       PROVE  Good(x)
  <2> DEFINE w == 1
  <2>1. x = w
    BY <1>1, <1>19 DEF PlaceOf
  <2>2. w = 1 /\ w \in 1..1
    BY <1>1, <1>7
  <2> HIDE DEF w, x
  <2>3. w \in 1..Extent(p, d)
    BY <1>6, <1>19, <2>2
  <2>4. Spot(dir, w, d)[1] = g.x /\ Spot(dir, w, d)[2] = g.y /\ Spot(dir, w, d)[3] = g.z
    BY <1>2, <1>3, <1>4, <1>5, <1>12, <1>19, <2>2
  <2>5. ASSUME NEW y \in 1..Extent(p, d), Spot(dir, y, d)[1] = g.x, Spot(dir, y, d)[2] = g.y,
               Spot(dir, y, d)[3] = g.z
        PROVE  y = w
    BY <1>6, <1>19, <2>2
  <2> QED
    BY <2>1, <2>3, <2>4, <2>5
<1>20. Good(x)
  BY <1>6, <1>13, <1>14, <1>15, <1>16, <1>17, <1>18, <1>19 DEF Shape
<1> HIDE DEF x
<1>21. NodeAt(dir, x, d) = m
  BY <1>1, <1>20, Zenon DEF NodeAt
<1> QED
  BY <1>11, <1>20, <1>21 DEF x, g

-----------------------------------------------------------------------------
(***************************************************************************)
(* The copies of a node: one for every step that leads from its rank to    *)
(* another which has it on the facing side, and its own.                   *)
(***************************************************************************)

(* Where places of two cubes along one axis are the same place: in one     *)
(* cube, or on the sides of two that touch.                                *)
LEMMA AxisMeets ==
  ASSUME NEW n \in Nat \ {0}, NEW a \in Int, NEW b \in Int, NEW u \in 0..n, NEW v \in 0..n
  PROVE  a*n + u = b*n + v <=>
           b - a \in -1..1 /\ Side3(b - a, u, n + 1) /\ v = Facing(b - a, u, n + 1)
<1> DEFINE c == b - a
<1> DEFINE p == n*c
<1>1. c \in Int /\ p \in Int /\ (a*n + u = b*n + v <=> u - v = p)
  <2>1. n*(b - a) = b*n - a*n /\ a*n \in Int /\ b*n \in Int
    BY SMT
  <2> QED
    BY <2>1
<1>2. (c <= -2 => p <= -2*n) /\ (c >= 2 => p >= 2*n)
  <2>1. c <= -2 => n*c <= n*(-2)
    BY <1>1, ProductMonotone
  <2>2. 2 <= c => n*2 <= n*c
    BY <1>1, ProductMonotone
  <2>3. n*(-2) = -2*n /\ n*2 = 2*n
    BY SMT
  <2> HIDE DEF c
  <2> QED
    BY <1>1, <2>1, <2>2, <2>3
<1>3. (c = -1 => p = -n) /\ (c = 0 => p = 0) /\ (c = 1 => p = n)
  BY <1>1
<1> HIDE DEF p, c
<1>4. u - v = p <=> c \in -1..1 /\ Side3(c, u, n + 1) /\ v = Facing(c, u, n + 1)
  <2>1. CASE c <= -2
    BY <1>1, <1>2, <2>1
  <2>2. CASE c >= 2
    BY <1>1, <1>2, <2>2
  <2>3. CASE c = -1
    BY <1>1, <1>3, <2>3 DEF Side3, Facing
  <2>4. CASE c = 0
    BY <1>1, <1>3, <2>4 DEF Side3, Facing
  <2>5. CASE c = 1
    BY <1>1, <1>3, <2>5 DEF Side3, Facing
  <2> QED
    BY <1>1, <2>1, <2>2, <2>3, <2>4, <2>5
<1> QED
  BY <1>1, <1>4 DEF c

(* GlobalNode numbers the nodes of the whole cube by their places in it.   *)
LEMMA GlobalPoint ==
  ASSUME NEW t \in Nat \ {0}, NEW n \in Nat \ {0}, NEW r \in 0..Cube(t) - 1,
         NEW m \in 0..Cube(n + 1) - 1
  PROVE  LET l == Digits(r, t)
             g == Digits(m, n + 1)
         IN /\ t*n + 1 \in Nat \ {0}
            /\ l.x*n + g.x \in 0..t*n /\ l.y*n + g.y \in 0..t*n /\ l.z*n + g.z \in 0..t*n
            /\ GlobalNode(r, t, n, m) =
                 Point(l.x*n + g.x, l.y*n + g.y, l.z*n + g.z, t*n + 1)
<1> DEFINE l == Digits(r, t)
<1> DEFINE g == Digits(m, n + 1)
<1> DEFINE tn == t*n
<1>1. l.x \in 0..t - 1 /\ l.y \in 0..t - 1 /\ l.z \in 0..t - 1
  BY DigitsPoint
<1>2. g.x \in 0..n /\ g.y \in 0..n /\ g.z \in 0..n
  <2>1. n + 1 \in Nat \ {0} /\ (n + 1) - 1 = n
    OBVIOUS
  <2> QED
    BY <2>1, DigitsPoint
<1>3. tn \in Nat
  BY SMT
<1>4. ASSUME NEW a \in 0..t - 1, NEW u \in 0..n PROVE a*n + u \in 0..tn
  <2>1. n*a <= n*(t - 1) /\ n*(t - 1) = tn - n /\ a*n = n*a /\ a*n \in Nat
    BY ProductMonotone, SMT
  <2> DEFINE an == a*n
  <2>2. an \in Nat /\ an <= tn - n
    BY <2>1
  <2> HIDE DEF an, tn
  <2>3. an + u \in 0..tn
    BY <1>3, <2>2
  <2> QED
    BY <2>3 DEF an
<1> HIDE DEF l, g, tn
<1>5. l.x*n + g.x \in 0..tn /\ l.y*n + g.y \in 0..tn /\ l.z*n + g.z \in 0..tn
  BY <1>1, <1>2, <1>4
<1> DEFINE x == l.x*n + g.x
<1> DEFINE y == l.y*n + g.y
<1> DEFINE z == l.z*n + g.z
<1> DEFINE all == t*n + 1
<1>6. GlobalNode(r, t, n, m) = x + y*all + z*all*all
  BY LocDigits, GlobalDigits, Zenon DEF l, g
<1>7. x \in Int /\ y \in Int /\ z \in Int /\ all \in Int
  BY <1>3, <1>5 DEF tn
<1> HIDE DEF x, y, z, all
<1>8. x + y*all + z*all*all = Point(x, y, z, all)
  <2>1. z*all*all = z*(all*all)
    BY <1>7, SMT
  <2> QED
    BY <2>1, Zenon DEF Point
<1>9. GlobalNode(r, t, n, m) = Point(x, y, z, all)
  BY <1>6, <1>8
<1> QED
  BY <1>3, <1>5, <1>9 DEF x, y, z, all, l, g, tn

(* Two nodes are one where their places in the whole cube are the same.    *)
LEMMA SameNode ==
  ASSUME NEW t \in Nat \ {0}, NEW n \in Nat \ {0}, NEW r \in 0..Cube(t) - 1,
         NEW m \in 0..Cube(n + 1) - 1, NEW q \in 0..Cube(t) - 1, NEW k \in 0..Cube(n + 1) - 1
  PROVE  LET l == Digits(r, t)
             g == Digits(m, n + 1)
             o == Digits(q, t)
             h == Digits(k, n + 1)
         IN GlobalNode(q, t, n, k) = GlobalNode(r, t, n, m) <=>
              /\ l.x*n + g.x = o.x*n + h.x
              /\ l.y*n + g.y = o.y*n + h.y
              /\ l.z*n + g.z = o.z*n + h.z
<1> DEFINE l == Digits(r, t)
<1> DEFINE g == Digits(m, n + 1)
<1> DEFINE o == Digits(q, t)
<1> DEFINE h == Digits(k, n + 1)
<1> DEFINE all == t*n + 1
<1> DEFINE hi == all - 1
<1>1. /\ all \in Nat \ {0} /\ t*n = hi
      /\ l.x*n + g.x \in 0..t*n /\ l.y*n + g.y \in 0..t*n /\ l.z*n + g.z \in 0..t*n
      /\ GlobalNode(r, t, n, m) = Point(l.x*n + g.x, l.y*n + g.y, l.z*n + g.z, all)
  BY GlobalPoint
<1>2. /\ o.x*n + h.x \in 0..t*n /\ o.y*n + h.y \in 0..t*n /\ o.z*n + h.z \in 0..t*n
      /\ GlobalNode(q, t, n, k) = Point(o.x*n + h.x, o.y*n + h.y, o.z*n + h.z, all)
  BY GlobalPoint
<1> DEFINE x == l.x*n + g.x
<1> DEFINE y == l.y*n + g.y
<1> DEFINE z == l.z*n + g.z
<1> DEFINE u == o.x*n + h.x
<1> DEFINE v == o.y*n + h.y
<1> DEFINE w == o.z*n + h.z
<1>3. /\ all \in Nat \ {0} /\ x \in 0..all - 1 /\ y \in 0..all - 1 /\ z \in 0..all - 1
      /\ GlobalNode(r, t, n, m) = Point(x, y, z, all)
  <2> HIDE DEF l, g, all
  <2> QED
    BY <1>1
<1>4. /\ u \in 0..all - 1 /\ v \in 0..all - 1 /\ w \in 0..all - 1
      /\ GlobalNode(q, t, n, k) = Point(u, v, w, all)
  <2> HIDE DEF o, h, all
  <2> QED
    BY <1>1, <1>2
<1> HIDE DEF x, y, z, u, v, w, all
<1>5. Digits(Point(x, y, z, all), all) = [x |-> x, y |-> y, z |-> z]
  BY <1>3, DigitsOf
<1>6. Digits(Point(u, v, w, all), all) = [x |-> u, y |-> v, z |-> w]
  BY <1>3, <1>4, DigitsOf
<1>7. Point(u, v, w, all) = Point(x, y, z, all) <=> x = u /\ y = v /\ z = w
  BY <1>5, <1>6
<1> QED
  BY <1>3, <1>4, <1>7 DEF x, y, z, u, v, w

(* The copies of a node: one on every rank that has it on the facing side. *)
Given(r, t, dir, m, d) == <<Neighbour(r, t, dir), Twin(dir, m, d)>>
Meets(r, t, dir, m, d) == HasNeighbour(r, t, dir) /\ OnSide(dir, m, d)
CopiesOf(r, m, t, n) ==
  {c \in (0..Cube(t) - 1) \X (0..Cube(n + 1) - 1) :
     GlobalNode(c[1], t, n, c[2]) = GlobalNode(r, t, n, m)}

(* What a neighbour has on the facing side is a node.                      *)
LEMMA TwinIs ==
  ASSUME NEW d \in Nat \ {0}, NEW dir \in Steps, NEW m \in 0..Cube(d) - 1
  PROVE  LET g == Digits(m, d)
         IN /\ Twin(dir, m, d) \in 0..Cube(d) - 1
            /\ Digits(Twin(dir, m, d), d) =
                 [x |-> Facing(dir[1], g.x, d), y |-> Facing(dir[2], g.y, d),
                  z |-> Facing(dir[3], g.z, d)]
<1> DEFINE g == Digits(m, d)
<1>1. g.x \in 0..d - 1 /\ g.y \in 0..d - 1 /\ g.z \in 0..d - 1
  BY DigitsPoint
<1> HIDE DEF g
<1>2. \A s, a : a \in 0..d - 1 => Facing(s, a, d) \in 0..d - 1
  BY DEF Facing
<1> DEFINE x == Facing(dir[1], g.x, d)
<1> DEFINE y == Facing(dir[2], g.y, d)
<1> DEFINE z == Facing(dir[3], g.z, d)
<1>3. x \in 0..d - 1 /\ y \in 0..d - 1 /\ z \in 0..d - 1
  BY <1>1, <1>2, Zenon
<1>4. Twin(dir, m, d) = Point(x, y, z, d)
  BY Zenon DEF Twin, g
<1> HIDE DEF x, y, z
<1>5. Twin(dir, m, d) \in 0..Cube(d) - 1 /\ Digits(Twin(dir, m, d), d) = [x |-> x, y |-> y, z |-> z]
  BY <1>3, <1>4, DigitsOf
<1> QED
  BY <1>5 DEF x, y, z, g

(* The copies of a node are those its rank and its neighbours have.        *)
LEMMA CopyIs ==
  ASSUME NEW t \in Nat \ {0}, NEW n \in Nat \ {0}, NEW r \in 0..Cube(t) - 1,
         NEW m \in 0..Cube(n + 1) - 1, NEW q \in 0..Cube(t) - 1, NEW k \in 0..Cube(n + 1) - 1
  PROVE  GlobalNode(q, t, n, k) = GlobalNode(r, t, n, m) <=>
           \E dir \in Steps : /\ Meets(r, t, dir, m, n + 1)
                              /\ q = Neighbour(r, t, dir) /\ k = Twin(dir, m, n + 1)
<1> DEFINE l == Digits(r, t)
<1> DEFINE g == Digits(m, n + 1)
<1> DEFINE o == Digits(q, t)
<1> DEFINE h == Digits(k, n + 1)
<1>0. n + 1 \in Nat \ {0} /\ (n + 1) - 1 = n
  OBVIOUS
<1>1. /\ l.x \in 0..t - 1 /\ l.y \in 0..t - 1 /\ l.z \in 0..t - 1 /\ r = Point(l.x, l.y, l.z, t)
      /\ o.x \in 0..t - 1 /\ o.y \in 0..t - 1 /\ o.z \in 0..t - 1 /\ q = Point(o.x, o.y, o.z, t)
  BY DigitsPoint
<1>2. /\ g.x \in 0..n /\ g.y \in 0..n /\ g.z \in 0..n
      /\ h.x \in 0..n /\ h.y \in 0..n /\ h.z \in 0..n /\ k = Point(h.x, h.y, h.z, n + 1)
  BY <1>0, DigitsPoint
<1> DEFINE Same == GlobalNode(q, t, n, k) = GlobalNode(r, t, n, m)
<1>3. Same <=> /\ l.x*n + g.x = o.x*n + h.x
               /\ l.y*n + g.y = o.y*n + h.y
               /\ l.z*n + g.z = o.z*n + h.z
  BY SameNode
<1> DEFINE a == o.x - l.x
<1> DEFINE b == o.y - l.y
<1> DEFINE c == o.z - l.z
<1> HIDE DEF l, g, o, h, Same
<1>4. Same <=> /\ a \in -1..1 /\ Side3(a, g.x, n + 1) /\ h.x = Facing(a, g.x, n + 1)
               /\ b \in -1..1 /\ Side3(b, g.y, n + 1) /\ h.y = Facing(b, g.y, n + 1)
               /\ c \in -1..1 /\ Side3(c, g.z, n + 1) /\ h.z = Facing(c, g.z, n + 1)
  <2> DEFINE Axis(x, y, u, v) == x*n + u = y*n + v <=>
        y - x \in -1..1 /\ Side3(y - x, u, n + 1) /\ v = Facing(y - x, u, n + 1)
  <2>4. \A x, y \in Int, u, v \in 0..n : Axis(x, y, u, v)
    BY AxisMeets
  <2>0. /\ l.x \in Int /\ l.y \in Int /\ l.z \in Int /\ o.x \in Int /\ o.y \in Int /\ o.z \in Int
    BY <1>1
  <2> HIDE DEF Axis
  <2>1. Axis(l.x, o.x, g.x, h.x) /\ Axis(l.y, o.y, g.y, h.y) /\ Axis(l.z, o.z, g.z, h.z)
    BY <1>2, <2>0, <2>4, Zenon
  <2> USE DEF Axis
  <2>2. l.x*n + g.x = o.x*n + h.x <=>
          a \in -1..1 /\ Side3(a, g.x, n + 1) /\ h.x = Facing(a, g.x, n + 1)
    BY <2>1
  <2>3. l.y*n + g.y = o.y*n + h.y <=>
          b \in -1..1 /\ Side3(b, g.y, n + 1) /\ h.y = Facing(b, g.y, n + 1)
    BY <2>1
  <2>5. l.z*n + g.z = o.z*n + h.z <=>
          c \in -1..1 /\ Side3(c, g.z, n + 1) /\ h.z = Facing(c, g.z, n + 1)
    BY <2>1
  <2> HIDE DEF a, b, c
  <2> QED
    BY <1>3, <2>2, <2>3, <2>5
<1>5. ASSUME Same
      PROVE  \E dir \in Steps : /\ Meets(r, t, dir, m, n + 1)
                                /\ q = Neighbour(r, t, dir) /\ k = Twin(dir, m, n + 1)
  <2> DEFINE dir == <<a, b, c>>
  <2>1. a \in -1..1 /\ b \in -1..1 /\ c \in -1..1
    BY <1>4, <1>5
  <2>2. dir \in Steps /\ dir[1] = a /\ dir[2] = b /\ dir[3] = c
    <3> HIDE DEF a, b, c
    <3> QED
      BY <2>1 DEF Steps
  <2> HIDE DEF dir
  <2>3. l.x + dir[1] = o.x /\ l.y + dir[2] = o.y /\ l.z + dir[3] = o.z
    BY <1>1, <2>2
  <2>4. HasNeighbour(r, t, dir)
    BY <1>1, <2>2, <2>3, HasNeighbourIs DEF l
  <2>5. OnSide(dir, m, n + 1)
    BY <1>4, <1>5, <2>2, Zenon DEF OnSide, g
  <2>6. q = Neighbour(r, t, dir)
    <3>1. l.x \in Int /\ l.y \in Int /\ l.z \in Int
      BY <1>1
    <3>2. Point(l.x + dir[1], l.y + dir[2], l.z + dir[3], t) = Neighbour(Point(l.x, l.y, l.z, t), t, dir)
      BY <2>2, <3>1, PointStep
    <3> QED
      BY <1>1, <2>3, <3>2
  <2>7. k = Twin(dir, m, n + 1)
    BY <1>2, <1>4, <1>5, <2>2, Zenon DEF Twin, g
  <2> QED
    BY <2>2, <2>4, <2>5, <2>6, <2>7 DEF Meets
<1>6. ASSUME NEW dir \in Steps, Meets(r, t, dir, m, n + 1),
             q = Neighbour(r, t, dir), k = Twin(dir, m, n + 1)
      PROVE  Same
  <2>1. o = [x |-> l.x + dir[1], y |-> l.y + dir[2], z |-> l.z + dir[3]]
    BY <1>6, NeighbourIs DEF Meets, l, o
  <2>2. h = [x |-> Facing(dir[1], g.x, n + 1), y |-> Facing(dir[2], g.y, n + 1),
             z |-> Facing(dir[3], g.z, n + 1)]
    BY <1>0, <1>6, TwinIs DEF g, h
  <2>3. dir[1] \in -1..1 /\ dir[2] \in -1..1 /\ dir[3] \in -1..1
    BY StepParts
  <2>4. a = dir[1] /\ b = dir[2] /\ c = dir[3]
    BY <1>1, <2>1, <2>3
  <2>5. Side3(dir[1], g.x, n + 1) /\ Side3(dir[2], g.y, n + 1) /\ Side3(dir[3], g.z, n + 1)
    BY <1>6, Zenon DEF Meets, OnSide, g
  <2>6. /\ h.x = Facing(dir[1], g.x, n + 1) /\ h.y = Facing(dir[2], g.y, n + 1)
        /\ h.z = Facing(dir[3], g.z, n + 1)
    BY <2>2
  <2> HIDE DEF a, b, c
  <2> QED
    BY <1>4, <2>3, <2>4, <2>5, <2>6
<1>7. Same <=> \E dir \in Steps : /\ Meets(r, t, dir, m, n + 1)
                                  /\ q = Neighbour(r, t, dir) /\ k = Twin(dir, m, n + 1)
  BY <1>5, <1>6
<1> QED
  BY <1>7, Zenon DEF Same

Home == <<0, 0, 0>>

(* No step leads to the node itself.                                       *)
LEMMA HomeIs ==
  ASSUME NEW t \in Nat \ {0}, NEW d \in Nat \ {0}, NEW r \in 0..Cube(t) - 1,
         NEW m \in 0..Cube(d) - 1
  PROVE  Home \in Steps /\ Meets(r, t, Home, m, d) /\ Given(r, t, Home, m, d) = <<r, m>>
<1> DEFINE l == Digits(r, t)
<1> DEFINE g == Digits(m, d)
<1>0. Home \in Steps /\ Home[1] = 0 /\ Home[2] = 0 /\ Home[3] = 0
  BY DEF Home, Steps
<1>1. /\ l.x \in 0..t - 1 /\ l.y \in 0..t - 1 /\ l.z \in 0..t - 1 /\ r = Point(l.x, l.y, l.z, t)
      /\ m = Point(g.x, g.y, g.z, d)
  BY DigitsPoint
<1>2. HasNeighbour(r, t, Home)
  BY <1>0, <1>1, HasNeighbourIs
<1>3. OnSide(Home, m, d)
  BY <1>0 DEF OnSide, Side3
<1>4. Neighbour(r, t, Home) = r
  <2>1. l.x \in Int /\ l.y \in Int /\ l.z \in Int
    BY <1>1
  <2> HIDE DEF l
  <2>2. Point(l.x + Home[1], l.y + Home[2], l.z + Home[3], t) = Neighbour(Point(l.x, l.y, l.z, t), t, Home)
    BY <1>0, <2>1, PointStep
  <2>3. l.x + Home[1] = l.x /\ l.y + Home[2] = l.y /\ l.z + Home[3] = l.z
    BY <1>0, <2>1
  <2> QED
    BY <1>1, <2>2, <2>3
<1>5. Twin(Home, m, d) = m
  <2>1. \A a : Facing(0, a, d) = a
    BY DEF Facing
  <2> HIDE DEF g
  <2>2. Twin(Home, m, d) = Point(Facing(0, g.x, d), Facing(0, g.y, d), Facing(0, g.z, d), d)
    BY <1>0 DEF Twin, g
  <2> QED
    BY <1>1, <2>1, <2>2
<1> QED
  BY <1>0, <1>2, <1>3, <1>4, <1>5 DEF Meets, Given

(* Different steps lead to copies on different ranks, and from a copy the  *)
(* opposite step leads back.                                               *)
LEMMA GivenIs ==
  ASSUME NEW t \in Nat \ {0}, NEW d \in Nat \ {0}, NEW r \in 0..Cube(t) - 1,
         NEW m \in 0..Cube(d) - 1, NEW dir \in Steps, Meets(r, t, dir, m, d)
  PROVE  /\ Neighbour(r, t, dir) \in 0..Cube(t) - 1 /\ Twin(dir, m, d) \in 0..Cube(d) - 1
         /\ \A e \in Steps : Meets(r, t, e, m, d) /\ Given(r, t, e, m, d) = Given(r, t, dir, m, d)
                             => e = dir
         /\ Opposite(dir) \in Steps
         /\ Meets(Neighbour(r, t, dir), t, Opposite(dir), Twin(dir, m, d), d)
         /\ Given(Neighbour(r, t, dir), t, Opposite(dir), Twin(dir, m, d), d) = <<r, m>>
<1> DEFINE g == Digits(m, d)
<1> DEFINE k == Twin(dir, m, d)
<1> DEFINE q == Neighbour(r, t, dir)
<1> DEFINE o == Opposite(dir)
<1>1. /\ g.x \in 0..d - 1 /\ g.y \in 0..d - 1 /\ g.z \in 0..d - 1 /\ m = Point(g.x, g.y, g.z, d)
  BY DigitsPoint
<1>2. HasNeighbour(r, t, dir) /\ OnSide(dir, m, d)
  BY DEF Meets
<1>3. q \in 0..Cube(t) - 1 /\ HasNeighbour(q, t, o) /\ Neighbour(q, t, o) = r
  BY <1>2, NeighbourIs
<1>4. /\ k \in 0..Cube(d) - 1
      /\ Digits(k, d) = [x |-> Facing(dir[1], g.x, d), y |-> Facing(dir[2], g.y, d),
                         z |-> Facing(dir[3], g.z, d)]
  BY TwinIs
<1>5. /\ o \in Steps /\ o[1] = -dir[1] /\ o[2] = -dir[2] /\ o[3] = -dir[3]
      /\ dir[1] \in -1..1 /\ dir[2] \in -1..1 /\ dir[3] \in -1..1
  BY StepParts DEF Opposite
<1>6. ASSUME NEW e \in Steps, Meets(r, t, e, m, d), Given(r, t, e, m, d) = Given(r, t, dir, m, d)
      PROVE  e = dir
  <2>1. HasNeighbour(r, t, e) /\ Neighbour(r, t, e) = Neighbour(r, t, dir)
    BY <1>6 DEF Meets, Given
  <2> QED
    BY <1>2, <2>1, NeighboursDiffer
<1>7. Side3(dir[1], g.x, d) /\ Side3(dir[2], g.y, d) /\ Side3(dir[3], g.z, d)
  BY <1>2, Zenon DEF OnSide
<1> DEFINE Back(s, a) == Side3(-s, Facing(s, a, d), d) /\ Facing(-s, Facing(s, a, d), d) = a
<1>8. \A s \in -1..1, a \in 0..d - 1 : Side3(s, a, d) => Back(s, a)
  BY DEF Side3, Facing
<1> HIDE DEF g, q, k, o, Back
<1>9. Back(dir[1], g.x) /\ Back(dir[2], g.y) /\ Back(dir[3], g.z)
  BY <1>1, <1>5, <1>7, <1>8, Zenon
<1> DEFINE h == Digits(k, d)
<1>10. /\ h.x = Facing(dir[1], g.x, d) /\ h.y = Facing(dir[2], g.y, d)
       /\ h.z = Facing(dir[3], g.z, d)
  BY <1>4
<1>11. OnSide(o, k, d)
  BY <1>5, <1>9, <1>10, Zenon DEF OnSide, Back
<1>12. Twin(o, k, d) = m
  BY <1>1, <1>5, <1>9, <1>10, Zenon DEF Twin, Back
<1> QED
  BY <1>3, <1>4, <1>5, <1>6, <1>11, <1>12, Zenon DEF Meets, Given, q, k, o

(* The copies are counted, the first is the node itself.                   *)
LEMMA CopiesAre ==
  ASSUME NEW t \in Nat \ {0}, NEW n \in Nat \ {0}, NEW r \in 0..Cube(t) - 1,
         NEW m \in 0..Cube(n + 1) - 1
  PROVE  /\ IsFiniteSet(CopiesOf(r, m, t, n)) /\ <<r, m>> \in CopiesOf(r, m, t, n)
         /\ \A c : c \in CopiesOf(r, m, t, n) <=>
              \E dir \in Steps : Meets(r, t, dir, m, n + 1) /\ c = Given(r, t, dir, m, n + 1)
<1> DEFINE R == 0..Cube(t) - 1
<1> DEFINE N == 0..Cube(n + 1) - 1
<1> DEFINE C == CopiesOf(r, m, t, n)
<1>0. n + 1 \in Nat \ {0}
  OBVIOUS
<1>1. ASSUME NEW c \in C
      PROVE  \E dir \in Steps : Meets(r, t, dir, m, n + 1) /\ c = Given(r, t, dir, m, n + 1)
  <2>1. /\ c \in R \X N /\ GlobalNode(c[1], t, n, c[2]) = GlobalNode(r, t, n, m)
    BY DEF CopiesOf
  <2>2. c[1] \in R /\ c[2] \in N /\ c = <<c[1], c[2]>>
    BY <2>1
  <2>3. PICK dir \in Steps : /\ Meets(r, t, dir, m, n + 1)
                             /\ c[1] = Neighbour(r, t, dir) /\ c[2] = Twin(dir, m, n + 1)
    BY <2>1, <2>2, CopyIs
  <2> QED
    BY <2>2, <2>3 DEF Given
<1>2. ASSUME NEW dir \in Steps, Meets(r, t, dir, m, n + 1)
      PROVE  Given(r, t, dir, m, n + 1) \in C
  <2> DEFINE q == Neighbour(r, t, dir)
  <2> DEFINE k == Twin(dir, m, n + 1)
  <2>1. q \in R /\ k \in N
    BY <1>0, <1>2, GivenIs
  <2>2. GlobalNode(q, t, n, k) = GlobalNode(r, t, n, m)
    BY <1>2, <2>1, CopyIs
  <2> DEFINE c == <<q, k>>
  <2>3. c[1] = q /\ c[2] = k /\ Given(r, t, dir, m, n + 1) = c
    BY DEF Given
  <2> HIDE DEF q, k
  <2>4. c \in R \X N
    BY <2>1
  <2> HIDE DEF c
  <2> QED
    BY <2>2, <2>3, <2>4 DEF CopiesOf
<1>3. <<r, m>> \in C
  <2>1. Home \in Steps /\ Meets(r, t, Home, m, n + 1) /\ Given(r, t, Home, m, n + 1) = <<r, m>>
    BY <1>0, HomeIs
  <2> QED
    BY <1>2, <2>1
<1>4. IsFiniteSet(C)
  <2>1. Cube(t) - 1 \in Int /\ Cube(n + 1) - 1 \in Int
    BY SMT DEF Cube
  <2>2. IsFiniteSet(R) /\ IsFiniteSet(N)
    BY <2>1, FS_Interval
  <2>3. IsFiniteSet(R \X N)
    BY <2>2, FS_Product
  <2>4. C \in SUBSET (R \X N)
    BY DEF CopiesOf
  <2> HIDE DEF R, N, C
  <2> QED
    BY <2>3, <2>4, FS_Subset
<1> HIDE DEF C
<1> QED
  BY <1>1, <1>2, <1>3, <1>4 DEF C

(* Every copy of a node has the same copies.                               *)
LEMMA CopiesShared ==
  ASSUME NEW t, NEW n, NEW r, NEW m, NEW c \in CopiesOf(r, m, t, n)
  PROVE  CopiesOf(c[1], c[2], t, n) = CopiesOf(r, m, t, n)
  BY DEF CopiesOf

-----------------------------------------------------------------------------
(***************************************************************************)
(* What a rank unpacks: message after message, each put to the nodes on its *)
(* side, and each the neighbour's own values there.                        *)
(***************************************************************************)

(* What is known when a rank unpacks.                                      *)
Sent(r) ==
  /\ kind \in DOMAIN Exchanges /\ tp \in Nat \ {0, 1} /\ nx \in Nat \ {0}
  /\ Ranks = 0..Cube(tp) - 1 /\ r \in Ranks
  /\ D = Size(kind, nx) /\ D \in Nat \ {0}
  /\ PostedWell(posted[r], Awaits(r, kind, tp), Exchanges[kind].fields, nx, D)
  /\ \A q \in Ranks : /\ SentAs(sent[q], q, kind, tp, nx)
                      /\ SentWell(sent[q], Gives(q, kind, tp), Exchanges[kind].fields, nx, D, q, tp)

(* It is known at the end of the sending.                                  *)
LEMMA SentIs ==
  ASSUME CommAssumption, CommIInv, NEW r \in Ranks, turn[1] \in {"Unpack", "done"}
  PROVE  Sent(r)
<1>1. StateIs
  BY StateFacts
<1>2. nx \in Nat \ {0}
  BY CommAssumption DEF CommIInv, TurnInv
<1>3. \A q \in Ranks : /\ Made(turn, "CommRecv", {"CommSend", "Unpack", "done"}, q)
                       /\ Made(turn, "CommSend", {"Unpack", "done"}, q)
  BY DEF Made
<1>4. \A q \in Ranks : SentAs(sent[q], q, kind, tp, nx)
  BY <1>3, Zenon DEF CommIInv, SentInv
<1>5. PostedWell(posted[r], Awaits(r, kind, tp), Exchanges[kind].fields, nx, D)
  BY <1>1, <1>3, Zenon DEF StateIs
<1>6. \A q \in Ranks : SentWell(sent[q], Gives(q, kind, tp), Exchanges[kind].fields, nx, D, q, tp)
  BY <1>1, <1>3, Zenon DEF StateIs
<1>7. /\ kind \in DOMAIN Exchanges /\ tp \in Nat \ {0, 1} /\ Ranks = 0..Cube(tp) - 1
      /\ D = Size(kind, nx) /\ D \in Nat \ {0}
  BY <1>1, Zenon DEF StateIs
<1> QED
  BY <1>2, <1>4, <1>5, <1>6, <1>7, Zenon DEF Sent

(* What arrives is what the neighbour had of its own on the facing side.   *)
LEMMA ArrivedIs ==
  ASSUME NEW r, Sent(r), NEW p \in 1..3, NEW i \in Awaits(r, kind, tp)[p],
         NEW x \in 1..Extent(p, D)
  PROVE  LET dir == Dirs[p][i]
         IN Arrived(r, posted[r][MsgSlot(Awaits(r, kind, tp), p, i)])[x]
              = OwnOf(Neighbour(r, tp, dir), kind, nx)[NodeAt(Opposite(dir), x, D)]
<1> DEFINE K == Awaits(r, kind, tp)
<1> DEFINE dir == Dirs[p][i]
<1> DEFINE q == Neighbour(r, tp, dir)
<1> DEFINE G == Gives(q, kind, tp)
<1> DEFINE post == posted[r][MsgSlot(K, p, i)]
<1> DEFINE s == sent[q]
<1>1. /\ kind \in DOMAIN Exchanges /\ tp \in Nat \ {0, 1} /\ nx \in Nat \ {0}
      /\ r \in 0..Cube(tp) - 1 /\ D = Size(kind, nx) /\ D \in Nat \ {0} /\ Ranks = 0..Cube(tp) - 1
  BY Zenon DEF Sent
<1>2. post.msg.dir = dir
  BY Zenon DEF Sent, PostedWell
<1>3. /\ q \in 0..Cube(tp) - 1
      /\ \E j \in G[p] : /\ Neighbour(q, tp, Dirs[p][j]) = r
                         /\ \A y \in 1..3 : \A z \in G[y] :
                              Neighbour(q, tp, Dirs[y][z]) = r => y = p /\ z = j
  BY <1>1, AwaitedIsGiven
<1>4. PICK j \in G[p] : /\ Neighbour(q, tp, Dirs[p][j]) = r
                        /\ \A y \in 1..3 : \A z \in G[y] :
                              Neighbour(q, tp, Dirs[y][z]) = r => y = p /\ z = j
  BY <1>3, Zenon
<1>5. SentAs(s, q, kind, tp, nx) /\ SentWell(s, G, Exchanges[kind].fields, nx, D, q, tp)
  BY <1>1, <1>3, Zenon DEF Sent
<1> DEFINE e == MsgSlot(G, p, j)
<1>6. /\ \A y \in 1..3 : \A z \in G[y] : /\ MsgSlot(G, y, z) \in DOMAIN s
                                        /\ s[MsgSlot(G, y, z)].to = Neighbour(q, tp, Dirs[y][z])
      /\ \A a \in DOMAIN s : \E y \in 1..3 : \E z \in G[y] : a = MsgSlot(G, y, z)
  BY <1>5, Zenon DEF SentWell
<1>7. s[e].data = DataOf(q, kind, nx, p, j)
  <2> DEFINE b == s[e]
  <2>1. b = [at |-> Place(G, Exchanges[kind].fields, nx, p, j),
             to |-> Neighbour(q, tp, Dirs[p][j]), data |-> DataOf(q, kind, nx, p, j)]
    BY <1>5, Zenon DEF SentAs
  <2> HIDE DEF b
  <2>2. b.data = DataOf(q, kind, nx, p, j)
    BY <2>1
  <2> QED
    BY <2>2 DEF b
<1>8. Dirs[p][j] = Opposite(dir) /\ j \in 1..Entries(p)
  <2>1. dir \in Steps /\ HasNeighbour(r, tp, dir) /\ tp \in Nat \ {0}
    BY <1>1, TakesPart
  <2>2. j \in 1..Entries(p) /\ Dirs[p][j] \in Steps /\ HasNeighbour(q, tp, Dirs[p][j])
    BY TakesPart
  <2>3. Opposite(dir) \in Steps /\ HasNeighbour(q, tp, Opposite(dir)) /\ Neighbour(q, tp, Opposite(dir)) = r
    BY <1>1, <2>1, NeighbourIs, StepParts
  <2> HIDE DEF dir, q
  <2> QED
    BY <1>3, <1>4, <2>1, <2>2, <2>3, NeighboursDiffer
<1> HIDE DEF s, G, q, K, post, dir
<1>9. e \in DOMAIN s /\ s[e].to = r
  BY <1>4, <1>6
<1>10. \A a \in DOMAIN s : s[a].to = r => a = e
  <2> SUFFICES ASSUME NEW a \in DOMAIN s, s[a].to = r PROVE a = e
    OBVIOUS
  <2>1. PICK y \in 1..3 : \E z \in G[y] : a = MsgSlot(G, y, z)
    BY <1>6
  <2>2. PICK z \in G[y] : a = MsgSlot(G, y, z)
    BY <2>1
  <2>3. Neighbour(q, tp, Dirs[y][z]) = r
    BY <1>6, <2>2
  <2>4. y = p /\ z = j
    BY <1>4, <2>3
  <2> QED
    BY <2>2, <2>4
<1>11. (CHOOSE a \in DOMAIN s : s[a].to = r) = e
  <2> HIDE DEF e
  <2> QED
    BY <1>9, <1>10
<1>12. Arrived(r, post) = s[CHOOSE a \in DOMAIN s : s[a].to = r].data
  BY <1>2, Zenon DEF Arrived, s, q
<1>13. Arrived(r, post) = DataOf(q, kind, nx, p, j)
  BY <1>7, <1>11, <1>12, Zenon
<1> DEFINE nodes == SendTable(D)[p][j].nodes
<1>14. DataOf(q, kind, nx, p, j) = [y \in DOMAIN nodes |-> OwnOf(q, kind, nx)[nodes[y]]]
  BY <1>1, Zenon DEF DataOf
<1>15. nodes = [y \in 1..Extent(p, D) |-> nodes[y]]
  <2>1. ListsAs(SendTable(D), SendTable(D), D)
    BY <1>1, NodesListed
  <2> QED
    BY <1>8, <2>1, Zenon DEF ListsAs, Listing
<1>16. nodes[x] = NodeAt(Opposite(dir), x, D)
  BY <1>1, <1>8, SentNodes
<1> HIDE DEF nodes
<1>17. DataOf(q, kind, nx, p, j)[x] = OwnOf(q, kind, nx)[nodes[x]]
  <2> DEFINE own == OwnOf(q, kind, nx)
  <2>1. x \in DOMAIN nodes
    BY <1>15
  <2> HIDE DEF own
  <2> QED
    BY <1>14, <2>1 DEF own
<1> QED
  BY <1>13, <1>16, <1>17 DEF q, dir, post, K

(* The nodes a rank puts them to.                                          *)
LEMMA TodoIs ==
  ASSUME NEW r, Sent(r), kind # "monoQ", NEW p \in 1..3, NEW i \in Awaits(r, kind, tp)[p]
  PROVE  LET nodes == Unpacked(r)[MsgSlot(Awaits(r, kind, tp), p, i)].msg.nodes
         IN /\ DOMAIN nodes = 1..Extent(p, D)
            /\ \A x \in 1..Extent(p, D) : nodes[x] = NodeAt(Dirs[p][i], x, D)
<1> DEFINE K == Awaits(r, kind, tp)
<1> DEFINE T == UnpackTable(kind, D)
<1> DEFINE S == SendTable(D)
<1> DEFINE u == Unpacked(r)[MsgSlot(K, p, i)]
<1>1. /\ kind \in DOMAIN Exchanges /\ tp \in Nat \ {0, 1} /\ nx \in Nat \ {0} /\ D \in Nat \ {0}
  BY Zenon DEF Sent
<1>2. kind \in {"mass", "force", "posVel"}
  BY <1>1, ExchangesAre
<1>3. ListsAs(T, S, D)
  <2>1. ListsAs(SbnTable(D), S, D) /\ ListsAs(SyncTable(D), S, D)
    BY <1>1, NodesListed
  <2>2. T = SbnTable(D) \/ T = SyncTable(D)
    BY <1>2 DEF UnpackTable
  <2> HIDE DEF T, S
  <2> QED
    BY <2>1, <2>2
<1>4. u = [at |-> Place(K, Exchanges[kind].fields, nx, p, i), msg |-> T[p][i]]
  <2>1. Laid(Unpacked(r), K, T, Exchanges[kind].fields, nx)
    BY <1>1, UnpackLaid, Zenon
  <2> QED
    BY <2>1, Zenon DEF Laid
<1>5. i \in 1..Entries(p)
  BY TakesPart
<1> HIDE DEF u, T, S
<1>6. u.msg = T[p][i]
  BY <1>4
<1>7. T[p][i].nodes = S[p][i].nodes /\ Listing(T[p][i], Extent(p, D))
  BY <1>3, <1>5, Zenon DEF ListsAs
<1> DEFINE nodes == u.msg.nodes
<1>8. nodes = [x \in 1..Extent(p, D) |-> nodes[x]] /\ nodes = S[p][i].nodes
  BY <1>6, <1>7, Zenon DEF Listing
<1>9. \A x \in 1..Extent(p, D) : S[p][i].nodes[x] = NodeAt(Dirs[p][i], x, D)
  BY <1>1, <1>5, SentNodes DEF S
<1> HIDE DEF nodes
<1>10. DOMAIN nodes = 1..Extent(p, D)
  BY <1>8
<1>11. \A x \in 1..Extent(p, D) : nodes[x] = NodeAt(Dirs[p][i], x, D)
  BY <1>8, <1>9
<1> QED
  BY <1>10, <1>11, Zenon DEF nodes, u, K

NodesAt(r, j, m) ==
  {k \in DOMAIN Unpacked(r)[j].msg.nodes : Unpacked(r)[j].msg.nodes[k] = m}
PutWell(r, j, dir, m) ==
  /\ NodesAt(r, j, m) # {} <=> OnSide(dir, m, D)
  /\ NodesAt(r, j, m) # {} => Arrived(r, posted[r][j])[CHOOSE k \in NodesAt(r, j, m) : TRUE]
                                = << Given(r, tp, dir, m, D) >>

(* So a message changes the nodes on its side, each by its one copy there. *)
LEMMA PutIs ==
  ASSUME NEW r, Sent(r), kind # "monoQ", NEW p \in 1..3, NEW i \in Awaits(r, kind, tp)[p],
         NEW m \in 0..Cube(D) - 1
  PROVE  PutWell(r, MsgSlot(Awaits(r, kind, tp), p, i), Dirs[p][i], m)
<1> DEFINE j == MsgSlot(Awaits(r, kind, tp), p, i)
<1> DEFINE nodes == Unpacked(r)[j].msg.nodes
<1> DEFINE at == {k \in DOMAIN nodes : nodes[k] = m}
<1> DEFINE dir == Dirs[p][i]
<1> DEFINE data == Arrived(r, posted[r][j])
<1> DEFINE q == Neighbour(r, tp, dir)
<1>1. /\ kind \in DOMAIN Exchanges /\ tp \in Nat \ {0, 1} /\ nx \in Nat \ {0} /\ D \in Nat \ {0}
      /\ D = Size(kind, nx)
  BY Zenon DEF Sent
<1>2. DOMAIN nodes = 1..Extent(p, D) /\ \A x \in 1..Extent(p, D) : nodes[x] = NodeAt(dir, x, D)
  BY TodoIs
<1>3. \A x \in 1..Extent(p, D) : data[x] = OwnOf(q, kind, nx)[NodeAt(Opposite(dir), x, D)]
  BY ArrivedIs
<1>4. i \in 1..Entries(p) /\ dir \in Steps
  BY TakesPart
<1>5. Shape(p, dir)
  BY <1>4, ShapeIs
<1>6. 1..Extent(p, D) \subseteq 1..D*D
  <2> DEFINE dd == D*D
  <2>1. dd \in Nat /\ D <= dd /\ 1 <= dd
    <3>1. 0 \in 0..D - 1
      BY <1>1
    <3>2. dd \in Nat /\ D <= dd /\ 1 \in 1..dd
      BY <1>1, <3>1, PlaceDigits, Zenon
    <3> HIDE DEF dd
    <3> QED
      BY <3>2
  <2>2. Extent(p, D) = dd \/ Extent(p, D) = D \/ Extent(p, D) = 1
    BY PartsOf
  <2> HIDE DEF dd
  <2>3. 1..Extent(p, D) \subseteq 1..dd
    BY <1>1, <2>1, <2>2
  <2> QED
    BY <2>3 DEF dd
<1> HIDE DEF nodes, data, dir, q, j
<1>7. OnSide(dir, m, D) => at # {}
  <2> SUFFICES ASSUME OnSide(dir, m, D) PROVE at # {}
    OBVIOUS
  <2> DEFINE x == PlaceOf(dir, Digits(m, D), D)
  <2>1. x \in 1..Extent(p, D) /\ NodeAt(dir, x, D) = m
    BY <1>1, <1>4, <1>5, NodeFound
  <2> HIDE DEF x
  <2>2. x \in at
    BY <1>2, <2>1
  <2> QED
    BY <2>2
<1>8. ASSUME NEW k \in at
      PROVE  OnSide(dir, m, D) /\ data[k] = << Given(r, tp, dir, m, D) >>
  <2>1. k \in 1..Extent(p, D) /\ k \in 1..D*D /\ NodeAt(dir, k, D) = m
    BY <1>2, <1>6, <1>8
  <2>2. OnSide(dir, m, D) /\ Twin(dir, m, D) = NodeAt(Opposite(dir), k, D)
    BY <1>1, <1>4, <2>1, NodeFacts
  <2>3. data[k] = OwnOf(q, kind, nx)[Twin(dir, m, D)]
    BY <1>3, <2>1, <2>2
  <2>4. OwnOf(q, kind, nx)[Twin(dir, m, D)] = << <<q, Twin(dir, m, D)>> >>
    <3>1. Twin(dir, m, D) \in 0..Cube(nx + 1) - 1
      BY <1>1, <1>4, TwinIs DEF Size
    <3> DEFINE y == Twin(dir, m, D)
    <3>2. OwnOf(q, kind, nx) = [z \in 0..Cube(nx + 1) - 1 |-> << <<q, z>> >>]
      BY DEF OwnOf
    <3> HIDE DEF y
    <3>3. y \in 0..Cube(nx + 1) - 1 => OwnOf(q, kind, nx)[y] = << <<q, y>> >>
      BY <3>2
    <3> QED
      BY <3>1, <3>3 DEF y
  <2> QED
    BY <2>2, <2>3, <2>4, Zenon DEF Given, q
<1>9. at # {} => (CHOOSE k \in at : TRUE) \in at
  <2> HIDE DEF at
  <2> QED
    BY Zenon
<1>10. at # {} <=> OnSide(dir, m, D)
  <2> HIDE DEF at
  <2> QED
    BY <1>7, <1>8
<1>11. at # {} => data[CHOOSE k \in at : TRUE] = << Given(r, tp, dir, m, D) >>
  <2> HIDE DEF at
  <2> QED
    BY <1>8, <1>9, Zenon
<1> QED
  BY <1>10, <1>11, Zenon DEF PutWell, NodesAt, at, nodes, dir, data, j

Way(r, j) == posted[r][j].msg.dir
Slots(r) == All(Awaits(r, kind, tp))
Due(r, k, t, dir) == dir \in Steps /\ dir # Home /\ HasNeighbour(r, t, dir)
                     /\ (k = "posVel" => ~Earlier(dir))

(* A slot is an awaited entry of a table.                                  *)
LEMMA SlotsAreEntries ==
  ASSUME NEW r, Sent(r)
  PROVE  /\ Slots(r) \in Nat /\ DOMAIN Unpacked(r) = 1..Slots(r)
         /\ \A j \in 1..Slots(r) :
              \E p \in 1..3 : \E i \in Awaits(r, kind, tp)[p] :
                j = MsgSlot(Awaits(r, kind, tp), p, i) /\ Way(r, j) = Dirs[p][i]
         /\ \A p \in 1..3 : \A i \in Awaits(r, kind, tp)[p] :
              /\ MsgSlot(Awaits(r, kind, tp), p, i) \in 1..Slots(r)
              /\ Way(r, MsgSlot(Awaits(r, kind, tp), p, i)) = Dirs[p][i]
<1> DEFINE K == Awaits(r, kind, tp)
<1> DEFINE s == posted[r]
<1>1. kind \in DOMAIN Exchanges /\ nx \in Nat
  BY Zenon DEF Sent
<1>2. PostedWell(s, K, Exchanges[kind].fields, nx, D)
  BY Zenon DEF Sent
<1>3. UnpackedWell(Unpacked(r), K, Exchanges[kind].fields, nx, D)
  BY <1>1, UnpackFacts
<1>4. Parts(K) /\ All(K) \in Nat
  BY AwaitsAre, PartsCount
<1> HIDE DEF K, s
<1>5. \A p \in 1..3 : \A i \in K[p] : MsgSlot(K, p, i) \in 1..All(K)
                                     /\ s[MsgSlot(K, p, i)].msg.dir = Dirs[p][i]
  BY <1>2, <1>4, MsgSlotsAre, Zenon DEF PostedWell
<1>6. \A j \in 1..All(K) : \E p \in 1..3 : \E i \in K[p] : j = MsgSlot(K, p, i)
  BY <1>4, MsgSlotsAre
<1>7. ASSUME NEW j \in 1..All(K)
      PROVE  \E p \in 1..3 : \E i \in K[p] : j = MsgSlot(K, p, i) /\ s[j].msg.dir = Dirs[p][i]
  <2>1. PICK p \in 1..3 : \E i \in K[p] : j = MsgSlot(K, p, i)
    BY <1>6
  <2>2. PICK i \in K[p] : j = MsgSlot(K, p, i)
    BY <2>1
  <2>3. s[j].msg.dir = Dirs[p][i]
    BY <1>5, <2>2, Zenon
  <2> QED
    BY <2>2, <2>3
<1>8. DOMAIN Unpacked(r) = 1..All(K)
  BY <1>3, Zenon DEF UnpackedWell
<1> QED
  BY <1>4, <1>5, <1>7, <1>8, Zenon DEF Slots, Way, K, s

(* The slots of a sum or of positions are the ways that messages are due,  *)
(* each once.                                                              *)
LEMMA WaysAre ==
  ASSUME NEW r, Sent(r), kind # "monoQ"
  PROVE  /\ \A j \in 1..Slots(r) : Due(r, kind, tp, Way(r, j))
         /\ \A i, j \in 1..Slots(r) : Way(r, i) = Way(r, j) => i = j
         /\ \A dir : Due(r, kind, tp, dir) => \E j \in 1..Slots(r) : Way(r, j) = dir
<1> DEFINE K == Awaits(r, kind, tp)
<1>1. kind \in DOMAIN Exchanges
  BY Zenon DEF Sent
<1>2. (Exchanges[kind].flag <=> kind # "posVel") /\ ~Exchanges[kind].planeOnly
  BY <1>1, ExchangesAre
<1>3. /\ Slots(r) \in Nat
      /\ \A j \in 1..Slots(r) :
           \E p \in 1..3 : \E i \in K[p] : j = MsgSlot(K, p, i) /\ Way(r, j) = Dirs[p][i]
      /\ \A p \in 1..3 : \A i \in K[p] :
           MsgSlot(K, p, i) \in 1..Slots(r) /\ Way(r, MsgSlot(K, p, i)) = Dirs[p][i]
  BY SlotsAreEntries
<1>4. ASSUME NEW p \in 1..3, NEW i \in K[p] PROVE Due(r, kind, tp, Dirs[p][i]) /\ i \in 1..Entries(p)
  <2>1. /\ i \in 1..Entries(p) /\ Dirs[p][i] \in Steps /\ HasNeighbour(r, tp, Dirs[p][i])
        /\ Asked(kind, p, Earlier(Dirs[p][i]))
    BY TakesPart
  <2>2. Dirs[p][i] # Home
    <3>1. Shape(p, Dirs[p][i])
      BY <2>1, ShapeIs
    <3>2. Home[1] = 0 /\ Home[2] = 0 /\ Home[3] = 0
      BY DEF Home
    <3>3. p = 1 \/ p = 2 \/ p = 3
      OBVIOUS
    <3> QED
      BY <3>1, <3>2, <3>3 DEF Shape
  <2>3. kind = "posVel" => ~Earlier(Dirs[p][i])
    BY <1>2, <2>1 DEF Asked
  <2> QED
    BY <2>1, <2>2, <2>3 DEF Due
<1>5. ASSUME NEW dir, Due(r, kind, tp, dir)
      PROVE  \E p \in 1..3 : \E i \in K[p] : Dirs[p][i] = dir
  <2>1. dir \in Steps /\ dir # <<0, 0, 0>> /\ HasNeighbour(r, tp, dir) /\ (kind = "posVel" => ~Earlier(dir))
    BY <1>5 DEF Due, Home
  <2>2. PICK p \in 1..3 : \E i \in 1..Entries(p) : Dirs[p][i] = dir
    BY <2>1, StepListed
  <2>3. PICK i \in 1..Entries(p) : Dirs[p][i] = dir
    BY <2>2
  <2>4. Asked(kind, p, Earlier(dir))
    BY <1>2, <2>1 DEF Asked
  <2>5. i \in K[p]
    BY <2>1, <2>3, <2>4 DEF Awaits
  <2> QED
    BY <2>3, <2>5
<1> HIDE DEF K
<1>6. \A j \in 1..Slots(r) : Due(r, kind, tp, Way(r, j))
  BY <1>3, <1>4
<1>7. ASSUME NEW a \in 1..Slots(r), NEW b \in 1..Slots(r), Way(r, a) = Way(r, b) PROVE a = b
  <2>1. PICK p \in 1..3 : \E i \in K[p] : a = MsgSlot(K, p, i) /\ Way(r, a) = Dirs[p][i]
    BY <1>3, Zenon
  <2>2. PICK i \in K[p] : a = MsgSlot(K, p, i) /\ Way(r, a) = Dirs[p][i]
    BY <2>1
  <2>3. PICK q \in 1..3 : \E y \in K[q] : b = MsgSlot(K, q, y) /\ Way(r, b) = Dirs[q][y]
    BY <1>3, Zenon
  <2>4. PICK y \in K[q] : b = MsgSlot(K, q, y) /\ Way(r, b) = Dirs[q][y]
    BY <2>3
  <2>5. p = q /\ i = y
    BY <1>4, <1>7, <2>2, <2>4, DirsDiffer
  <2> QED
    BY <2>2, <2>4, <2>5
<1>8. ASSUME NEW dir, Due(r, kind, tp, dir) PROVE \E j \in 1..Slots(r) : Way(r, j) = dir
  <2>1. PICK p \in 1..3 : \E i \in K[p] : Dirs[p][i] = dir
    BY <1>5, <1>8
  <2>2. PICK i \in K[p] : Dirs[p][i] = dir
    BY <2>1
  <2> QED
    BY <1>3, <2>2
<1> QED
  BY <1>6, <1>7, <1>8

(* One message put to the nodes on its side.                               *)
Put(r, f, dir) ==
  [m \in DOMAIN f |->
     IF ~OnSide(dir, m, D) THEN f[m]
     ELSE IF Summing THEN f[m] \o << Given(r, tp, dir, m, D) >> ELSE << Given(r, tp, dir, m, D) >>]
NodeFields == [0..Cube(D) - 1 -> Seq((0..Cube(tp) - 1) \X (0..Cube(D) - 1))]

(* It leaves a field of copies.                                            *)
LEMMA PutStays ==
  ASSUME NEW r, Sent(r), kind # "monoQ", NEW f \in NodeFields, NEW j \in 1..Slots(r)
  PROVE  /\ Put(r, f, Way(r, j)) \in NodeFields
         /\ \A m \in 0..Cube(D) - 1 :
              Put(r, f, Way(r, j))[m] =
                IF ~OnSide(Way(r, j), m, D) THEN f[m]
                ELSE IF Summing THEN Append(f[m], Given(r, tp, Way(r, j), m, D))
                ELSE << Given(r, tp, Way(r, j), m, D) >>
<1> DEFINE N == 0..Cube(D) - 1
<1> DEFINE P == (0..Cube(tp) - 1) \X N
<1> DEFINE w == Way(r, j)
<1>1. /\ tp \in Nat \ {0} /\ D \in Nat \ {0} /\ r \in 0..Cube(tp) - 1
  BY DEF Sent
<1>2. w \in Steps /\ HasNeighbour(r, tp, w)
  BY WaysAre DEF Due
<1>3. f \in [N -> Seq(P)]
  BY DEF NodeFields
<1>4. ASSUME NEW m \in N, OnSide(w, m, D) PROVE Given(r, tp, w, m, D) \in P
  <2>1. Neighbour(r, tp, w) \in 0..Cube(tp) - 1
    BY <1>1, <1>2, NeighbourIs
  <2>2. Twin(w, m, D) \in N
    BY <1>1, <1>2, TwinIs
  <2> HIDE DEF N
  <2> QED
    BY <2>1, <2>2 DEF Given
<1> HIDE DEF N, P, w
<1> DEFINE One(m) == IF ~OnSide(w, m, D) THEN f[m]
                     ELSE IF Summing THEN f[m] \o << Given(r, tp, w, m, D) >>
                     ELSE << Given(r, tp, w, m, D) >>
<1> DEFINE Two(m) == IF ~OnSide(w, m, D) THEN f[m]
                     ELSE IF Summing THEN Append(f[m], Given(r, tp, w, m, D))
                     ELSE << Given(r, tp, w, m, D) >>
<1>5. ASSUME NEW m \in N PROVE One(m) = Two(m) /\ Two(m) \in Seq(P)
  <2>1. f[m] \in Seq(P)
    BY <1>3
  <2>2. CASE ~OnSide(w, m, D)
    BY <2>1, <2>2
  <2>3. CASE OnSide(w, m, D)
    <3> DEFINE g == Given(r, tp, w, m, D)
    <3>1. g \in P
      BY <1>4, <2>3
    <3> HIDE DEF g
    <3>2. Append(f[m], g) = f[m] \o <<g>>
      BY <2>1, <3>1, AppendIsConcat
    <3>3. Append(f[m], g) \in Seq(P) /\ <<g>> \in Seq(P)
      BY <2>1, <3>1, AppendProperties
    <3> QED
      BY <2>3, <3>2, <3>3, Zenon DEF g
  <2> QED
    BY <2>2, <2>3
<1>6. Put(r, f, w) = [m \in DOMAIN f |-> One(m)]
  BY DEF Put
<1>7. DOMAIN f = N
  BY <1>3
<1> HIDE DEF One, Two
<1>8. \A m \in N : Put(r, f, w)[m] = Two(m)
  BY <1>5, <1>6, <1>7
<1>9. Put(r, f, w) \in [N -> Seq(P)]
  BY <1>5, <1>6, <1>7
<1> QED
  BY <1>8, <1>9, Zenon DEF NodeFields, Two, N, P, w

(* UnpackNodes puts one message after the other.                           *)
LEMMA NodesFolded ==
  ASSUME NEW r, Sent(r), kind # "monoQ", UnpackNodes(r), field[r] \in NodeFields
  PROVE  \E part : /\ part[0] = field[r]
                   /\ field' = [field EXCEPT ![r] = part[Slots(r)]]
                   /\ \A k \in 0..Slots(r) : part[k] \in NodeFields
                   /\ \A k \in 1..Slots(r) : part[k] = Put(r, part[k - 1], Way(r, k))
<1> DEFINE n == Slots(r)
<1> DEFINE V == NodeFields
<1> DEFINE K == Awaits(r, kind, tp)
<1> DEFINE todo == Unpacked(r)
<1> DEFINE base == field[r]
<1> DEFINE Apply(f, i) ==
      [m \in DOMAIN f |->
         IF NodesAt(r, i, m) = {} THEN f[m]
         ELSE LET v == Arrived(r, posted[r][i])[CHOOSE k \in NodesAt(r, i, m) : TRUE]
              IN IF Summing THEN f[m] \o v ELSE v]
<1> DEFINE G == [k \in 1..n |-> [v \in V |-> Put(r, v, Way(r, k))]]
<1> DEFINE table == [i \in DOMAIN todo |-> i]
<1>1. n \in Nat /\ DOMAIN todo = 1..n
  BY SlotsAreEntries
<1> DEFINE Body(it) == [t \in SUBSET DOMAIN table |->
                          IF t = {} THEN base ELSE Apply(it[t \ {Max(t)}], table[Max(t)])]
<1> DEFINE ch == CHOOSE it : it = Body(it)
<1>2. field' = [field EXCEPT ![r] = ch[1..n]]
  <2>1. field' = [field EXCEPT ![r] = FoldLeft(Apply, field[r], table)]
    <3>1. DOMAIN todo = DOMAIN todo
      OBVIOUS
    <3> QED
      BY Zenon DEF UnpackNodes, NodesAt
  <2>2. FoldLeft(Apply, base, table) = ch[DOMAIN table]
    <3> HIDE DEF Apply, base, table
    <3> QED
      BY DEF FoldLeft, MapThenFoldSet
  <2>3. DOMAIN table = 1..n
    BY <1>1
  <2> HIDE DEF ch, Apply, table
  <2> QED
    BY <2>1, <2>2, <2>3
<1>3. ASSUME NEW v \in V, NEW i \in 1..n
      PROVE  /\ Put(r, v, Way(r, i)) \in V /\ G[i][v] = Put(r, v, Way(r, i))
             /\ Apply(v, table[i]) = Put(r, v, Way(r, i))
  <2>1. Put(r, v, Way(r, i)) \in V
    BY PutStays
  <2>2. G[i][v] = Put(r, v, Way(r, i))
    <3> HIDE DEF V
    <3> QED
      OBVIOUS
  <2>3. table[i] = i
    BY <1>1
  <2>4. Apply(v, i) = Put(r, v, Way(r, i))
    <3> DEFINE w == Way(r, i)
    <3> DEFINE data == Arrived(r, posted[r][i])
    <3> DEFINE One(m) == IF NodesAt(r, i, m) = {} THEN v[m]
                         ELSE LET u == data[CHOOSE k \in NodesAt(r, i, m) : TRUE]
                              IN IF Summing THEN v[m] \o u ELSE u
    <3> DEFINE Two(m) == IF ~OnSide(w, m, D) THEN v[m]
                         ELSE IF Summing THEN v[m] \o << Given(r, tp, w, m, D) >>
                         ELSE << Given(r, tp, w, m, D) >>
    <3>1. PICK p \in 1..3 : \E y \in K[p] : i = MsgSlot(K, p, y) /\ w = Dirs[p][y]
      BY SlotsAreEntries
    <3>2. PICK y \in K[p] : i = MsgSlot(K, p, y) /\ w = Dirs[p][y]
      BY <3>1
    <3>3. ASSUME NEW m \in 0..Cube(D) - 1 PROVE PutWell(r, i, w, m)
      <4>1. PutWell(r, MsgSlot(K, p, y), Dirs[p][y], m)
        BY PutIs
      <4> HIDE DEF w
      <4> QED
        BY <3>2, <4>1, Zenon
    <3>4. \A m \in 0..Cube(D) - 1 : One(m) = Two(m)
      <4> SUFFICES ASSUME NEW m \in 0..Cube(D) - 1 PROVE One(m) = Two(m)
        OBVIOUS
      <4>1. /\ NodesAt(r, i, m) # {} <=> OnSide(w, m, D)
            /\ NodesAt(r, i, m) # {} =>
                 data[CHOOSE k \in NodesAt(r, i, m) : TRUE] = << Given(r, tp, w, m, D) >>
        BY <3>3, Zenon DEF PutWell
      <4> HIDE DEF data, w
      <4>2. CASE NodesAt(r, i, m) = {}
        BY <4>1, <4>2
      <4>3. CASE NodesAt(r, i, m) # {}
        BY <4>1, <4>3, Zenon
      <4> QED
        BY <4>2, <4>3
    <3>5. DOMAIN v = 0..Cube(D) - 1
      BY DEF NodeFields
    <3>6. Apply(v, i) = [m \in DOMAIN v |-> One(m)]
      BY Zenon
    <3>7. Put(r, v, w) = [m \in DOMAIN v |-> Two(m)]
      BY Zenon DEF Put
    <3> HIDE DEF One, Two, w, Apply
    <3>8. [m \in DOMAIN v |-> One(m)] = [m \in DOMAIN v |-> Two(m)]
      BY <3>4, <3>5
    <3>9. Apply(v, i) = Put(r, v, w)
      BY <3>6, <3>7, <3>8, Zenon
    <3> QED
      BY <3>9 DEF w
  <2> HIDE DEF Apply, table, G
  <2> QED
    BY <2>1, <2>2, <2>3, <2>4
<1>4. G \in [1..n -> [V -> V]]
  <2> HIDE DEF V
  <2> QED
    BY <1>3
<1>5. base \in V
  OBVIOUS
<1>6. DOMAIN table = 1..n
  BY <1>1
<1> HIDE DEF n, V, G, Apply, table, base, todo
<1>7. ASSUME NEW t \in SUBSET (1..n), t # {}
      PROVE  Max(t) \in 1..n /\ t \ {Max(t)} \in SUBSET (1..n)
  <2>1. Max(t) \in t
    BY <1>1, <1>7, MaxMember, Zenon
  <2> QED
    BY <2>1
<1>8. \E it : it = Body(it)
  <2>1. PICK it : Folds(it, n, V, base, G)
    BY <1>1, <1>4, <1>5, FoldExists
  <2>2. ASSUME NEW t \in SUBSET (1..n), t # {}
        PROVE  G[Max(t)][it[t \ {Max(t)}]] = Apply(it[t \ {Max(t)}], table[Max(t)])
    <3>1. Max(t) \in 1..n /\ it[t \ {Max(t)}] \in V
      BY <1>7, <2>1, <2>2 DEF Folds
    <3> QED
      BY <1>3, <3>1
  <2>3. it = Body(it)
    BY <1>6, <2>1, <2>2, Zenon DEF Folds
  <2> QED
    BY <2>3
<1>9. ch = Body(ch)
  <2> HIDE DEF Body
  <2> QED
    BY <1>8
<1> HIDE DEF ch
<1>10. ch[{}] = base
  BY <1>9
<1>11. ASSUME NEW t \in SUBSET (1..n), t # {}, ch[t \ {Max(t)}] \in V
       PROVE  ch[t] = G[Max(t)][ch[t \ {Max(t)}]]
  <2>1. ch[t] = Apply(ch[t \ {Max(t)}], table[Max(t)])
    BY <1>6, <1>9, <1>11, Zenon
  <2> QED
    BY <1>3, <1>7, <1>11, <2>1
<1> HIDE DEF Body
<1>12. PICK part : Partials(part, n, V, base, G, ch[1..n])
  BY <1>1, <1>4, <1>5, <1>10, <1>11, FoldValue
<1>13. part[0] = base /\ part[n] = ch[1..n] /\ \A k \in 0..n : part[k] \in V
  BY <1>1, <1>12 DEF Partials
<1>14. ASSUME NEW k \in 1..n PROVE part[k] = Put(r, part[k - 1], Way(r, k))
  <2>1. k - 1 \in 0..n
    BY <1>1
  <2>2. part[k] = G[k][part[k - 1]] /\ part[k - 1] \in V
    BY <1>12, <1>13, <2>1 DEF Partials
  <2> QED
    BY <1>3, <2>2
<1>15. field' = [field EXCEPT ![r] = part[n]]
  BY <1>2, <1>13
<1> QED
  BY <1>13, <1>14, <1>15 DEF n, V, base

-----------------------------------------------------------------------------
(***************************************************************************)
(* CommSBN and CommSyncPosVel, from the first message to the last.         *)
(***************************************************************************)

SummedAs(f, r, t, n) ==
  \A m \in 0..Cube(n + 1) - 1 :
    /\ ToSet(f[m]) = CopiesOf(r, m, t, n) /\ Len(f[m]) = Cardinality(CopiesOf(r, m, t, n))
SyncedAs(f, r, t, n) ==
  \A m \in 0..Cube(n + 1) - 1 :
    \/ /\ f[m] = << <<r, m>> >>
       /\ \A dir \in Steps : Due(r, "posVel", t, dir) => ~OnSide(dir, m, n + 1)
    \/ \E dir \in Steps : /\ Due(r, "posVel", t, dir) /\ OnSide(dir, m, n + 1)
                          /\ f[m] = << Given(r, t, dir, m, n + 1) >>

(* The rank's own values are a field of copies.                            *)
LEMMA OwnIsField ==
  ASSUME NEW r, Sent(r), kind # "monoQ"
  PROVE  /\ OwnOf(r, kind, nx) \in NodeFields /\ D = nx + 1
         /\ \A m \in 0..Cube(D) - 1 : OwnOf(r, kind, nx)[m] = << <<r, m>> >>
<1>1. D = nx + 1 /\ r \in 0..Cube(tp) - 1
  BY DEF Sent, Size
<1> DEFINE N == 0..Cube(D) - 1
<1> DEFINE P == (0..Cube(tp) - 1) \X N
<1>2. OwnOf(r, kind, nx) = [m \in N |-> << <<r, m>> >>]
  BY <1>1 DEF OwnOf
<1>3. ASSUME NEW m \in N PROVE << <<r, m>> >> \in Seq(P)
  <2> DEFINE c == <<r, m>>
  <2>1. c \in P
    <3> HIDE DEF N
    <3> QED
      BY <1>1
  <2> HIDE DEF c, P
  <2> QED
    BY <2>1 DEF c
<1> HIDE DEF N, P
<1>4. OwnOf(r, kind, nx) \in [N -> Seq(P)]
  BY <1>2, <1>3
<1>5. \A m \in N : OwnOf(r, kind, nx)[m] = << <<r, m>> >>
  BY <1>2
<1> QED
  BY <1>1, <1>4, <1>5, Zenon DEF NodeFields, N, P

(* After k messages a node has its own copy and those of the messages with *)
(* it, each once.                                                          *)
SummedTo(f, r, m, k) ==
  /\ IsFiniteSet(ToSet(f[m])) /\ Len(f[m]) = Cardinality(ToSet(f[m]))
  /\ \A c : c \in ToSet(f[m]) <=>
       \/ c = <<r, m>>
       \/ \E j \in 1..k : OnSide(Way(r, j), m, D) /\ c = Given(r, tp, Way(r, j), m, D)

(* Before the first message it has its own.                                *)
LEMMA SumStarts ==
  ASSUME NEW r, NEW m, NEW f, f[m] = << <<r, m>> >>
  PROVE  SummedTo(f, r, m, 0)
<1> DEFINE c == <<r, m>>
<1>1. f[m] = <<c>>
  OBVIOUS
<1> HIDE DEF c
<1>2. ToSet(f[m]) = {c} /\ Len(f[m]) = 1
  BY <1>1 DEF ToSet
<1>3. IsFiniteSet({c}) /\ Cardinality({c}) = 1
  BY FS_Singleton
<1>4. ~\E j \in 1..0 : TRUE
  OBVIOUS
<1> QED
  BY <1>2, <1>3, <1>4 DEF SummedTo, c

(* One more message adds the one copy it brings to the nodes on its side,  *)
(* a copy none of the messages before it has brought.                      *)
LEMMA SumGoesOn ==
  ASSUME NEW r, Sent(r), kind # "monoQ", Summing, NEW k \in 1..Slots(r), NEW f \in NodeFields,
         NEW m \in 0..Cube(D) - 1, SummedTo(f, r, m, k - 1)
  PROVE  SummedTo(Put(r, f, Way(r, k)), r, m, k)
<1> DEFINE w == Way(r, k)
<1> DEFINE g == Given(r, tp, w, m, D)
<1> DEFINE h == Put(r, f, w)
<1> DEFINE P == (0..Cube(tp) - 1) \X (0..Cube(D) - 1)
<1>0. /\ tp \in Nat \ {0} /\ D \in Nat \ {0} /\ r \in 0..Cube(tp) - 1 /\ Slots(r) \in Nat
  BY SlotsAreEntries DEF Sent
<1>1. h \in NodeFields /\ h[m] = IF OnSide(w, m, D) THEN Append(f[m], g) ELSE f[m]
  BY PutStays
<1>2. f[m] \in Seq(P) /\ h[m] \in Seq(P)
  BY <1>1 DEF NodeFields
<1>3. \A j \in 1..k : j \in 1..Slots(r) /\ (j \in 1..k - 1 \/ j = k) /\ (j \in 1..k - 1 => j # k)
  BY <1>0
<1>4. \A j \in 1..k - 1 : j \in 1..k
  BY <1>0
<1>5. CASE ~OnSide(w, m, D)
  BY <1>1, <1>3, <1>4, <1>5 DEF SummedTo
<1>6. CASE OnSide(w, m, D)
  <2>1. Due(r, kind, tp, w)
    BY WaysAre
  <2>2. w \in Steps /\ w # Home /\ Meets(r, tp, w, m, D)
    BY <1>6, <2>1 DEF Due, Meets
  <2>3. \A e \in Steps : Meets(r, tp, e, m, D) /\ Given(r, tp, e, m, D) = g => e = w
    BY <1>0, <2>2, GivenIs
  <2>4. g # <<r, m>>
    <3>1. Home \in Steps /\ Meets(r, tp, Home, m, D) /\ Given(r, tp, Home, m, D) = <<r, m>>
      BY <1>0, HomeIs
    <3> QED
      BY <2>2, <2>3, <3>1
  <2>5. ASSUME NEW j \in 1..k - 1, OnSide(Way(r, j), m, D) PROVE g # Given(r, tp, Way(r, j), m, D)
    <3>1. j \in 1..Slots(r) /\ j # k
      BY <1>3, <1>4
    <3>2. Due(r, kind, tp, Way(r, j)) /\ Way(r, j) # w
      BY <3>1, WaysAre
    <3>3. Way(r, j) \in Steps /\ Meets(r, tp, Way(r, j), m, D)
      BY <2>5, <3>2 DEF Due, Meets
    <3> QED
      BY <2>3, <3>2, <3>3
  <2>6. g \notin ToSet(f[m])
    BY <2>4, <2>5 DEF SummedTo
  <2>7. g \in P /\ h[m] = Append(f[m], g)
    <3>1. Neighbour(r, tp, w) \in 0..Cube(tp) - 1 /\ Twin(w, m, D) \in 0..Cube(D) - 1
      BY <1>0, <2>2, GivenIs
    <3> QED
      BY <1>1, <1>6, <3>1 DEF Given
  <2> HIDE DEF g, h, P, w
  <2>8. ToSet(h[m]) = ToSet(f[m]) \cup {g} /\ Len(h[m]) = Len(f[m]) + 1
    BY <1>2, <2>7, AppendSet, AppendProperties
  <2>9. IsFiniteSet(ToSet(h[m])) /\ Cardinality(ToSet(h[m])) = Cardinality(ToSet(f[m])) + 1
    BY <2>6, <2>8, FS_AddElement DEF SummedTo
  <2>10. ASSUME NEW c
         PROVE  c \in ToSet(h[m]) <=>
                  \/ c = <<r, m>>
                  \/ \E j \in 1..k : OnSide(Way(r, j), m, D) /\ c = Given(r, tp, Way(r, j), m, D)
    <3>1. c \in ToSet(h[m]) <=> c \in ToSet(f[m]) \/ c = g
      BY <2>8
    <3>2. k \in 1..k
      BY <1>0
    <3> QED
      BY <1>3, <1>4, <1>6, <3>1, <3>2 DEF SummedTo, g, w
  <2> QED
    BY <2>8, <2>9, <2>10 DEF SummedTo, h, w
<1> QED
  BY <1>5, <1>6

(* CommSBN leaves at every node the sum of its copies.                     *)
LEMMA SumDone ==
  ASSUME NEW r, Sent(r), Summing, UnpackNodes(r), field[r] = OwnOf(r, kind, nx)
  PROVE  \E f : field' = [field EXCEPT ![r] = f] /\ SummedAs(f, r, tp, nx)
<1> DEFINE n == Slots(r)
<1> DEFINE N == 0..Cube(D) - 1
<1>1. kind # "monoQ" /\ kind # "posVel"
  BY DEF Summing
<1>2. OwnOf(r, kind, nx) \in NodeFields /\ D = nx + 1
      /\ \A m \in N : field[r][m] = << <<r, m>> >>
  BY <1>1, OwnIsField
<1>3. PICK part : /\ part[0] = field[r]
                  /\ field' = [field EXCEPT ![r] = part[n]]
                  /\ \A k \in 0..n : part[k] \in NodeFields
                  /\ \A k \in 1..n : part[k] = Put(r, part[k - 1], Way(r, k))
  BY <1>1, <1>2, NodesFolded
<1>4. n \in Nat
  BY SlotsAreEntries
<1> DEFINE W == [k \in 0..n |-> {f \in NodeFields : \A m \in N : SummedTo(f, r, m, k)}]
<1>5. part[0] \in W[0]
  <2>1. 0 \in 0..n
    BY <1>4
  <2>2. \A m \in N : SummedTo(part[0], r, m, 0)
    BY <1>2, <1>3, SumStarts
  <2> QED
    BY <1>3, <2>1, <2>2
<1>6. ASSUME NEW k \in 1..n, part[k - 1] \in W[k - 1] PROVE part[k] \in W[k]
  <2>1. k - 1 \in 0..n /\ k \in 0..n
    BY <1>4
  <2>2. part[k - 1] \in NodeFields /\ \A m \in N : SummedTo(part[k - 1], r, m, k - 1)
    BY <1>6, <2>1
  <2>3. part[k] = Put(r, part[k - 1], Way(r, k)) /\ part[k] \in NodeFields
    BY <1>3, <2>1
  <2>4. \A m \in N : SummedTo(Put(r, part[k - 1], Way(r, k)), r, m, k)
    BY <1>1, <2>2, SumGoesOn
  <2> QED
    BY <2>1, <2>3, <2>4
<1>7. part[n] \in W[n]
  <2>1. n \in 0..n
    BY <1>4
  <2>2. \A k \in 0..n : part[k] \in W[k]
    <3> HIDE DEF W, n
    <3> QED
      BY <1>4, <1>5, <1>6, StagesHold
  <2> QED
    BY <2>1, <2>2
<1>8. \A m \in N : SummedTo(part[n], r, m, n)
  <2>1. n \in 0..n
    BY <1>4
  <2> QED
    BY <1>7, <2>1
<1> HIDE DEF W
<1>9. ASSUME NEW m \in N
      PROVE  /\ ToSet(part[n][m]) = CopiesOf(r, m, tp, nx)
             /\ Len(part[n][m]) = Cardinality(CopiesOf(r, m, tp, nx))
  <2>0. tp \in Nat \ {0} /\ nx \in Nat \ {0} /\ D \in Nat \ {0} /\ r \in 0..Cube(tp) - 1
    BY DEF Sent
  <2> DEFINE C == CopiesOf(r, m, tp, nx)
  <2>1. \A c : c \in C <=> \E dir \in Steps : Meets(r, tp, dir, m, D) /\ c = Given(r, tp, dir, m, D)
    <3>1. m \in 0..Cube(nx + 1) - 1
      BY <1>2
    <3>2. \A c : c \in C <=>
            \E dir \in Steps : Meets(r, tp, dir, m, nx + 1) /\ c = Given(r, tp, dir, m, nx + 1)
      BY <2>0, <3>1, CopiesAre, Zenon
    <3> QED
      BY <1>2, <3>2, Zenon
  <2>2. Home \in Steps /\ Meets(r, tp, Home, m, D) /\ Given(r, tp, Home, m, D) = <<r, m>>
    BY <2>0, HomeIs
  <2>3. \A c : c \in ToSet(part[n][m]) <=>
          \/ c = <<r, m>>
          \/ \E j \in 1..n : OnSide(Way(r, j), m, D) /\ c = Given(r, tp, Way(r, j), m, D)
    BY <1>8 DEF SummedTo
  <2>4. ASSUME NEW c \in ToSet(part[n][m]) PROVE c \in C
    <3>1. CASE c = <<r, m>>
      BY <2>1, <2>2, <3>1
    <3>2. ASSUME NEW j \in 1..n, OnSide(Way(r, j), m, D), c = Given(r, tp, Way(r, j), m, D)
          PROVE  c \in C
      <4>1. Due(r, kind, tp, Way(r, j))
        BY <1>1, WaysAre
      <4> QED
        BY <2>1, <3>2, <4>1 DEF Due, Meets
    <3> QED
      BY <2>3, <2>4, <3>1, <3>2
  <2>5. ASSUME NEW c \in C PROVE c \in ToSet(part[n][m])
    <3>1. PICK dir \in Steps : Meets(r, tp, dir, m, D) /\ c = Given(r, tp, dir, m, D)
      BY <2>1, <2>5
    <3>2. CASE dir = Home
      BY <2>2, <2>3, <3>1, <3>2
    <3>3. CASE dir # Home
      <4>1. Due(r, kind, tp, dir) /\ OnSide(dir, m, D)
        BY <1>1, <3>1, <3>3 DEF Due, Meets
      <4>2. PICK j \in 1..n : Way(r, j) = dir
        BY <1>1, <4>1, WaysAre
      <4> QED
        BY <2>3, <3>1, <4>1, <4>2
    <3> QED
      BY <3>2, <3>3
  <2>6. ToSet(part[n][m]) = C
    <3> HIDE DEF C
    <3> QED
      BY <2>4, <2>5
  <2> QED
    BY <1>8, <2>6 DEF SummedTo
<1>10. SummedAs(part[n], r, tp, nx)
  BY <1>2, <1>9, Zenon DEF SummedAs
<1> QED
  BY <1>3, <1>10

SyncedTo(f, r, m, k) ==
  \/ /\ f[m] = << <<r, m>> >>
     /\ \A j \in 1..k : ~OnSide(Way(r, j), m, D)
  \/ \E j \in 1..k : OnSide(Way(r, j), m, D) /\ f[m] = << Given(r, tp, Way(r, j), m, D) >>

(* CommSyncPosVel leaves at a node its own copy, or one of a message.      *)
LEMMA SyncDone ==
  ASSUME NEW r, Sent(r), kind = "posVel", UnpackNodes(r), field[r] = OwnOf(r, kind, nx)
  PROVE  \E f : field' = [field EXCEPT ![r] = f] /\ SyncedAs(f, r, tp, nx)
<1> DEFINE n == Slots(r)
<1> DEFINE N == 0..Cube(D) - 1
<1>1. kind # "monoQ" /\ ~Summing
  BY DEF Summing
<1>2. OwnOf(r, kind, nx) \in NodeFields /\ D = nx + 1
      /\ \A m \in N : field[r][m] = << <<r, m>> >>
  BY <1>1, OwnIsField
<1>3. PICK part : /\ part[0] = field[r]
                  /\ field' = [field EXCEPT ![r] = part[n]]
                  /\ \A k \in 0..n : part[k] \in NodeFields
                  /\ \A k \in 1..n : part[k] = Put(r, part[k - 1], Way(r, k))
  BY <1>1, <1>2, NodesFolded
<1>4. n \in Nat
  BY SlotsAreEntries
<1> DEFINE W == [k \in 0..n |-> {f \in NodeFields : \A m \in N : SyncedTo(f, r, m, k)}]
<1>5. part[0] \in W[0]
  <2>1. 0 \in 0..n /\ ~\E j \in 1..0 : TRUE
    BY <1>4
  <2>2. \A m \in N : SyncedTo(part[0], r, m, 0)
    BY <1>2, <1>3, <2>1 DEF SyncedTo
  <2> QED
    BY <1>3, <2>1, <2>2
<1>6. ASSUME NEW k \in 1..n, part[k - 1] \in W[k - 1] PROVE part[k] \in W[k]
  <2>1. k - 1 \in 0..n /\ k \in 0..n /\ k \in 1..k
    BY <1>4
  <2>2. part[k - 1] \in NodeFields /\ \A m \in N : SyncedTo(part[k - 1], r, m, k - 1)
    BY <1>6, <2>1
  <2>3. part[k] = Put(r, part[k - 1], Way(r, k)) /\ part[k] \in NodeFields
    BY <1>3, <2>1
  <2>4. ASSUME NEW m \in N PROVE SyncedTo(part[k], r, m, k)
    <3> DEFINE old == part[k - 1]
    <3> DEFINE new == part[k]
    <3>1. new[m] = IF ~OnSide(Way(r, k), m, D) THEN old[m] ELSE << Given(r, tp, Way(r, k), m, D) >>
      BY <1>1, <2>2, <2>3, PutStays
    <3>2. SyncedTo(old, r, m, k - 1)
      BY <2>2
    <3>3. \A j \in 1..k : j \in 1..k - 1 \/ j = k
      BY <1>4
    <3>4. \A j \in 1..k - 1 : j \in 1..k
      BY <1>4
    <3> HIDE DEF old, new
    <3>5. SyncedTo(new, r, m, k)
      BY <2>1, <3>1, <3>2, <3>3, <3>4 DEF SyncedTo
    <3> QED
      BY <3>5 DEF new
  <2> QED
    BY <2>1, <2>3, <2>4
<1>7. part[n] \in W[n]
  <2>1. n \in 0..n
    BY <1>4
  <2>2. \A k \in 0..n : part[k] \in W[k]
    <3> HIDE DEF W, n
    <3> QED
      BY <1>4, <1>5, <1>6, StagesHold
  <2> QED
    BY <2>1, <2>2
<1>8. \A m \in N : SyncedTo(part[n], r, m, n)
  <2>1. n \in 0..n
    BY <1>4
  <2> QED
    BY <1>7, <2>1
<1> HIDE DEF W
<1> DEFINE f == part[n]
<1>9. ASSUME NEW m \in N
      PROVE  \/ /\ f[m] = << <<r, m>> >>
                /\ \A dir \in Steps : Due(r, "posVel", tp, dir) => ~OnSide(dir, m, D)
             \/ \E dir \in Steps : /\ Due(r, "posVel", tp, dir) /\ OnSide(dir, m, D)
                                   /\ f[m] = << Given(r, tp, dir, m, D) >>
  <2>1. /\ \A j \in 1..n : Due(r, "posVel", tp, Way(r, j)) /\ Way(r, j) \in Steps
        /\ \A dir : Due(r, "posVel", tp, dir) => \E j \in 1..n : Way(r, j) = dir
    BY <1>1, WaysAre DEF Due
  <2>2. SyncedTo(f, r, m, n)
    BY <1>8
  <2> HIDE DEF f, n
  <2> QED
    BY <2>1, <2>2 DEF SyncedTo
<1>10. SyncedAs(f, r, tp, nx)
  <2> HIDE DEF f
  <2> QED
    BY <1>2, <1>9, Zenon DEF SyncedAs
<1> QED
  BY <1>3, <1>10

(* CommSBN: so every copy of a node has summed all of them.                *)
LEMMA AllSummed ==
  ASSUME Ranks = 0..Cube(tp) - 1, NEW r, SummedAs(field[r], r, tp, nx), NEW m \in 0..Cube(nx + 1) - 1
  PROVE  /\ ToSet(field[r][m]) = Copies(r, m)
         /\ Len(field[r][m]) = Cardinality(Copies(r, m))
<1>1. Copies(r, m) = CopiesOf(r, m, tp, nx)
  BY Zenon DEF Copies, CopiesOf
<1> QED
  BY <1>1, Zenon DEF SummedAs

(* Of a step and its opposite one leads to an earlier rank.                *)
LEMMA OneEarlier ==
  ASSUME NEW dir \in Steps, dir # Home
  PROVE  Opposite(dir) # Home /\ (Earlier(Opposite(dir)) <=> ~Earlier(dir))
<1>1. PICK p \in 1..3 : \E i \in 1..Entries(p) : Dirs[p][i] = dir
  BY StepListed DEF Home
<1>2. PICK i \in 1..Entries(p) : Dirs[p][i] = dir
  BY <1>1
<1>3. Earlier(Opposite(dir)) <=> ~Earlier(dir)
  BY <1>2, OppositeListed
<1>4. Opposite(dir) # Home
  <2> SUFFICES ASSUME Opposite(dir) = Home PROVE FALSE
    OBVIOUS
  <2>1. dir[1] \in -1..1 /\ dir[2] \in -1..1 /\ dir[3] \in -1..1 /\ dir = <<dir[1], dir[2], dir[3]>>
    BY StepParts
  <2>2. -dir[1] = 0 /\ -dir[2] = 0 /\ -dir[3] = 0
    BY DEF Opposite, Home
  <2>3. dir[1] = 0 /\ dir[2] = 0 /\ dir[3] = 0
    BY <2>1, <2>2
  <2> QED
    BY <2>1, <2>3 DEF Home
<1> QED
  BY <1>3, <1>4

(* Where just two ranks meet one step leads to the other copy.             *)
LEMMA TwoCopies ==
  ASSUME NEW t \in Nat \ {0}, NEW n \in Nat \ {0}, NEW r \in 0..Cube(t) - 1,
         NEW m \in 0..Cube(n + 1) - 1, Cardinality(CopiesOf(r, m, t, n)) = 2,
         NEW dir \in Steps, dir # Home, Meets(r, t, dir, m, n + 1)
  PROVE  /\ CopiesOf(r, m, t, n) = {<<r, m>>, Given(r, t, dir, m, n + 1)}
         /\ \A e \in Steps : Meets(r, t, e, m, n + 1) => e = dir \/ e = Home
<1> DEFINE C == CopiesOf(r, m, t, n)
<1> DEFINE own == <<r, m>>
<1> DEFINE to(e) == Given(r, t, e, m, n + 1)
<1>0. n + 1 \in Nat \ {0}
  OBVIOUS
<1>1. /\ IsFiniteSet(C) /\ own \in C
      /\ \A c : c \in C <=> \E e \in Steps : Meets(r, t, e, m, n + 1) /\ c = to(e)
  BY CopiesAre
<1>2. Home \in Steps /\ Meets(r, t, Home, m, n + 1) /\ to(Home) = own
  BY <1>0, HomeIs
<1>3. \A d, e \in Steps : Meets(r, t, d, m, n + 1) /\ Meets(r, t, e, m, n + 1) /\ to(e) = to(d) => e = d
  <2> SUFFICES ASSUME NEW d \in Steps, Meets(r, t, d, m, n + 1)
               PROVE  \A e \in Steps : Meets(r, t, e, m, n + 1) /\ to(e) = to(d) => e = d
    BY Zenon
  <2> QED
    BY <1>0, GivenIs
<1> HIDE DEF C, own, to
<1>4. Cardinality(C) = 2
  BY DEF C
<1>5. IsFiniteSet(C \ {own}) /\ Cardinality(C \ {own}) = 1
  BY <1>1, <1>4, FS_RemoveElement
<1>6. PICK c : C \ {own} = {c}
  BY <1>5, FS_Singleton
<1>7. to(dir) \in C /\ to(dir) # own
  BY <1>1, <1>2, <1>3
<1>8. C = {own, to(dir)}
  BY <1>1, <1>6, <1>7
<1>9. ASSUME NEW e \in Steps, Meets(r, t, e, m, n + 1) PROVE e = dir \/ e = Home
  <2>1. to(e) \in C
    BY <1>1, <1>9
  <2>2. to(e) = own \/ to(e) = to(dir)
    BY <1>8, <2>1
  <2> QED
    BY <1>2, <1>3, <1>9, <2>2
<1> QED
  BY <1>8, <1>9 DEF C, own, to

(* CommSyncPosVel leaves the later of the two there.                       *)
LEMMA LaterStays ==
  ASSUME NEW t \in Nat \ {0}, NEW n \in Nat \ {0}, NEW r \in 0..Cube(t) - 1,
         NEW m \in 0..Cube(n + 1) - 1, Cardinality(CopiesOf(r, m, t, n)) = 2,
         NEW dir \in Steps, dir # Home, Meets(r, t, dir, m, n + 1),
         NEW f, SyncedAs(f, r, t, n)
  PROVE  f[m] = IF Earlier(dir) THEN << <<r, m>> >> ELSE << Given(r, t, dir, m, n + 1) >>
<1>1. \A e \in Steps : Meets(r, t, e, m, n + 1) => e = dir \/ e = Home
  BY TwoCopies
<1>2. CASE /\ f[m] = << <<r, m>> >>
           /\ \A e \in Steps : Due(r, "posVel", t, e) => ~OnSide(e, m, n + 1)
  <2>1. OnSide(dir, m, n + 1) /\ HasNeighbour(r, t, dir)
    BY DEF Meets
  <2>2. Earlier(dir)
    BY <1>2, <2>1 DEF Due
  <2> QED
    BY <1>2, <2>2
<1>3. ASSUME NEW e \in Steps, Due(r, "posVel", t, e), OnSide(e, m, n + 1),
             f[m] = << Given(r, t, e, m, n + 1) >>
      PROVE  f[m] = IF Earlier(dir) THEN << <<r, m>> >> ELSE << Given(r, t, dir, m, n + 1) >>
  <2>1. e # Home /\ Meets(r, t, e, m, n + 1) /\ ~Earlier(e)
    BY <1>3 DEF Due, Meets
  <2>2. e = dir
    BY <1>1, <2>1
  <2> QED
    BY <1>3, <2>1, <2>2
<1> QED
  BY <1>2, <1>3, Zenon DEF SyncedAs

AllSynced(f, t, n) == \A q \in 0..Cube(t) - 1 : SyncedAs(f[q], q, t, n)
SettledAs(f, r, m, C) ==
  ToSet(f[r][m]) \subseteq C /\ \A c \in C : f[c[1]][c[2]] = f[r][m]

(* So the two copies of a node agree.                                      *)
LEMMA TwoSynced ==
  ASSUME NEW t \in Nat \ {0}, NEW n \in Nat \ {0}, NEW f, AllSynced(f, t, n),
         NEW r \in 0..Cube(t) - 1, NEW m \in 0..Cube(n + 1) - 1,
         Cardinality(CopiesOf(r, m, t, n)) = 2
  PROVE  SettledAs(f, r, m, CopiesOf(r, m, t, n))
<1> DEFINE C == CopiesOf(r, m, t, n)
<1> DEFINE own == <<r, m>>
<1>0. n + 1 \in Nat \ {0}
  OBVIOUS
<1>1. /\ IsFiniteSet(C) /\ own \in C
      /\ \A c : c \in C <=> \E e \in Steps : Meets(r, t, e, m, n + 1) /\ c = Given(r, t, e, m, n + 1)
  BY CopiesAre
<1>2. Home \in Steps /\ Meets(r, t, Home, m, n + 1) /\ Given(r, t, Home, m, n + 1) = own
  BY <1>0, HomeIs
<1>3. PICK c \in C : c # own
  <2> HIDE DEF C, own
  <2>1. IsFiniteSet(C \ {own}) /\ Cardinality(C \ {own}) = 1
    <3>1. Cardinality(C) = 2
      BY DEF C
    <3> QED
      BY <1>1, <3>1, FS_RemoveElement
  <2>2. PICK c : C \ {own} = {c}
    BY <2>1, FS_Singleton
  <2> QED
    BY <2>2
<1>4. PICK dir \in Steps : Meets(r, t, dir, m, n + 1) /\ c = Given(r, t, dir, m, n + 1)
  BY <1>1, <1>3
<1>5. dir # Home
  BY <1>2, <1>3, <1>4
<1>6. C = {own, c}
  BY <1>4, <1>5, TwoCopies
<1> DEFINE q == Neighbour(r, t, dir)
<1> DEFINE k == Twin(dir, m, n + 1)
<1> DEFINE o == Opposite(dir)
<1>7. /\ q \in 0..Cube(t) - 1 /\ k \in 0..Cube(n + 1) - 1 /\ o \in Steps
      /\ Meets(q, t, o, k, n + 1) /\ Given(q, t, o, k, n + 1) = own
  BY <1>0, <1>4, GivenIs
<1>8. c = <<q, k>>
  BY <1>4 DEF Given
<1>9. o # Home /\ (Earlier(o) <=> ~Earlier(dir))
  BY <1>5, OneEarlier
<1>10. CopiesOf(q, k, t, n) = C
  <2>1. CopiesOf(c[1], c[2], t, n) = C
    BY <1>3, CopiesShared
  <2>2. c[1] = q /\ c[2] = k
    BY <1>8
  <2> QED
    BY <2>1, <2>2
<1>11. f[r][m] = IF Earlier(dir) THEN <<own>> ELSE <<c>>
  <2>1. SyncedAs(f[r], r, t, n)
    BY Zenon DEF AllSynced
  <2> QED
    BY <1>4, <1>5, <2>1, LaterStays
<1>12. f[q][k] = IF Earlier(o) THEN <<c>> ELSE <<own>>
  <2>1. Cardinality(CopiesOf(q, k, t, n)) = 2
    BY <1>10
  <2>2. SyncedAs(f[q], q, t, n)
    BY <1>7, Zenon DEF AllSynced
  <2>3. f[q][k] = IF Earlier(o) THEN << <<q, k>> >> ELSE << Given(q, t, o, k, n + 1) >>
    <3> HIDE DEF q, k, o
    <3> QED
      BY <1>7, <1>9, <2>1, <2>2, LaterStays
  <2> QED
    BY <1>7, <1>8, <2>3
<1> HIDE DEF C, q, k, o
<1>13. f[q][k] = f[r][m]
  BY <1>9, <1>11, <1>12
<1>14. f[own[1]][own[2]] = f[r][m] /\ f[c[1]][c[2]] = f[r][m]
  BY <1>8, <1>13
<1> HIDE DEF own
<1>15. ToSet(f[r][m]) = {own} \/ ToSet(f[r][m]) = {c}
  <2>1. \A x : ToSet(<<x>>) = {x}
    BY DEF ToSet
  <2> QED
    BY <1>11, <2>1
<1>16. ToSet(f[r][m]) \subseteq C
  BY <1>6, <1>15
<1>17. \A x \in C : f[x[1]][x[2]] = f[r][m]
  BY <1>6, <1>14
<1> QED
  BY <1>16, <1>17, Zenon DEF SettledAs, C

-----------------------------------------------------------------------------
(***************************************************************************)
(* CommMonoQ: the ghosts of the shared faces, face after face.             *)
(***************************************************************************)

(* The directions of the faces in the order of the ghosts.                 *)
LEMMA FaceDirsAre ==
  ASSUME NEW i \in 1..6
  PROVE  FaceDirs[i] = Towards[Faces[i]] /\ FaceDirs[i] \in Steps
<1>1. /\ Faces[1] = "zetaM" /\ Faces[2] = "zetaP" /\ Faces[3] = "etaM" /\ Faces[4] = "etaP"
      /\ Faces[5] = "xiM" /\ Faces[6] = "xiP"
  BY DEF Faces
<1>2. /\ FaceDirs[1] = <<0, 0, -1>> /\ FaceDirs[2] = <<0, 0, 1>> /\ FaceDirs[3] = <<0, -1, 0>>
      /\ FaceDirs[4] = <<0, 1, 0>> /\ FaceDirs[5] = <<-1, 0, 0>> /\ FaceDirs[6] = <<1, 0, 0>>
  BY DEF FaceDirs
<1>3. /\ Towards["zetaM"] = <<0, 0, -1>> /\ Towards["zetaP"] = <<0, 0, 1>>
      /\ Towards["etaM"] = <<0, -1, 0>> /\ Towards["etaP"] = <<0, 1, 0>>
      /\ Towards["xiM"] = <<-1, 0, 0>> /\ Towards["xiP"] = <<1, 0, 0>>
  BY DEF Towards
<1>4. i = 1 \/ i = 2 \/ i = 3 \/ i = 4 \/ i = 5 \/ i = 6
  OBVIOUS
<1>5. FaceDirs[i] = Towards[Faces[i]]
  BY <1>1, <1>2, <1>3, <1>4, Zenon
<1>6. FaceDirs[i] \in Steps
  BY DirsAreSteps DEF Dirs, Entries
<1> QED
  BY <1>5, <1>6

(* CommMonoQ awaits a message across every face that is shared, in the     *)
(* order of the ghosts.                                                    *)
LEMMA GhostWays ==
  ASSUME NEW r, Sent(r), kind = "monoQ"
  PROVE  /\ D = nx /\ Slots(r) \in 0..6
         /\ \A i \in SharedFaces(r, tp) :
              /\ i \in 1..6 /\ i \in Awaits(r, kind, tp)[1]
              /\ RankIn(SharedFaces(r, tp), i) + 1 = MsgSlot(Awaits(r, kind, tp), 1, i)
              /\ RankIn(SharedFaces(r, tp), i) + 1 \in 1..Slots(r)
              /\ Way(r, RankIn(SharedFaces(r, tp), i) + 1) = FaceDirs[i]
         /\ \A j \in 1..Slots(r) : \E i \in SharedFaces(r, tp) : j = RankIn(SharedFaces(r, tp), i) + 1
<1> DEFINE K == Awaits(r, kind, tp)
<1> DEFINE S == SharedFaces(r, tp)
<1>1. kind \in DOMAIN Exchanges /\ D = nx
  BY DEF Sent, Size
<1>2. Exchanges[kind].flag /\ Exchanges[kind].planeOnly
  BY <1>1, ExchangesAre
<1>3. K[1] = S
  <2>1. \A i \in 1..6 : HasNeighbour(r, tp, FaceDirs[i]) <=> Shared(Faces[i], r, tp)
    BY FaceDirsAre DEF Shared
  <2>2. K[1] = {i \in 1..6 : HasNeighbour(r, tp, FaceDirs[i])}
    BY <1>2 DEF Awaits, Asked, Dirs, Entries
  <2> QED
    BY <2>1, <2>2 DEF SharedFaces
<1>4. K[2] = {} /\ K[3] = {}
  BY <1>2 DEF Awaits, Asked
<1>5. S \in SUBSET (1..6) /\ Cardinality(S) \in 0..6
  BY SomeShared
<1>6. Slots(r) = Cardinality(S)
  <2>1. Cardinality({}) = 0
    BY FS_EmptySet
  <2> HIDE DEF K, S
  <2>2. All(K) = Cardinality(S)
    BY <1>3, <1>4, <1>5, <2>1 DEF All
  <2> QED
    BY <2>2 DEF Slots, K
<1>7. Parts(K)
  BY AwaitsAre
<1>8. \A i \in S : RankIn(S, i) \in Nat /\ MsgSlot(K, 1, i) = RankIn(S, i) + 1
  <2> HIDE DEF K, S
  <2>1. \A i \in S : RankIn(S, i) \in 0..Cardinality(S) - 1 /\ Before(K, 1) = 0
    BY <1>3, <1>7, PartsCount
  <2> QED
    BY <1>3, <1>5, <2>1 DEF MsgSlot
<1>9. /\ \A j \in 1..Slots(r) :
           \E p \in 1..3 : \E i \in K[p] : j = MsgSlot(K, p, i) /\ Way(r, j) = Dirs[p][i]
      /\ \A p \in 1..3 : \A i \in K[p] :
           MsgSlot(K, p, i) \in 1..Slots(r) /\ Way(r, MsgSlot(K, p, i)) = Dirs[p][i]
  BY SlotsAreEntries
<1> HIDE DEF K, S
<1>10. \A i \in S : /\ i \in 1..6 /\ i \in K[1] /\ RankIn(S, i) + 1 = MsgSlot(K, 1, i)
                    /\ RankIn(S, i) + 1 \in 1..Slots(r) /\ Way(r, RankIn(S, i) + 1) = FaceDirs[i]
  <2> SUFFICES ASSUME NEW i \in S
               PROVE  /\ i \in 1..6 /\ i \in K[1] /\ RankIn(S, i) + 1 = MsgSlot(K, 1, i)
                      /\ RankIn(S, i) + 1 \in 1..Slots(r) /\ Way(r, RankIn(S, i) + 1) = FaceDirs[i]
    OBVIOUS
  <2>1. 1 \in 1..3 /\ i \in K[1] /\ Dirs[1] = FaceDirs
    BY <1>3 DEF Dirs
  <2>2. MsgSlot(K, 1, i) \in 1..Slots(r) /\ Way(r, MsgSlot(K, 1, i)) = FaceDirs[i]
    BY <1>9, <2>1
  <2> QED
    BY <1>5, <1>8, <2>1, <2>2
<1>11. ASSUME NEW j \in 1..Slots(r) PROVE \E i \in S : j = RankIn(S, i) + 1
  <2>1. PICK p \in 1..3 : \E i \in K[p] : j = MsgSlot(K, p, i)
    BY <1>9, Zenon
  <2>2. PICK i \in K[p] : j = MsgSlot(K, p, i)
    BY <2>1
  <2>3. p = 1
    BY <1>4, <2>2
  <2> QED
    BY <1>3, <1>8, <2>2, <2>3
<1> QED
  BY <1>1, <1>5, <1>6, <1>10, <1>11 DEF K, S

(* It brings the elements of the face of the rank beyond, in their order.  *)
LEMMA GhostMessage ==
  ASSUME NEW r, Sent(r), kind = "monoQ", NEW j \in 1..Slots(r)
  PROVE  /\ Way(r, j) \in Steps /\ Unpacked(r)[j].msg.count = nx*nx
         /\ \A x \in 1..nx*nx :
              /\ Neighbour(r, tp, Way(r, j)) \in 0..Cube(tp) - 1
              /\ NodeAt(Opposite(Way(r, j)), x, nx) \in 0..Cube(nx) - 1
              /\ Arrived(r, posted[r][j])[x]
                   = <<Neighbour(r, tp, Way(r, j)), NodeAt(Opposite(Way(r, j)), x, nx)>>
<1> DEFINE K == Awaits(r, kind, tp)
<1>1. /\ kind \in DOMAIN Exchanges /\ tp \in Nat \ {0, 1} /\ nx \in Nat \ {0}
      /\ r \in 0..Cube(tp) - 1 /\ D = nx
  BY GhostWays, Zenon DEF Sent
<1>2. PICK i \in SharedFaces(r, tp) : j = RankIn(SharedFaces(r, tp), i) + 1
  BY GhostWays
<1>3. i \in 1..6 /\ i \in K[1] /\ j = MsgSlot(K, 1, i) /\ Way(r, j) = FaceDirs[i]
  BY <1>2, GhostWays
<1> DEFINE w == Way(r, j)
<1> DEFINE q == Neighbour(r, tp, w)
<1>4. w \in Steps /\ HasNeighbour(r, tp, w) /\ Dirs[1][i] = w /\ Extent(1, D) = nx*nx
  <2>1. 1 \in 1..3
    OBVIOUS
  <2>2. Dirs[1][i] \in Steps /\ HasNeighbour(r, tp, Dirs[1][i])
    BY <1>3, <2>1, TakesPart
  <2> QED
    BY <1>1, <1>3, <2>2 DEF Dirs, Extent
<1>5. q \in 0..Cube(tp) - 1
  BY <1>1, <1>4, NeighbourIs
<1>6. Opposite(w) \in Steps
  BY <1>4, StepParts
<1>7. Unpacked(r)[j].msg.count = nx*nx
  <2>1. Laid(Unpacked(r), K, UnpackTable(kind, D), Exchanges[kind].fields, nx)
    BY <1>1, UnpackLaid, Zenon
  <2> DEFINE T == UnpackTable(kind, D)
  <2> DEFINE u == Unpacked(r)[j]
  <2>2. 1 \in 1..3
    OBVIOUS
  <2>3. u = [at |-> Place(K, Exchanges[kind].fields, nx, 1, i), msg |-> T[1][i]]
    BY <1>3, <2>1, <2>2, Zenon DEF Laid
  <2>4. T[1] = MonoqFaces(D, D, D)
    BY DEF UnpackTable, MonoqTable
  <2>5. Counting(MonoqFaces(D, D, D)[i], D*D)
    BY <1>1, <1>3, FacesList
  <2> HIDE DEF u, T
  <2>6. u.msg = MonoqFaces(D, D, D)[i]
    BY <2>3, <2>4
  <2> QED
    BY <1>1, <2>5, <2>6 DEF Counting, u
<1>8. ASSUME NEW x \in 1..nx*nx
      PROVE  /\ NodeAt(Opposite(w), x, nx) \in 0..Cube(nx) - 1
             /\ Arrived(r, posted[r][j])[x] = <<q, NodeAt(Opposite(w), x, nx)>>
  <2> DEFINE e == NodeAt(Opposite(w), x, nx)
  <2>1. e \in 0..Cube(nx) - 1
    BY <1>1, <1>6, NodeFacts
  <2>2. x \in 1..Extent(1, D) /\ 1 \in 1..3
    BY <1>4
  <2>3. Arrived(r, posted[r][MsgSlot(K, 1, i)])[x]
          = OwnOf(Neighbour(r, tp, Dirs[1][i]), kind, nx)[NodeAt(Opposite(Dirs[1][i]), x, D)]
    <3> DEFINE one == 1
    <3>1. one \in 1..3 /\ i \in Awaits(r, kind, tp)[one] /\ x \in 1..Extent(one, D)
      BY <1>3, <2>2
    <3> HIDE DEF one
    <3>2. Arrived(r, posted[r][MsgSlot(K, one, i)])[x]
          = OwnOf(Neighbour(r, tp, Dirs[one][i]), kind, nx)[NodeAt(Opposite(Dirs[one][i]), x, D)]
      BY <3>1, ArrivedIs
    <3> QED
      BY <3>2 DEF one
  <2>4. Arrived(r, posted[r][j])[x] = OwnOf(q, kind, nx)[e]
    <3> HIDE DEF K, w
    <3>1. Arrived(r, posted[r][j])[x] = OwnOf(Neighbour(r, tp, w), kind, nx)[NodeAt(Opposite(w), x, D)]
      BY <1>3, <1>4, <2>3
    <3> QED
      BY <1>1, <3>1
  <2> DEFINE all == Cube(nx) + 6*nx*nx - 1
  <2>5. e \in 0..all /\ e < Cube(nx)
    <3> DEFINE c == Cube(nx)
    <3> DEFINE s == 6*nx*nx
    <3>1. c \in Nat /\ s \in Nat
      BY <1>1, SMT DEF Cube
    <3>2. e \in 0..c - 1 /\ all = c + s - 1
      BY <2>1
    <3> HIDE DEF c, s, e, all
    <3>3. e \in 0..all /\ e < c
      BY <3>1, <3>2
    <3> QED
      BY <3>3 DEF c
  <2>6. OwnOf(q, kind, nx) = [y \in 0..all |-> IF y < Cube(nx) THEN <<q, y>> ELSE Unset]
    BY DEF OwnOf
  <2> HIDE DEF e, all, q
  <2>7. OwnOf(q, kind, nx)[e] = <<q, e>>
    BY <2>5, <2>6
  <2> QED
    BY <2>1, <2>4, <2>7 DEF e
<1> QED
  BY <1>4, <1>5, <1>7, <1>8, Zenon

(* One message put to the ghosts of its face.                              *)
PutGhosts(r, s, dir) ==
  [f |-> [e \in DOMAIN s.f |->
            IF e \in s.at..s.at + nx*nx - 1
            THEN <<Neighbour(r, tp, dir), NodeAt(Opposite(dir), e - s.at + 1, nx)>> ELSE s.f[e]],
   at |-> s.at + nx*nx]
GhostFields == [0..Cube(nx) + 6*nx*nx - 1 -> ((0..Cube(tp) - 1) \X (0..Cube(nx) - 1)) \cup {Unset}]
GhostStages == [f : GhostFields, at : Nat]

ReadGhosts(s, data, len) ==
  [f |-> [e \in DOMAIN s.f |-> IF e \in s.at..s.at + len - 1 THEN data[e - s.at + 1] ELSE s.f[e]],
   at |-> s.at + len]

(* It is what CommMonoQ does with the message.                             *)
LEMMA PutGhostsIs ==
  ASSUME NEW r, Sent(r), kind = "monoQ", NEW j \in 1..Slots(r), NEW s \in GhostStages,
         NEW data, data = Arrived(r, posted[r][j]), NEW len, len = nx*nx
  PROVE  /\ PutGhosts(r, s, Way(r, j)) \in GhostStages
         /\ ReadGhosts(s, data, len) = PutGhosts(r, s, Way(r, j))
<1> DEFINE P == ((0..Cube(tp) - 1) \X (0..Cube(nx) - 1)) \cup {Unset}
<1> DEFINE E == 0..Cube(nx) + 6*nx*nx - 1
<1> DEFINE w == Way(r, j)
<1> DEFINE Ghost(x) == <<Neighbour(r, tp, w), NodeAt(Opposite(w), x, nx)>>
<1>1. len \in Nat
  <2>1. nx \in Nat
    BY DEF Sent
  <2> QED
    BY <2>1, SMT
<1>2. \A x \in 1..len : data[x] = Ghost(x) /\ Ghost(x) \in P
  <2> SUFFICES ASSUME NEW x \in 1..len PROVE data[x] = Ghost(x) /\ Ghost(x) \in P
    OBVIOUS
  <2>1. /\ Neighbour(r, tp, w) \in 0..Cube(tp) - 1
        /\ NodeAt(Opposite(w), x, nx) \in 0..Cube(nx) - 1
        /\ Arrived(r, posted[r][j])[x] = Ghost(x)
    BY GhostMessage
  <2> QED
    BY <2>1
<1>3. s = [f |-> s.f, at |-> s.at] /\ s.f \in [E -> P] /\ s.at \in Nat
  <2> HIDE DEF P, E
  <2>1. s \in [f : [E -> P], at : Nat]
    BY Zenon DEF GhostStages, GhostFields, P, E
  <2> QED
    BY <2>1
<1> DEFINE One(e) == IF e \in s.at..s.at + len - 1 THEN data[e - s.at + 1] ELSE s.f[e]
<1> DEFINE Two(e) == IF e \in s.at..s.at + len - 1 THEN Ghost(e - s.at + 1) ELSE s.f[e]
<1>4. ASSUME NEW e \in E PROVE One(e) = Two(e) /\ Two(e) \in P
  <2>1. s.f[e] \in P
    BY <1>3
  <2>2. e \in Int
    <3>1. Cube(nx) + 6*nx*nx - 1 \in Int
      <4>1. nx \in Int
        BY DEF Sent
      <4> QED
        BY <4>1, SMT DEF Cube
    <3> QED
      BY <3>1
  <2>3. CASE e \in s.at..s.at + len - 1
    <3> DEFINE x == e - s.at + 1
    <3> HIDE DEF E
    <3>1. x \in 1..len
      BY <1>1, <1>3, <2>2, <2>3
    <3> HIDE DEF x, Ghost, P
    <3>2. data[x] = Ghost(x) /\ Ghost(x) \in P
      BY <1>2, <3>1
    <3> QED
      BY <2>3, <3>2 DEF x
  <2> HIDE DEF Ghost, P
  <2> QED
    BY <2>1, <2>3
<1>5. PutGhosts(r, s, w) = [f |-> [e \in DOMAIN s.f |-> Two(e)], at |-> s.at + len]
  BY Zenon DEF PutGhosts
<1> HIDE DEF One, Two, E, P
<1>6. DOMAIN s.f = E
  BY <1>3
<1>7. [e \in DOMAIN s.f |-> One(e)] = [e \in DOMAIN s.f |-> Two(e)]
  BY <1>4, <1>6
<1>8. [e \in DOMAIN s.f |-> Two(e)] \in [E -> P]
  BY <1>4, <1>6
<1>9. PutGhosts(r, s, w) \in GhostStages
  <2> DEFINE h == [e \in DOMAIN s.f |-> Two(e)]
  <2>1. h \in GhostFields
    BY <1>8, Zenon DEF GhostFields, E, P
  <2>2. s.at + len \in Nat
    BY <1>1, <1>3
  <2> HIDE DEF h
  <2>3. [f |-> h, at |-> s.at + len] \in GhostStages
    BY <2>1, <2>2 DEF GhostStages
  <2> QED
    BY <1>5, <2>3 DEF h
<1>10. [f |-> [e \in DOMAIN s.f |-> One(e)], at |-> s.at + len] = PutGhosts(r, s, w)
  BY <1>5, <1>7, Zenon
<1> QED
  BY <1>9, <1>10, Zenon DEF ReadGhosts, One, w

(* UnpackGhosts puts one message after the other.                          *)
LEMMA GhostsFolded ==
  ASSUME NEW r, Sent(r), kind = "monoQ", UnpackGhosts(r), field[r] \in GhostFields
  PROVE  \E part : /\ part[0] = [f |-> field[r], at |-> Cube(nx)]
                   /\ field' = [field EXCEPT ![r] = part[Slots(r)].f]
                   /\ \A k \in 0..Slots(r) : part[k] \in GhostStages
                   /\ \A k \in 1..Slots(r) : part[k] = PutGhosts(r, part[k - 1], Way(r, k))
<1> DEFINE n == Slots(r)
<1> DEFINE V == GhostStages
<1> DEFINE todo == Unpacked(r)
<1> DEFINE base == [f |-> field[r], at |-> Cube(nx)]
<1> DEFINE Apply(s, i) ==
      LET data == Arrived(r, posted[r][i])
      IN [f |-> [e \in DOMAIN s.f |->
                   IF e \in s.at..s.at + todo[i].msg.count - 1 THEN data[e - s.at + 1] ELSE s.f[e]],
          at |-> s.at + todo[i].msg.count]
<1> DEFINE G == [k \in 1..n |-> [v \in V |-> PutGhosts(r, v, Way(r, k))]]
<1> DEFINE table == [i \in DOMAIN todo |-> i]
<1>1. n \in Nat /\ DOMAIN todo = 1..n
  BY SlotsAreEntries
<1> DEFINE Body(it) == [t \in SUBSET DOMAIN table |->
                          IF t = {} THEN base ELSE Apply(it[t \ {Max(t)}], table[Max(t)])]
<1> DEFINE ch == CHOOSE it : it = Body(it)
<1>2. field' = [field EXCEPT ![r] = ch[1..n].f]
  <2>1. field' = [field EXCEPT ![r] = FoldLeft(Apply, base, table).f]
    BY Zenon DEF UnpackGhosts
  <2>2. FoldLeft(Apply, base, table) = ch[DOMAIN table]
    <3> HIDE DEF Apply, base, table
    <3> QED
      BY DEF FoldLeft, MapThenFoldSet
  <2>3. DOMAIN table = 1..n
    BY <1>1
  <2> HIDE DEF ch, Apply, table, base
  <2> QED
    BY <2>1, <2>2, <2>3
<1>3. ASSUME NEW v \in V, NEW i \in 1..n
      PROVE  /\ PutGhosts(r, v, Way(r, i)) \in V /\ G[i][v] = PutGhosts(r, v, Way(r, i))
             /\ Apply(v, table[i]) = PutGhosts(r, v, Way(r, i))
  <2>1. PutGhosts(r, v, Way(r, i)) \in V /\ Apply(v, i) = PutGhosts(r, v, Way(r, i))
    <3>1. todo[i].msg.count = nx*nx
      BY GhostMessage
    <3> DEFINE data == Arrived(r, posted[r][i])
    <3> DEFINE len == todo[i].msg.count
    <3>2. data = Arrived(r, posted[r][i]) /\ len = nx*nx /\ v \in GhostStages
      BY <3>1
    <3> HIDE DEF data, len, V
    <3>3. /\ PutGhosts(r, v, Way(r, i)) \in GhostStages
          /\ ReadGhosts(v, data, len) = PutGhosts(r, v, Way(r, i))
      BY <3>2, PutGhostsIs
    <3> QED
      BY <3>3, Zenon DEF ReadGhosts, data, len, V
  <2>2. G[i][v] = PutGhosts(r, v, Way(r, i))
    <3> HIDE DEF V
    <3> QED
      OBVIOUS
  <2>3. table[i] = i
    BY <1>1
  <2> HIDE DEF Apply, table, G
  <2> QED
    BY <2>1, <2>2, <2>3
<1>4. G \in [1..n -> [V -> V]]
  <2> HIDE DEF V
  <2> QED
    BY <1>3
<1>5. base \in V
  <2>1. Cube(nx) \in Nat
    <3>1. nx \in Nat
      BY DEF Sent
    <3> QED
      BY <3>1, SMT DEF Cube
  <2> QED
    BY <2>1 DEF GhostStages
<1>6. DOMAIN table = 1..n
  BY <1>1
<1> HIDE DEF n, V, G, Apply, table, base, todo
<1>7. ASSUME NEW t \in SUBSET (1..n), t # {}
      PROVE  Max(t) \in 1..n /\ t \ {Max(t)} \in SUBSET (1..n)
  <2>1. Max(t) \in t
    BY <1>1, <1>7, MaxMember, Zenon
  <2> QED
    BY <2>1
<1>8. \E it : it = Body(it)
  <2>1. PICK it : Folds(it, n, V, base, G)
    BY <1>1, <1>4, <1>5, FoldExists
  <2>2. ASSUME NEW t \in SUBSET (1..n), t # {}
        PROVE  G[Max(t)][it[t \ {Max(t)}]] = Apply(it[t \ {Max(t)}], table[Max(t)])
    <3>1. Max(t) \in 1..n /\ it[t \ {Max(t)}] \in V
      BY <1>7, <2>1, <2>2 DEF Folds
    <3> QED
      BY <1>3, <3>1
  <2>3. it = Body(it)
    BY <1>6, <2>1, <2>2, Zenon DEF Folds
  <2> QED
    BY <2>3
<1>9. ch = Body(ch)
  <2> HIDE DEF Body
  <2> QED
    BY <1>8
<1> HIDE DEF ch
<1>10. ch[{}] = base
  BY <1>9
<1>11. ASSUME NEW t \in SUBSET (1..n), t # {}, ch[t \ {Max(t)}] \in V
       PROVE  ch[t] = G[Max(t)][ch[t \ {Max(t)}]]
  <2>1. ch[t] = Apply(ch[t \ {Max(t)}], table[Max(t)])
    BY <1>6, <1>9, <1>11, Zenon
  <2> QED
    BY <1>3, <1>7, <1>11, <2>1
<1> HIDE DEF Body
<1>12. PICK part : Partials(part, n, V, base, G, ch[1..n])
  BY <1>1, <1>4, <1>5, <1>10, <1>11, FoldValue
<1>13. part[0] = base /\ part[n] = ch[1..n] /\ \A k \in 0..n : part[k] \in V
  BY <1>1, <1>12 DEF Partials
<1>14. ASSUME NEW k \in 1..n PROVE part[k] = PutGhosts(r, part[k - 1], Way(r, k))
  <2>1. k - 1 \in 0..n
    BY <1>1
  <2>2. part[k] = G[k][part[k - 1]] /\ part[k - 1] \in V
    BY <1>12, <1>13, <2>1 DEF Partials
  <2> QED
    BY <1>3, <2>2
<1>15. field' = [field EXCEPT ![r] = part[n].f]
  BY <1>2, <1>13
<1> QED
  BY <1>13, <1>14, <1>15 DEF n, V, base

GhostFrom(r, t, n, dir, x) == <<Neighbour(r, t, dir), NodeAt(Opposite(dir), x, n)>>
GhostsAs(f, r, t, n) ==
  /\ \A e \in 0..Cube(n) - 1 : f[e] = <<r, e>>
  /\ \A i \in SharedFaces(r, t) : \A x \in 1..n*n :
       f[Cube(n) + RankIn(SharedFaces(r, t), i)*(n*n) + x - 1] = GhostFrom(r, t, n, FaceDirs[i], x)

(* After k messages the ghosts of k faces have arrived.                    *)
GhostsTo(s, r, k) ==
  /\ s.at = Cube(nx) + k*(nx*nx)
  /\ \A e \in 0..Cube(nx) - 1 : s.f[e] = <<r, e>>
  /\ \A j \in 1..k : \A x \in 1..nx*nx :
       s.f[Cube(nx) + (j - 1)*(nx*nx) + x - 1] = GhostFrom(r, tp, nx, Way(r, j), x)

(* The rank's own values are a field with no ghosts.                       *)
LEMMA OwnGhosts ==
  ASSUME NEW r, Sent(r), kind = "monoQ", field[r] = OwnOf(r, kind, nx)
  PROVE  field[r] \in GhostFields /\ GhostsTo([f |-> field[r], at |-> Cube(nx)], r, 0)
<1> DEFINE c == Cube(nx)
<1> DEFINE s == 6*nx*nx
<1> DEFINE P == ((0..Cube(tp) - 1) \X (0..c - 1)) \cup {Unset}
<1>1. r \in 0..Cube(tp) - 1 /\ c \in Nat /\ s \in Nat /\ nx*nx \in Nat
  <2>1. nx \in Nat /\ r \in 0..Cube(tp) - 1
    BY DEF Sent
  <2> QED
    BY <2>1, SMT DEF Cube
<1>2. field[r] = [e \in 0..c + s - 1 |-> IF e < c THEN <<r, e>> ELSE Unset]
  BY DEF OwnOf
<1> DEFINE h == field[r]
<1> HIDE DEF h, c, s
<1>3. \A e \in 0..c + s - 1 : h[e] = IF e < c THEN <<r, e>> ELSE Unset
  BY <1>2 DEF h
<1>4. \A e \in 0..c + s - 1 : h[e] \in P
  <2> SUFFICES ASSUME NEW e \in 0..c + s - 1 PROVE h[e] \in P
    OBVIOUS
  <2>1. CASE e < c
    <3>0. e \in 0..c - 1
      BY <1>1, <2>1
    <3>1. e \in 0..c - 1 /\ h[e] = <<r, e>>
      BY <1>3, <2>1, <3>0, Zenon
    <3> DEFINE R == 0..Cube(tp) - 1
    <3> DEFINE N == 0..c - 1
    <3>2. r \in R /\ e \in N /\ P = (R \X N) \cup {Unset}
      BY <1>1, <3>1
    <3> HIDE DEF R, N, P
    <3>3. <<r, e>> \in R \X N
      BY <3>2
    <3> QED
      BY <3>1, <3>2, <3>3, Zenon
  <2>2. CASE ~(e < c)
    <3>1. h[e] = Unset
      BY <1>3, <2>2
    <3> QED
      BY <3>1
  <2> QED
    BY <2>1, <2>2
<1>5. h \in [0..c + s - 1 -> P]
  <2> HIDE DEF P
  <2> QED
    BY <1>2, <1>4 DEF h
<1>6. \A e \in 0..c - 1 : h[e] = <<r, e>>
  <2>1. \A e \in 0..c - 1 : e \in 0..c + s - 1 /\ e < c
    BY <1>1
  <2> QED
    BY <1>3, <2>1, Zenon
<1>7. 0*(nx*nx) = 0 /\ c + 0 = c
  BY <1>1, SMT
<1>8. ~\E j \in 1..0 : TRUE
  OBVIOUS
<1> DEFINE one == [f |-> h, at |-> c]
<1>9. one.f = h /\ one.at = c
  OBVIOUS
<1> HIDE DEF one
<1>10. GhostsTo(one, r, 0)
  BY <1>6, <1>7, <1>8, <1>9 DEF GhostsTo, c
<1> QED
  <2>1. GhostFields = [0..c + s - 1 -> P]
    BY DEF GhostFields, c, s
  <2>2. h \in GhostFields
    BY <1>5, <2>1
  <2> QED
    BY <1>10, <2>2, Zenon DEF one, h, c

(* The next message puts the ghosts of the next face.                      *)
LEMMA GhostsGoOn ==
  ASSUME NEW r, Sent(r), kind = "monoQ", NEW k \in 1..Slots(r), NEW s \in GhostStages,
         GhostsTo(s, r, k - 1)
  PROVE  GhostsTo(PutGhosts(r, s, Way(r, k)), r, k)
<1> DEFINE c == Cube(nx)
<1> DEFINE nn == nx*nx
<1> DEFINE w == Way(r, k)
<1> DEFINE E == 0..c + 6*nx*nx - 1
<1> DEFINE h == PutGhosts(r, s, w)
<1>1. /\ c \in Nat /\ nn \in Nat /\ 6*nx*nx = 6*nn /\ Slots(r) \in 0..6
      /\ k \in 1..6 /\ k - 1 \in Nat /\ k - 1 <= 5
  <2>1. nx \in Nat /\ Slots(r) \in 0..6
    BY GhostWays DEF Sent
  <2>2. c \in Nat /\ nn \in Nat /\ 6*nx*nx = 6*nn
    BY <2>1, SMT DEF Cube
  <2>3. k \in 1..6 /\ k - 1 \in Nat /\ k - 1 <= 5
    BY <2>1
  <2> QED
    BY <2>1, <2>2, <2>3
<1>2. DOMAIN s.f = E
  BY DEF GhostStages, GhostFields
<1>3. /\ h.at = s.at + nn
      /\ \A e \in E : h.f[e] = IF e \in s.at..s.at + nn - 1
                                THEN GhostFrom(r, tp, nx, w, e - s.at + 1) ELSE s.f[e]
  BY <1>2 DEF PutGhosts, GhostFrom
<1>4. /\ s.at = c + (k - 1)*nn
      /\ \A e \in 0..c - 1 : s.f[e] = <<r, e>>
      /\ \A j \in 1..k - 1 : \A x \in 1..nn : s.f[c + (j - 1)*nn + x - 1] = GhostFrom(r, tp, nx, Way(r, j), x)
  BY DEF GhostsTo
<1> HIDE DEF c, h, nn, w, E
<1>5. \A j \in 1..6 : /\ j*nn = (j - 1)*nn + nn /\ (j - 1)*nn \in Nat /\ j*nn \in Nat /\ j*nn <= 6*nn
                      /\ \A i \in 1..j - 1 : i*nn <= (j - 1)*nn
  <2> SUFFICES ASSUME NEW j \in 1..6
               PROVE  /\ j*nn = (j - 1)*nn + nn /\ (j - 1)*nn \in Nat /\ j*nn \in Nat /\ j*nn <= 6*nn
                      /\ \A i \in 1..j - 1 : i*nn <= (j - 1)*nn
    OBVIOUS
  <2>1. j*nn = (j - 1)*nn + nn /\ (j - 1)*nn \in Nat /\ j*nn \in Nat
    BY <1>1, SMT
  <2>2. \A a, b \in Nat : a <= b => a*nn <= b*nn
    BY <1>1, SMT
  <2> QED
    BY <2>1, <2>2
<1>6. s.at \in Nat /\ c <= s.at /\ h.at = c + k*nn
  <2> DEFINE p == (k - 1)*nn
  <2> DEFINE q == k*nn
  <2>1. q = p + nn /\ p \in Nat
    BY <1>1, <1>5
  <2>2. s.at = c + p /\ h.at = s.at + nn
    BY <1>3, <1>4
  <2> HIDE DEF p, q
  <2>3. s.at \in Nat /\ c <= s.at /\ h.at = c + q
    BY <1>1, <2>1, <2>2
  <2> QED
    BY <2>3 DEF q
<1>7. ASSUME NEW e \in 0..c - 1 PROVE h.f[e] = <<r, e>>
  <2>1. e \in E /\ ~(e \in s.at..s.at + nn - 1)
    <3> DEFINE m == 6*nx*nx
    <3>1. m \in Nat
      <4>1. m = 6*nn
        BY <1>1
      <4> HIDE DEF m
      <4> QED
        BY <1>1, <4>1
    <3> HIDE DEF m
    <3>2. e \in 0..c + m - 1
      BY <1>1, <3>1
    <3> QED
      BY <1>1, <1>6, <3>2 DEF E, m
  <2> QED
    BY <1>3, <1>4, <2>1
<1>8. ASSUME NEW j \in 1..k, NEW x \in 1..nn
      PROVE  h.f[c + (j - 1)*nn + x - 1] = GhostFrom(r, tp, nx, Way(r, j), x)
  <2> DEFINE e == c + (j - 1)*nn + x - 1
  <2> DEFINE p == (j - 1)*nn
  <2> DEFINE q == (k - 1)*nn
  <2> DEFINE m == 6*nx*nx
  <2>1. p \in Nat /\ q \in Nat /\ m = 6*nn /\ p + nn <= m /\ (j < k => p + nn <= q)
    <3>1. j \in 1..6 /\ (j < k => j \in 1..k - 1)
      BY <1>1
    <3>2. p \in Nat /\ j*nn = p + nn /\ j*nn <= 6*nn
      BY <1>5, <3>1
    <3>3. q \in Nat /\ (j < k => j*nn <= q)
      BY <1>1, <1>5, <3>1
    <3> QED
      BY <1>1, <3>2, <3>3
  <2>2. e = c + p + x - 1 /\ s.at = c + q
    BY <1>4
  <2>3. E = 0..c + m - 1
    BY DEF E
  <2> HIDE DEF e, p, q, m
  <2>4. m \in Nat
    BY <1>1, <2>1
  <2>5. e \in E
    BY <1>1, <2>1, <2>2, <2>3, <2>4
  <2>6. CASE j = k
    <3>1. p = q
      BY <2>6 DEF p, q
    <3>2. e \in s.at..s.at + nn - 1 /\ e - s.at + 1 = x
      BY <1>1, <2>1, <2>2, <3>1
    <3>3. h.f[e] = GhostFrom(r, tp, nx, w, x)
      BY <1>3, <2>5, <3>2
    <3> QED
      BY <2>6, <3>3 DEF w, e
  <2>7. CASE j # k
    <3>1. j < k /\ j \in 1..k - 1
      BY <1>1, <2>7
    <3>2. ~(e \in s.at..s.at + nn - 1)
      BY <1>1, <2>1, <2>2, <3>1
    <3>3. h.f[e] = s.f[e]
      BY <1>3, <2>5, <3>2
    <3>4. s.f[c + (j - 1)*nn + x - 1] = GhostFrom(r, tp, nx, Way(r, j), x)
      BY <1>4, <3>1
    <3> QED
      BY <3>3, <3>4 DEF e
  <2> QED
    BY <2>6, <2>7
<1>9. GhostsTo(h, r, k)
  BY <1>6, <1>7, <1>8, Zenon DEF GhostsTo, c, nn
<1> QED
  BY <1>9 DEF h, w

(* CommMonoQ leaves the elements beyond every shared face as its ghosts.   *)
LEMMA GhostsDone ==
  ASSUME NEW r, Sent(r), kind = "monoQ", UnpackGhosts(r), field[r] = OwnOf(r, kind, nx)
  PROVE  \E f : field' = [field EXCEPT ![r] = f] /\ GhostsAs(f, r, tp, nx)
<1> DEFINE n == Slots(r)
<1>1. field[r] \in GhostFields /\ GhostsTo([f |-> field[r], at |-> Cube(nx)], r, 0)
  BY OwnGhosts
<1>2. PICK part : /\ part[0] = [f |-> field[r], at |-> Cube(nx)]
                  /\ field' = [field EXCEPT ![r] = part[n].f]
                  /\ \A k \in 0..n : part[k] \in GhostStages
                  /\ \A k \in 1..n : part[k] = PutGhosts(r, part[k - 1], Way(r, k))
  BY <1>1, GhostsFolded
<1>3. n \in Nat
  BY SlotsAreEntries
<1> DEFINE W == [k \in 0..n |-> {s \in GhostStages : GhostsTo(s, r, k)}]
<1>4. part[0] \in W[0]
  <2>1. 0 \in 0..n
    BY <1>3
  <2>2. GhostsTo(part[0], r, 0)
    BY <1>1, <1>2, Zenon
  <2> QED
    BY <1>2, <2>1, <2>2
<1>5. ASSUME NEW k \in 1..n, part[k - 1] \in W[k - 1] PROVE part[k] \in W[k]
  <2>1. k - 1 \in 0..n /\ k \in 0..n
    BY <1>3
  <2>2. part[k - 1] \in GhostStages /\ GhostsTo(part[k - 1], r, k - 1)
    BY <1>5, <2>1
  <2>3. part[k] = PutGhosts(r, part[k - 1], Way(r, k)) /\ part[k] \in GhostStages
    BY <1>2, <2>1
  <2>4. GhostsTo(PutGhosts(r, part[k - 1], Way(r, k)), r, k)
    BY <2>2, GhostsGoOn
  <2> QED
    BY <2>1, <2>3, <2>4
<1>6. GhostsTo(part[n], r, n)
  <2>1. n \in 0..n
    BY <1>3
  <2>2. \A k \in 0..n : part[k] \in W[k]
    <3> HIDE DEF W, n
    <3> QED
      BY <1>3, <1>4, <1>5, StagesHold
  <2> QED
    BY <2>1, <2>2
<1> HIDE DEF W
<1>7. GhostsAs(part[n].f, r, tp, nx)
  <2> DEFINE S == SharedFaces(r, tp)
  <2> DEFINE f == part[n].f
  <2> DEFINE rk(i) == RankIn(S, i)
  <2>1. \A i \in S : rk(i) + 1 \in 1..n /\ Way(r, rk(i) + 1) = FaceDirs[i]
    BY GhostWays
  <2>2. \A i \in S : rk(i) \in Nat
    BY SomeShared, RankProperties
  <2>3. /\ \A e \in 0..Cube(nx) - 1 : f[e] = <<r, e>>
        /\ \A j \in 1..n : \A x \in 1..nx*nx :
             f[Cube(nx) + (j - 1)*(nx*nx) + x - 1] = GhostFrom(r, tp, nx, Way(r, j), x)
    BY <1>6, Zenon DEF GhostsTo
  <2> HIDE DEF f, S, rk, n
  <2>4. ASSUME NEW i \in S, NEW x \in 1..nx*nx
        PROVE  f[Cube(nx) + rk(i)*(nx*nx) + x - 1] = GhostFrom(r, tp, nx, FaceDirs[i], x)
    <3> DEFINE j == rk(i) + 1
    <3>1. j \in 1..n /\ Way(r, j) = FaceDirs[i]
      BY <2>1, <2>4
    <3>2. j - 1 = rk(i)
      BY <2>2, <2>4
    <3> HIDE DEF j
    <3>3. f[Cube(nx) + (j - 1)*(nx*nx) + x - 1] = GhostFrom(r, tp, nx, Way(r, j), x)
      BY <2>3, <3>1, Zenon
    <3> QED
      BY <3>1, <3>2, <3>3
  <2> QED
    BY <2>3, <2>4, Zenon DEF GhostsAs, f, S, rk, n
<1> QED
  BY <1>2, <1>7

-----------------------------------------------------------------------------
(***************************************************************************)
(* Which element a gradient is read from, and which is across the face.    *)
(***************************************************************************)

(* One step along an axis of the cube of all ranks: within a rank's cube,  *)
(* into the next one, or out at one of the two ends.                       *)
LEMMA AxisStep ==
  ASSUME NEW t \in Nat \ {0}, NEW n \in Nat \ {0}, NEW l \in 0..t - 1, NEW g \in 0..n - 1,
         NEW s \in -1..1, NEW p, p = l*n + g + s
  PROVE  /\ p \in Int
         /\ g + s \in 0..n - 1 => ~(p < 0) /\ p # t*n /\ p \div n = l /\ p % n = g + s
         /\ Side3(s, g, n) /\ l + s \in 0..t - 1 =>
              ~(p < 0) /\ p # t*n /\ p \div n = l + s /\ p % n = Facing(s, g, n)
         /\ s = -1 /\ g = 0 /\ l = 0 => p < 0
         /\ s = 1 /\ g = n - 1 /\ l = t - 1 => p = t*n /\ ~(p < 0)
<1> DEFINE k == l*n
<1> DEFINE all == t*n
<1>1. \A a \in 0..t - 1 : a*n \in Nat /\ a*n <= all - n
  <2> SUFFICES ASSUME NEW a \in 0..t - 1 PROVE a*n \in Nat /\ a*n <= all - n
    OBVIOUS
  <2>1. a*n <= (t - 1)*n /\ (t - 1)*n = all - n /\ a*n \in Nat
    BY ProductMonotone, SMT
  <2> QED
    BY <2>1
<1>2. all \in Nat /\ k \in Nat /\ k <= all - n /\ p = k + g + s
  <2>1. all \in Nat
    BY SMT
  <2> QED
    BY <1>1, <2>1
<1>3. p \in Int
  <2> HIDE DEF k, all
  <2> QED
    BY <1>2
<1>4. \A a \in 0..t - 1, u \in 0..n - 1 :
        p = a*n + u => ~(p < 0) /\ p # all /\ p \div n = a /\ p % n = u
  <2> SUFFICES ASSUME NEW a \in 0..t - 1, NEW u \in 0..n - 1, p = a*n + u
               PROVE  ~(p < 0) /\ p # all /\ p \div n = a /\ p % n = u
    OBVIOUS
  <2> DEFINE q == a*n
  <2>1. q \in Nat /\ q <= all - n /\ p = q + u
    BY <1>1
  <2>2. ~(p < 0) /\ p # all
    <3> HIDE DEF q, all
    <3> QED
      BY <1>2, <2>1
  <2>3. p \div n = a /\ p % n = u
    <3>1. p = n*a + u
      BY SMT
    <3> QED
      BY <1>3, <3>1, DivModUnique
  <2> QED
    BY <2>2, <2>3
<1>5. ASSUME g + s \in 0..n - 1 PROVE ~(p < 0) /\ p # all /\ p \div n = l /\ p % n = g + s
  <2>1. p = l*n + (g + s)
    <3> HIDE DEF k, all
    <3>1. p = k + (g + s)
      BY <1>2
    <3> QED
      BY <3>1 DEF k
  <2> QED
    BY <1>4, <1>5, <2>1
<1>6. ASSUME Side3(s, g, n), l + s \in 0..t - 1
      PROVE  ~(p < 0) /\ p # all /\ p \div n = l + s /\ p % n = Facing(s, g, n)
  <2>1. Facing(s, g, n) \in 0..n - 1
    BY DEF Facing
  <2>2. (l + s)*n = k + s*n /\ (s = 0 => s*n = 0) /\ (s = 1 => s*n = n) /\ (s = -1 => s*n = -n)
    BY SMT
  <2>3. p = (l + s)*n + Facing(s, g, n)
    <3> DEFINE q == (l + s)*n
    <3> DEFINE o == s*n
    <3>1. q = k + o /\ (s = 0 => o = 0) /\ (s = 1 => o = n) /\ (s = -1 => o = -n)
      BY <2>2
    <3> HIDE DEF q, o, k, all
    <3>2. p = q + Facing(s, g, n)
      BY <1>2, <1>6, <3>1 DEF Side3, Facing
    <3> QED
      BY <3>2 DEF q
  <2> QED
    BY <1>4, <1>6, <2>1, <2>3
<1>7. s = -1 /\ g = 0 /\ l = 0 => p < 0
  <2>1. l = 0 => k = 0
    BY SMT
  <2> HIDE DEF k, all
  <2> QED
    BY <1>2, <2>1
<1>8. s = 1 /\ g = n - 1 /\ l = t - 1 => p = all /\ ~(p < 0)
  <2>1. l = t - 1 => k = all - n
    BY SMT
  <2> HIDE DEF k, all
  <2> QED
    BY <1>2, <2>1
<1> QED
  BY <1>3, <1>5, <1>6, <1>7, <1>8

(* The rank and the element at a place of the whole cube.                  *)
OwnerOf(x, y, z, t, n) ==
  <<(x \div n) + t*(y \div n) + t*t*(z \div n), (x % n) + n*(y % n) + n*n*(z % n)>>

OwnerWell(x, y, z, t, n) ==
  OwnerOf(x, y, z, t, n)
    = <<Point(x \div n, y \div n, z \div n, t), Point(x % n, y % n, z % n, n)>>

(* They are the points of the two cubes with those coordinates.            *)
LEMMA OwnerIs ==
  ASSUME NEW t \in Nat \ {0}, NEW n \in Nat \ {0}, NEW x \in Int, NEW y \in Int, NEW z \in Int
  PROVE  OwnerWell(x, y, z, t, n)
<1>1. \A m \in Nat \ {0}, a, b, c \in Int : a + m*b + m*m*c = a + b*m + c*(m*m)
  BY SMT
<1> DEFINE a == x \div n
<1> DEFINE b == y \div n
<1> DEFINE c == z \div n
<1> DEFINE u == x % n
<1> DEFINE v == y % n
<1> DEFINE w == z % n
<1>2. /\ a \in Int /\ b \in Int /\ c \in Int
      /\ u \in Int /\ v \in Int /\ w \in Int
  OBVIOUS
<1> HIDE DEF a, b, c, u, v, w
<1>3. /\ a + t*b + t*t*c = a + b*t + c*(t*t)
      /\ u + n*v + n*n*w = u + v*n + w*(n*n)
  BY <1>1, <1>2
<1> QED
  BY <1>3, Zenon DEF OwnerWell, OwnerOf, Point, a, b, c, u, v, w

FaceWell(i, e, n) ==
  LET f == Faces[i]
      dir == FaceDirs[i]
      g == Digits(e, n)
  IN /\ f \in ToSet(Faces) /\ dir \in Steps /\ dir = Towards[f] /\ Shape(1, dir)
     /\ AtRim(f, e, n) <=> OnSide(dir, e, n)
     /\ f \in {"zetaM", "etaM", "xiM"} <=> dir[1] = -1 \/ dir[2] = -1 \/ dir[3] = -1
     /\ PlaceOf(dir, g, n) = Row(f, g)*n + Col(f, g) + 1

(* A face as a direction: its rim, the sense it looks in and the places of *)
(* its ghosts.                                                             *)
LEMMA AcrossFace ==
  ASSUME NEW i \in 1..6, NEW n, NEW e
  PROVE  FaceWell(i, e, n)
<1> DEFINE f == Faces[i]
<1> DEFINE dir == FaceDirs[i]
<1> DEFINE g == Digits(e, n)
<1>1. /\ Faces[1] = "zetaM" /\ Faces[2] = "zetaP" /\ Faces[3] = "etaM" /\ Faces[4] = "etaP"
      /\ Faces[5] = "xiM" /\ Faces[6] = "xiP"
  BY DEF Faces
<1>2. /\ FaceDirs[1] = <<0, 0, -1>> /\ FaceDirs[2] = <<0, 0, 1>> /\ FaceDirs[3] = <<0, -1, 0>>
      /\ FaceDirs[4] = <<0, 1, 0>> /\ FaceDirs[5] = <<-1, 0, 0>> /\ FaceDirs[6] = <<1, 0, 0>>
  BY DEF FaceDirs
<1>3. i = 1 \/ i = 2 \/ i = 3 \/ i = 4 \/ i = 5 \/ i = 6
  OBVIOUS
<1>4. f \in ToSet(Faces) /\ dir \in Steps /\ dir = Towards[f]
  BY SixFaces, FaceDirsAre
<1>5. Shape(1, dir)
  <2>1. 1 \in 1..3 /\ i \in 1..Entries(1) /\ Dirs[1] = FaceDirs
    BY DEF Entries, Dirs
  <2>2. Shape(1, Dirs[1][i])
    BY <2>1, ShapeIs
  <2> QED
    BY <2>1, <2>2
<1> HIDE DEF f, dir, g
<1>6. \/ f = "zetaM" /\ dir[1] = 0 /\ dir[2] = 0 /\ dir[3] = -1
      \/ f = "zetaP" /\ dir[1] = 0 /\ dir[2] = 0 /\ dir[3] = 1
      \/ f = "etaM" /\ dir[1] = 0 /\ dir[2] = -1 /\ dir[3] = 0
      \/ f = "etaP" /\ dir[1] = 0 /\ dir[2] = 1 /\ dir[3] = 0
      \/ f = "xiM" /\ dir[1] = -1 /\ dir[2] = 0 /\ dir[3] = 0
      \/ f = "xiP" /\ dir[1] = 1 /\ dir[2] = 0 /\ dir[3] = 0
  BY <1>1, <1>2, <1>3 DEF f, dir
<1>7. AtRim(f, e, n) <=> OnSide(dir, e, n)
  BY <1>6 DEF AtRim, Depth, Rim, OnSide, Side3, g
<1>8. f \in {"zetaM", "etaM", "xiM"} <=> dir[1] = -1 \/ dir[2] = -1 \/ dir[3] = -1
  BY <1>6
<1>9. PlaceOf(dir, g, n) = Row(f, g)*n + Col(f, g) + 1
  BY <1>6 DEF PlaceOf, Row, Col
<1> QED
  BY <1>4, <1>5, <1>7, <1>8, <1>9, Zenon DEF FaceWell, f, dir, g

CrossReads(here, r, i, e, t, n) ==
  LET dir == FaceDirs[i]
      g == Digits(e, n)
  IN /\ ~OnSide(dir, e, n) =>
          here = <<r, Point(g.x + dir[1], g.y + dir[2], g.z + dir[3], n)>>
     /\ OnSide(dir, e, n) /\ HasNeighbour(r, t, dir) =>
          here = <<Neighbour(r, t, dir), Twin(dir, e, n)>>
     /\ OnSide(dir, e, n) /\ ~HasNeighbour(r, t, dir) =>
          here = IF dir[1] = -1 \/ dir[2] = -1 \/ dir[3] = -1 THEN <<r, e>> ELSE <<"zero">>

(* What the gradient across a face is read from, once the ghosts are there. *)
LEMMA GradientIs ==
  ASSUME tp \in Nat \ {0}, nx \in Nat \ {0}, NEW r \in 0..Cube(tp) - 1,
         GhostsAs(field[r], r, tp, nx),
         NEW e \in 0..Cube(nx) - 1, NEW i \in 1..6,
         NEW box, box = Boundary(r, tp, nx, Connectivities(nx))
  PROVE  CrossReads(Gradient(r, Faces[i], e, box), r, i, e, tp, nx)
<1> DEFINE f == Faces[i]
<1> DEFINE dir == FaceDirs[i]
<1> DEFINE g == Digits(e, nx)
<1> DEFINE here == Gradient(r, f, e, box)
<1> DEFINE S == SharedFaces(r, tp)
<1>1. /\ f \in ToSet(Faces) /\ dir \in Steps /\ dir = Towards[f] /\ Shape(1, dir)
      /\ AtRim(f, e, nx) <=> OnSide(dir, e, nx)
      /\ f \in {"zetaM", "etaM", "xiM"} <=> dir[1] = -1 \/ dir[2] = -1 \/ dir[3] = -1
      /\ PlaceOf(dir, g, nx) = Row(f, g)*nx + Col(f, g) + 1
  BY AcrossFace, Zenon DEF FaceWell
<1>2. Shared(f, r, tp) <=> HasNeighbour(r, tp, dir)
  BY <1>1 DEF Shared
<1>3. /\ box.bc[f][e] = Condition(f, e, r, tp, nx)
      /\ box.links[f][e] = IF AtRim(f, e, nx) /\ Shared(f, r, tp) THEN GhostOf(f, e, r, tp, nx)
                           ELSE Connectivities(nx)[f][e]
  <2> DEFINE links == Connectivities(nx)
  <2>1. f \in DOMAIN links
    BY <1>1, LinksAre
  <2> HIDE DEF links, f
  <2>2. /\ Boundary(r, tp, nx, links).bc[f][e] = Condition(f, e, r, tp, nx)
        /\ Boundary(r, tp, nx, links).links[f][e] =
             IF AtRim(f, e, nx) /\ Shared(f, r, tp) THEN GhostOf(f, e, r, tp, nx) ELSE links[f][e]
    BY <1>1, <2>1, BoundaryIs
  <2> QED
    BY <2>2, Zenon DEF links
<1>4. /\ \A a \in 0..Cube(nx) - 1 : field[r][a] = <<r, a>>
      /\ \A a \in S : \A x \in 1..nx*nx :
           field[r][Cube(nx) + RankIn(S, a)*(nx*nx) + x - 1] = GhostFrom(r, tp, nx, FaceDirs[a], x)
  BY Zenon DEF GhostsAs
<1>5. ASSUME ~OnSide(dir, e, nx)
      PROVE  here = <<r, Point(g.x + dir[1], g.y + dir[2], g.z + dir[3], nx)>>
  <2> DEFINE q == Point(g.x + dir[1], g.y + dir[2], g.z + dir[3], nx)
  <2>1. ~AtRim(f, e, nx)
    BY <1>1, <1>5
  <2>2. /\ g.x + dir[1] \in 0..nx - 1 /\ g.y + dir[2] \in 0..nx - 1 /\ g.z + dir[3] \in 0..nx - 1
        /\ Connectivities(nx)[f][e] = q
    <3> HIDE DEF f, dir
    <3> QED
      BY <1>1, <2>1, LinkInside
  <2>3. q \in 0..Cube(nx) - 1
    <3> DEFINE a == g.x + dir[1]
    <3> DEFINE b == g.y + dir[2]
    <3> DEFINE c == g.z + dir[3]
    <3>1. a \in 0..nx - 1 /\ b \in 0..nx - 1 /\ c \in 0..nx - 1
      BY <2>2
    <3> HIDE DEF a, b, c
    <3>2. Point(a, b, c, nx) \in 0..Cube(nx) - 1
      BY <3>1, DigitsOf
    <3> QED
      BY <3>2 DEF a, b, c
  <2>4. box.bc[f][e] = "INNER" /\ box.links[f][e] = q
    BY <1>3, <2>1, <2>2, Zenon DEF Condition
  <2> HIDE DEF q, f
  <2>5. here = field[r][q]
    BY <2>4 DEF Gradient
  <2> QED
    BY <1>4, <2>3, <2>5 DEF q
<1>6. ASSUME OnSide(dir, e, nx), HasNeighbour(r, tp, dir)
      PROVE  here = <<Neighbour(r, tp, dir), Twin(dir, e, nx)>>
  <2> DEFINE x == PlaceOf(dir, g, nx)
  <2> DEFINE y == Row(f, g)*nx + Col(f, g)
  <2>1. AtRim(f, e, nx) /\ Shared(f, r, tp)
    BY <1>1, <1>2, <1>6
  <2>2. x \in 1..nx*nx /\ NodeAt(dir, x, nx) = e /\ 1 \in 1..3
    <3>1. 1 \in 1..3 /\ Extent(1, nx) = nx*nx
      BY DEF Extent
    <3> DEFINE one == 1
    <3>2. one \in 1..3 /\ Shape(one, dir) /\ Extent(one, nx) = nx*nx
      BY <1>1, <3>1
    <3> HIDE DEF one, dir
    <3>3. x \in 1..Extent(one, nx) /\ NodeAt(dir, x, nx) = e
      BY <1>1, <1>6, <3>2, NodeFound
    <3> QED
      BY <3>1, <3>2, <3>3
  <2>3. Twin(dir, e, nx) = NodeAt(Opposite(dir), x, nx)
    <3> HIDE DEF x, dir
    <3>1. Twin(dir, NodeAt(dir, x, nx), nx) = NodeAt(Opposite(dir), x, nx)
      BY <1>1, <2>2, NodeFacts
    <3> QED
      BY <2>2, <3>1
  <2>4. i \in S
    BY <2>1 DEF SharedFaces
  <2>5. field[r][Cube(nx) + RankIn(S, i)*(nx*nx) + x - 1] = <<Neighbour(r, tp, dir), Twin(dir, e, nx)>>
    <3> HIDE DEF x, S
    <3>1. field[r][Cube(nx) + RankIn(S, i)*(nx*nx) + x - 1] = GhostFrom(r, tp, nx, FaceDirs[i], x)
      BY <1>4, <2>2, <2>4
    <3> QED
      BY <2>3, <3>1, Zenon DEF GhostFrom
  <2>6. GhostOf(f, e, r, tp, nx) = Cube(nx) + RankIn(S, i)*(nx*nx) + x - 1
    <3>1. GhostStart(r, tp, nx, Faces[i]) = Cube(nx) + RankIn(S, i)*nx*nx
      BY GhostStartIs
    <3>2. GhostOf(f, e, r, tp, nx) = Cube(nx) + RankIn(S, i)*nx*nx + Row(f, g)*nx + Col(f, g)
      BY <3>1, Zenon DEF GhostOf
    <3> DEFINE k == RankIn(S, i)
    <3> DEFINE row == Row(f, g)
    <3> DEFINE col == Col(f, g)
    <3> DEFINE c == Cube(nx)
    <3>3. k \in Int /\ c \in Int /\ row \in Int /\ col \in Int
      <4>1. k \in Int
        BY <2>4, SomeShared, RankProperties
      <4>2. row \in 0..nx - 1 /\ col \in 0..nx - 1
        <5> HIDE DEF f
        <5> QED
          BY <1>1, <2>1, RimOnFace
      <4>3. c \in Int
        BY SMT DEF Cube
      <4> QED
        BY <4>1, <4>2, <4>3
    <3>4. x = row*nx + col + 1
      BY <1>1
    <3> HIDE DEF k, row, col, c, x
    <3>5. k*nx*nx = k*(nx*nx) /\ k*(nx*nx) \in Int /\ row*nx \in Int
      BY <3>3, SMT
    <3> DEFINE kk == k*(nx*nx)
    <3> DEFINE rn == row*nx
    <3>6. kk \in Int /\ rn \in Int /\ x = rn + col + 1 /\ GhostOf(f, e, r, tp, nx) = c + kk + rn + col
      BY <3>2, <3>4, <3>5 DEF k, row, col, c
    <3> HIDE DEF kk, rn
    <3>7. GhostOf(f, e, r, tp, nx) = c + kk + x - 1
      BY <3>3, <3>6
    <3> QED
      BY <3>7 DEF kk, k, c
  <2>7. box.bc[f][e] = "COMM" /\ box.links[f][e] = GhostOf(f, e, r, tp, nx)
    BY <1>3, <2>1, Zenon DEF Condition
  <2> HIDE DEF f
  <2>8. here = field[r][GhostOf(f, e, r, tp, nx)]
    BY <2>7 DEF Gradient
  <2> QED
    BY <2>5, <2>6, <2>8, Zenon
<1>7. ASSUME OnSide(dir, e, nx), ~HasNeighbour(r, tp, dir)
      PROVE  here = IF dir[1] = -1 \/ dir[2] = -1 \/ dir[3] = -1 THEN <<r, e>> ELSE <<"zero">>
  <2>1. AtRim(f, e, nx) /\ ~Shared(f, r, tp)
    BY <1>1, <1>2, <1>7
  <2>2. box.bc[f][e] = IF f \in {"zetaM", "etaM", "xiM"} THEN "SYMM" ELSE "FREE"
    BY <1>3, <2>1, Zenon DEF Condition
  <2>3. field[r][e] = <<r, e>>
    BY <1>4
  <2> HIDE DEF f, dir
  <2>4. CASE f \in {"zetaM", "etaM", "xiM"}
    <3>1. box.bc[f][e] = "SYMM"
      BY <2>2, <2>4
    <3>2. here = field[r][e]
      BY <3>1 DEF Gradient
    <3> QED
      BY <1>1, <2>3, <2>4, <3>2
  <2>5. CASE f \notin {"zetaM", "etaM", "xiM"}
    <3>1. box.bc[f][e] = "FREE"
      BY <2>2, <2>5
    <3>2. here = <<"zero">>
      BY <3>1 DEF Gradient
    <3> QED
      BY <1>1, <2>5, <3>2
  <2> QED
    BY <2>4, <2>5
<1> QED
  BY <1>5, <1>6, <1>7, Zenon DEF CrossReads

StepEnds(x, y, z, r, i, e, t, n) ==
  LET dir == FaceDirs[i]
      g == Digits(e, n)
      In == ~(x < 0 \/ y < 0 \/ z < 0)
      Out == x = t*n \/ y = t*n \/ z = t*n
  IN /\ ~OnSide(dir, e, n) =>
          /\ In /\ ~Out
          /\ OwnerOf(x, y, z, t, n) = <<r, Point(g.x + dir[1], g.y + dir[2], g.z + dir[3], n)>>
     /\ OnSide(dir, e, n) /\ HasNeighbour(r, t, dir) =>
          In /\ ~Out /\ OwnerOf(x, y, z, t, n) = <<Neighbour(r, t, dir), Twin(dir, e, n)>>
     /\ OnSide(dir, e, n) /\ ~HasNeighbour(r, t, dir) =>
          IF dir[1] = -1 \/ dir[2] = -1 \/ dir[3] = -1 THEN ~In ELSE In /\ Out

(* Where a step across a face leads in the cube of all ranks.              *)
LEMMA StepLeads ==
  ASSUME NEW t \in Nat \ {0}, NEW n \in Nat \ {0}, NEW r \in 0..Cube(t) - 1,
         NEW e \in 0..Cube(n) - 1, NEW i \in 1..6, NEW x, NEW y, NEW z,
         x = Digits(r, t).x*n + Digits(e, n).x + FaceDirs[i][1],
         y = Digits(r, t).y*n + Digits(e, n).y + FaceDirs[i][2],
         z = Digits(r, t).z*n + Digits(e, n).z + FaceDirs[i][3]
  PROVE  StepEnds(x, y, z, r, i, e, t, n)
<1> DEFINE dir == FaceDirs[i]
<1> DEFINE g == Digits(e, n)
<1> DEFINE l == Digits(r, t)
<1> DEFINE In == ~(x < 0 \/ y < 0 \/ z < 0)
<1> DEFINE Out == x = t*n \/ y = t*n \/ z = t*n
<1>1. /\ dir \in Steps /\ Shape(1, dir) /\ (AtRim(Faces[i], e, n) <=> OnSide(dir, e, n))
      /\ Faces[i] \in ToSet(Faces) /\ dir = Towards[Faces[i]]
  BY AcrossFace, Zenon DEF FaceWell
<1>2. dir[1] \in -1..1 /\ dir[2] \in -1..1 /\ dir[3] \in -1..1
  BY <1>1, StepParts
<1>3. /\ l.x \in 0..t - 1 /\ l.y \in 0..t - 1 /\ l.z \in 0..t - 1 /\ r = Point(l.x, l.y, l.z, t)
      /\ g.x \in 0..n - 1 /\ g.y \in 0..n - 1 /\ g.z \in 0..n - 1 /\ e = Point(g.x, g.y, g.z, n)
  BY DigitsPoint
<1> DEFINE Went(a, u, s, p) ==
      /\ p \in Int
      /\ u + s \in 0..n - 1 => ~(p < 0) /\ p # t*n /\ p \div n = a /\ p % n = u + s
      /\ Side3(s, u, n) /\ a + s \in 0..t - 1 =>
           ~(p < 0) /\ p # t*n /\ p \div n = a + s /\ p % n = Facing(s, u, n)
      /\ s = -1 /\ u = 0 /\ a = 0 => p < 0
      /\ s = 1 /\ u = n - 1 /\ a = t - 1 => p = t*n /\ ~(p < 0)
<1>4. \A a \in 0..t - 1, u \in 0..n - 1, s \in -1..1 : \A p : p = a*n + u + s => Went(a, u, s, p)
  BY AxisStep, ZenonT(40)
<1> HIDE DEF dir, g, l, Went
<1>5. Went(l.x, g.x, dir[1], x)
  <2>1. x = l.x*n + g.x + dir[1]
    BY DEF l, g, dir
  <2> QED
    BY <1>2, <1>3, <1>4, <2>1, Zenon
<1>6. Went(l.y, g.y, dir[2], y)
  <2>1. y = l.y*n + g.y + dir[2]
    BY DEF l, g, dir
  <2> QED
    BY <1>2, <1>3, <1>4, <2>1, Zenon
<1>7. Went(l.z, g.z, dir[3], z)
  <2>1. z = l.z*n + g.z + dir[3]
    BY DEF l, g, dir
  <2> QED
    BY <1>2, <1>3, <1>4, <2>1, Zenon
<1>8. ASSUME ~OnSide(dir, e, n)
      PROVE  In /\ ~Out /\ OwnerOf(x, y, z, t, n) = <<r, Point(g.x + dir[1], g.y + dir[2], g.z + dir[3], n)>>
  <2>1. g.x + dir[1] \in 0..n - 1 /\ g.y + dir[2] \in 0..n - 1 /\ g.z + dir[3] \in 0..n - 1
    <3>1. ~AtRim(Faces[i], e, n)
      BY <1>1, <1>8
    <3> DEFINE f == Faces[i]
    <3> HIDE DEF f
    <3>2. f \in ToSet(Faces) /\ dir = Towards[f] /\ ~AtRim(f, e, n)
      BY <1>1, <3>1 DEF f
    <3> QED
      BY <3>2, LinkInside DEF g
  <2>2. ~(x < 0) /\ x # t*n /\ x \div n = l.x /\ x % n = g.x + dir[1]
    BY <1>5, <2>1, Zenon DEF Went
  <2>3. ~(y < 0) /\ y # t*n /\ y \div n = l.y /\ y % n = g.y + dir[2]
    BY <1>6, <2>1, Zenon DEF Went
  <2>4. ~(z < 0) /\ z # t*n /\ z \div n = l.z /\ z % n = g.z + dir[3]
    BY <1>7, <2>1, Zenon DEF Went
  <2>5. OwnerOf(x, y, z, t, n)
          = <<Point(l.x, l.y, l.z, t), Point(g.x + dir[1], g.y + dir[2], g.z + dir[3], n)>>
    <3>1. x \in Int /\ y \in Int /\ z \in Int
      BY <1>5, <1>6, <1>7, Zenon DEF Went
    <3>2. OwnerWell(x, y, z, t, n)
      BY <3>1, OwnerIs
    <3> QED
      BY <2>2, <2>3, <2>4, <3>2, Zenon DEF OwnerWell
  <2> QED
    BY <1>3, <2>2, <2>3, <2>4, <2>5, Zenon
<1>9. HasNeighbour(r, t, dir) <=>
        l.x + dir[1] \in 0..t - 1 /\ l.y + dir[2] \in 0..t - 1 /\ l.z + dir[3] \in 0..t - 1
  BY <1>1, HasNeighbourIs DEF l
<1>10. OnSide(dir, e, n) <=>
         Side3(dir[1], g.x, n) /\ Side3(dir[2], g.y, n) /\ Side3(dir[3], g.z, n)
  BY Zenon DEF OnSide, g
<1>11. ASSUME OnSide(dir, e, n), HasNeighbour(r, t, dir)
       PROVE  In /\ ~Out /\ OwnerOf(x, y, z, t, n) = <<Neighbour(r, t, dir), Twin(dir, e, n)>>
  <2>1. /\ Side3(dir[1], g.x, n) /\ Side3(dir[2], g.y, n) /\ Side3(dir[3], g.z, n)
        /\ l.x + dir[1] \in 0..t - 1 /\ l.y + dir[2] \in 0..t - 1 /\ l.z + dir[3] \in 0..t - 1
    BY <1>9, <1>10, <1>11
  <2>2. ~(x < 0) /\ x # t*n /\ x \div n = l.x + dir[1] /\ x % n = Facing(dir[1], g.x, n)
    BY <1>5, <2>1, Zenon DEF Went
  <2>3. ~(y < 0) /\ y # t*n /\ y \div n = l.y + dir[2] /\ y % n = Facing(dir[2], g.y, n)
    BY <1>6, <2>1, Zenon DEF Went
  <2>4. ~(z < 0) /\ z # t*n /\ z \div n = l.z + dir[3] /\ z % n = Facing(dir[3], g.z, n)
    BY <1>7, <2>1, Zenon DEF Went
  <2>5. OwnerOf(x, y, z, t, n)
          = <<Point(l.x + dir[1], l.y + dir[2], l.z + dir[3], t),
              Point(Facing(dir[1], g.x, n), Facing(dir[2], g.y, n), Facing(dir[3], g.z, n), n)>>
    <3>1. x \in Int /\ y \in Int /\ z \in Int
      BY <1>5, <1>6, <1>7, Zenon DEF Went
    <3>2. OwnerWell(x, y, z, t, n)
      BY <3>1, OwnerIs
    <3> QED
      BY <2>2, <2>3, <2>4, <3>2, Zenon DEF OwnerWell
  <2>6. Point(l.x + dir[1], l.y + dir[2], l.z + dir[3], t) = Neighbour(r, t, dir)
    <3>1. l.x \in Int /\ l.y \in Int /\ l.z \in Int
      BY <1>3
    <3>2. Point(l.x + dir[1], l.y + dir[2], l.z + dir[3], t) = Neighbour(Point(l.x, l.y, l.z, t), t, dir)
      BY <1>1, <3>1, PointStep
    <3> QED
      BY <1>3, <3>2
  <2>7. Twin(dir, e, n) = Point(Facing(dir[1], g.x, n), Facing(dir[2], g.y, n), Facing(dir[3], g.z, n), n)
    BY Zenon DEF Twin, g
  <2> QED
    BY <2>2, <2>3, <2>4, <2>5, <2>6, <2>7, Zenon
<1>12. ASSUME OnSide(dir, e, n), ~HasNeighbour(r, t, dir)
       PROVE  IF dir[1] = -1 \/ dir[2] = -1 \/ dir[3] = -1 THEN ~In ELSE In /\ Out
  <2>0. \/ dir[1] = 0 /\ dir[2] = 0 /\ dir[3] # 0
        \/ dir[1] = 0 /\ dir[2] # 0 /\ dir[3] = 0
        \/ dir[1] # 0 /\ dir[2] = 0 /\ dir[3] = 0
    BY <1>1 DEF Shape
  <2>1. Side3(dir[1], g.x, n) /\ Side3(dir[2], g.y, n) /\ Side3(dir[3], g.z, n)
    BY <1>10, <1>12
  <2> DEFINE Ends(a, u, s, p) == /\ s = 0 => ~(p < 0) /\ p # t*n
                                 /\ a + s \notin 0..t - 1 =>
                                      (s = -1 /\ p < 0) \/ (s = 1 /\ p = t*n /\ ~(p < 0))
                                 /\ s = 0 => a + s \in 0..t - 1
  <2>2. \A a \in 0..t - 1, u \in 0..n - 1, s \in -1..1 : \A p :
          Side3(s, u, n) /\ Went(a, u, s, p) => Ends(a, u, s, p)
    <3> SUFFICES ASSUME NEW a \in 0..t - 1, NEW u \in 0..n - 1, NEW s \in -1..1, NEW p,
                        Side3(s, u, n), Went(a, u, s, p)
                 PROVE  Ends(a, u, s, p)
      OBVIOUS
    <3>1. s = 0 => ~(p < 0) /\ p # t*n /\ a + s \in 0..t - 1
      <4> SUFFICES ASSUME s = 0 PROVE ~(p < 0) /\ p # t*n /\ a + s \in 0..t - 1
        OBVIOUS
      <4>1. u + s \in 0..n - 1 /\ a + s \in 0..t - 1
        OBVIOUS
      <4> QED
        BY <4>1, Zenon DEF Went
    <3>2. ASSUME a + s \notin 0..t - 1 PROVE (s = -1 /\ p < 0) \/ (s = 1 /\ p = t*n /\ ~(p < 0))
      <4>1. (s = -1 /\ a = 0) \/ (s = 1 /\ a = t - 1)
        BY <3>2
      <4>2. (s = -1 => u = 0) /\ (s = 1 => u = n - 1)
        BY DEF Side3
      <4> QED
        BY <4>1, <4>2, Zenon DEF Went
    <3> QED
      BY <3>1, <3>2, Zenon
  <2> HIDE DEF Ends
  <2>3. Ends(l.x, g.x, dir[1], x) /\ Ends(l.y, g.y, dir[2], y) /\ Ends(l.z, g.z, dir[3], z)
    BY <1>2, <1>3, <1>5, <1>6, <1>7, <2>1, <2>2, Zenon
  <2>4. \/ l.x + dir[1] \notin 0..t - 1
        \/ l.y + dir[2] \notin 0..t - 1
        \/ l.z + dir[3] \notin 0..t - 1
    BY <1>9, <1>12
  <2> DEFINE a == l.x + dir[1] \in 0..t - 1
  <2> DEFINE b == l.y + dir[2] \in 0..t - 1
  <2> DEFINE c == l.z + dir[3] \in 0..t - 1
  <2>5. /\ dir[1] = 0 => ~(x < 0) /\ x # t*n /\ a
        /\ ~a => (dir[1] = -1 /\ x < 0) \/ (dir[1] = 1 /\ x = t*n /\ ~(x < 0))
        /\ dir[2] = 0 => ~(y < 0) /\ y # t*n /\ b
        /\ ~b => (dir[2] = -1 /\ y < 0) \/ (dir[2] = 1 /\ y = t*n /\ ~(y < 0))
        /\ dir[3] = 0 => ~(z < 0) /\ z # t*n /\ c
        /\ ~c => (dir[3] = -1 /\ z < 0) \/ (dir[3] = 1 /\ z = t*n /\ ~(z < 0))
    BY <2>3, Zenon DEF Ends
  <2>6. ~a \/ ~b \/ ~c
    BY <2>4
  <2> HIDE DEF a, b, c
  <2> DEFINE x0 == x < 0
  <2> DEFINE y0 == y < 0
  <2> DEFINE z0 == z < 0
  <2> DEFINE x1 == x = t*n
  <2> DEFINE y1 == y = t*n
  <2> DEFINE z1 == z = t*n
  <2>7. (In <=> ~(x0 \/ y0 \/ z0)) /\ (Out <=> x1 \/ y1 \/ z1)
    OBVIOUS
  <2>8. /\ dir[1] = 0 => ~x0 /\ a
        /\ ~a => (dir[1] = -1 /\ x0) \/ (dir[1] = 1 /\ x1 /\ ~x0)
        /\ dir[2] = 0 => ~y0 /\ b
        /\ ~b => (dir[2] = -1 /\ y0) \/ (dir[2] = 1 /\ y1 /\ ~y0)
        /\ dir[3] = 0 => ~z0 /\ c
        /\ ~c => (dir[3] = -1 /\ z0) \/ (dir[3] = 1 /\ z1 /\ ~z0)
    BY <2>5, Zenon
  <2> HIDE DEF In, Out, x0, y0, z0, x1, y1, z1
  <2> QED
    BY <1>2, <2>0, <2>6, <2>7, <2>8
<1> QED
  BY <1>8, <1>11, <1>12, Zenon DEF StepEnds, dir, g

(* The place of an element in the cube of all ranks, and what a gradient   *)
(* should be: the property's words, with its definitions at the top level. *)
HereOf(r, e, t, n) ==
  LET l == Loc(r, t)
  IN <<l.x*n + (e % n), l.y*n + ((e \div n) % n), l.z*n + (e \div (n*n))>>
ThereOf(r, e, i, t, n) == [a \in 1..3 |-> HereOf(r, e, t, n)[a] + Towards[Faces[i]][a]]
GradientWell(here, p, r, e, t, n) ==
  here = IF \E a \in 1..3 : p[a] < 0 THEN <<r, e>>
         ELSE IF \E a \in 1..3 : p[a] = t*n THEN <<"zero">>
         ELSE OwnerOf(p[1], p[2], p[3], t, n)

(* Once the ghosts are in place, every gradient is that of the element     *)
(* across the face, its own or zero.                                       *)
LEMMA GradientHolds ==
  ASSUME tp \in Nat \ {0}, nx \in Nat \ {0}, NEW r \in 0..Cube(tp) - 1,
         GhostsAs(field[r], r, tp, nx),
         NEW e \in 0..Cube(nx) - 1, NEW i \in 1..6,
         NEW box, box = Boundary(r, tp, nx, Connectivities(nx))
  PROVE  GradientWell(Gradient(r, Faces[i], e, box), ThereOf(r, e, i, tp, nx), r, e, tp, nx)
<1> DEFINE p == ThereOf(r, e, i, tp, nx)
<1> DEFINE here == Gradient(r, Faces[i], e, box)
<1> DEFINE dir == FaceDirs[i]
<1> DEFINE g == Digits(e, nx)
<1> DEFINE x == Digits(r, tp).x*nx + Digits(e, nx).x + FaceDirs[i][1]
<1> DEFINE y == Digits(r, tp).y*nx + Digits(e, nx).y + FaceDirs[i][2]
<1> DEFINE z == Digits(r, tp).z*nx + Digits(e, nx).z + FaceDirs[i][3]
<1>1. p[1] = x /\ p[2] = y /\ p[3] = z
  <2> DEFINE h == HereOf(r, e, tp, nx)
  <2> DEFINE d == Towards[Faces[i]]
  <2>1. d = FaceDirs[i]
    BY FaceDirsAre
  <2>2. /\ h[1] = Digits(r, tp).x*nx + Digits(e, nx).x
        /\ h[2] = Digits(r, tp).y*nx + Digits(e, nx).y
        /\ h[3] = Digits(r, tp).z*nx + Digits(e, nx).z
    BY Zenon DEF HereOf, Loc, Digits
  <2>3. p = [a \in 1..3 |-> h[a] + d[a]]
    BY DEF ThereOf
  <2> HIDE DEF h, d, p
  <2>4. p[1] = h[1] + d[1] /\ p[2] = h[2] + d[2] /\ p[3] = h[3] + d[3]
    BY <2>3
  <2> QED
    BY <2>1, <2>2, <2>4, Zenon
<1> DEFINE In == ~(x < 0 \/ y < 0 \/ z < 0)
<1> DEFINE Out == x = tp*nx \/ y = tp*nx \/ z = tp*nx
<1>2. /\ ~OnSide(dir, e, nx) =>
           /\ In /\ ~Out
           /\ OwnerOf(x, y, z, tp, nx)
                = <<r, Point(g.x + dir[1], g.y + dir[2], g.z + dir[3], nx)>>
      /\ OnSide(dir, e, nx) /\ HasNeighbour(r, tp, dir) =>
           In /\ ~Out /\ OwnerOf(x, y, z, tp, nx) = <<Neighbour(r, tp, dir), Twin(dir, e, nx)>>
      /\ OnSide(dir, e, nx) /\ ~HasNeighbour(r, tp, dir) =>
           IF dir[1] = -1 \/ dir[2] = -1 \/ dir[3] = -1 THEN ~In ELSE In /\ Out
  <2>1. /\ x = Digits(r, tp).x*nx + Digits(e, nx).x + FaceDirs[i][1]
        /\ y = Digits(r, tp).y*nx + Digits(e, nx).y + FaceDirs[i][2]
        /\ z = Digits(r, tp).z*nx + Digits(e, nx).z + FaceDirs[i][3]
    OBVIOUS
  <2> HIDE DEF x, y, z
  <2> QED
    <3>1. StepEnds(x, y, z, r, i, e, tp, nx)
      BY <2>1, StepLeads
    <3> QED
      BY <3>1, Zenon DEF StepEnds
<1>3. /\ ~OnSide(dir, e, nx) =>
           here = <<r, Point(g.x + dir[1], g.y + dir[2], g.z + dir[3], nx)>>
      /\ OnSide(dir, e, nx) /\ HasNeighbour(r, tp, dir) =>
           here = <<Neighbour(r, tp, dir), Twin(dir, e, nx)>>
      /\ OnSide(dir, e, nx) /\ ~HasNeighbour(r, tp, dir) =>
           here = IF dir[1] = -1 \/ dir[2] = -1 \/ dir[3] = -1 THEN <<r, e>> ELSE <<"zero">>
  <2>1. CrossReads(here, r, i, e, tp, nx)
    BY GradientIs
  <2> QED
    BY <2>1, Zenon DEF CrossReads
<1>4. /\ (\E a \in 1..3 : p[a] < 0) <=> ~In
      /\ (\E a \in 1..3 : p[a] = tp*nx) <=> Out
      /\ OwnerOf(p[1], p[2], p[3], tp, nx) = OwnerOf(x, y, z, tp, nx)
  <2>1. \A a \in 1..3 : a = 1 \/ a = 2 \/ a = 3
    OBVIOUS
  <2>2. 1 \in 1..3 /\ 2 \in 1..3 /\ 3 \in 1..3
    OBVIOUS
  <2> HIDE DEF p, x, y, z
  <2>3. (\E a \in 1..3 : p[a] < 0) <=> ~In
    BY <1>1, <2>1, <2>2, Zenon
  <2>4. (\E a \in 1..3 : p[a] = tp*nx) <=> Out
    BY <1>1, <2>1, <2>2, Zenon
  <2> QED
    BY <1>1, <2>3, <2>4, Zenon
<1> DEFINE low == \E a \in 1..3 : p[a] < 0
<1> DEFINE high == \E a \in 1..3 : p[a] = tp*nx
<1> DEFINE owner == OwnerOf(p[1], p[2], p[3], tp, nx)
<1> DEFINE side == OnSide(dir, e, nx)
<1> DEFINE met == HasNeighbour(r, tp, dir)
<1> DEFINE minus == dir[1] = -1 \/ dir[2] = -1 \/ dir[3] = -1
<1>5. /\ ~side => ~low /\ ~high /\ here = owner
      /\ side /\ met => ~low /\ ~high /\ here = owner
      /\ side /\ ~met => IF minus THEN low /\ here = <<r, e>> ELSE ~low /\ high /\ here = <<"zero">>
  <2> HIDE DEF x, y, z, p, here, dir, g
  <2>1. (low <=> ~In) /\ (high <=> Out) /\ owner = OwnerOf(x, y, z, tp, nx)
    BY <1>4, Zenon
  <2> HIDE DEF In, Out, low, high, owner
  <2> QED
    BY <1>2, <1>3, <2>1, Zenon
<1>6. here = IF low THEN <<r, e>> ELSE IF high THEN <<"zero">> ELSE owner
  <2> HIDE DEF here, low, high, owner, side, met, minus
  <2> QED
    BY <1>5, Zenon
<1> QED
  BY <1>6, Zenon DEF GradientWell

(* The whole of the property, when every rank has its ghosts.              *)
LEMMA AllGradients ==
  ASSUME tp \in Nat \ {0}, nx \in Nat \ {0}, \A r \in Ranks : GhostsAs(field[r], r, tp, nx)
  PROVE  GradientsOfNeighbours
<1> DEFINE Box(r) == Boundary(r, tp, nx, Connectivities(nx))
<1>1. ASSUME NEW r \in Ranks, NEW e \in 0..Cube(nx) - 1, NEW i \in 1..6
      PROVE  GradientWell(Gradient(r, Faces[i], e, Box(r)), ThereOf(r, e, i, tp, nx), r, e, tp, nx)
  <2>1. r \in 0..Cube(tp) - 1 /\ GhostsAs(field[r], r, tp, nx)
    BY DEF Ranks
  <2> DEFINE box == Box(r)
  <2>2. box = Boundary(r, tp, nx, Connectivities(nx))
    OBVIOUS
  <2> HIDE DEF box
  <2>3. GradientWell(Gradient(r, Faces[i], e, box), ThereOf(r, e, i, tp, nx), r, e, tp, nx)
    BY <2>1, <2>2, GradientHolds
  <2> QED
    BY <2>3 DEF box
<1> QED
  BY <1>1, Zenon DEF GradientsOfNeighbours, GradientWell, ThereOf, HereOf, OwnerOf

-----------------------------------------------------------------------------
(***************************************************************************)
(* The fields of all ranks as they unpack, and what they are at the end.   *)
(***************************************************************************)

(* What a rank has once it has unpacked; until then it has its own values. *)
FieldAs(f, r, k, t, n) ==
  /\ k \in {"mass", "force"} => SummedAs(f, r, t, n)
  /\ k = "posVel" => SyncedAs(f, r, t, n)
  /\ k = "monoQ" => GhostsAs(f, r, t, n)
FieldInv ==
  turn[1] \in {"Unpack", "done"} =>
    /\ field = [r \in Ranks |-> field[r]]
    /\ \A r \in Ranks :
         IF Made(turn, "Unpack", {"done"}, r)
         THEN FieldAs(field[r], r, kind, tp, nx) ELSE field[r] = OwnOf(r, kind, nx)

(* A rank's fields depend on the exchange and the geometry only, which no  *)
(* step changes.                                                           *)
LEMMA FieldStep ==
  ASSUME CommAssumption, CommIInv, FieldInv, NEW r \in Ranks, Turn("Unpack", r, "done"),
         NEW f, field' = [field EXCEPT ![r] = f], FieldAs(f, r, kind, tp, nx)
  PROVE  FieldInv'
<1>1. TurnInv
  BY DEF CommIInv
<1>2. /\ kind' = kind /\ tp' = tp /\ nx' = nx /\ Ranks' = Ranks /\ turn = <<"Unpack", r>>
      /\ \/ turn' = <<"Unpack", r + 1>> /\ \A q \in Ranks : q < r + 1 <=> (q < r \/ q = r)
         \/ turn' = <<"done", 0>> /\ \A q \in Ranks : q < r \/ q = r
  BY <1>1, TurnStep
<1>3. /\ field = [q \in Ranks |-> field[q]]
      /\ \A q \in Ranks :
           IF Made(turn, "Unpack", {"done"}, q)
           THEN FieldAs(field[q], q, kind, tp, nx) ELSE field[q] = OwnOf(q, kind, nx)
  BY <1>2 DEF FieldInv
<1>4. field' = [q \in Ranks |-> field'[q]]
  BY <1>3
<1>5. field'[r] = f /\ \A q \in Ranks : q # r => field'[q] = field[q]
  BY <1>3
<1>6. ASSUME NEW q \in Ranks
      PROVE  IF Made(turn', "Unpack", {"done"}, q)
             THEN FieldAs(field'[q], q, kind, tp, nx) ELSE field'[q] = OwnOf(q, kind, nx)
  <2>1. Made(turn', "Unpack", {"done"}, q) <=> (Made(turn, "Unpack", {"done"}, q) \/ q = r)
    BY <1>2 DEF Made
  <2>2. CASE q = r
    BY <1>5, <2>1, <2>2
  <2>3. CASE q # r
    BY <1>3, <1>5, <2>1, <2>3
  <2> QED
    BY <2>2, <2>3
<1> QED
  BY <1>2, <1>4, <1>6, Zenon DEF FieldInv

(* The rank that unpacks has sent and received, and still has its own      *)
(* values.                                                                 *)
LEMMA StillOwn ==
  ASSUME CommAssumption, CommIInv, FieldInv, NEW r \in Ranks, Turn("Unpack", r, "done")
  PROVE  Sent(r) /\ field[r] = OwnOf(r, kind, nx)
<1>1. TurnInv
  BY DEF CommIInv
<1>2. turn = <<"Unpack", r>> /\ tp \in Nat \ {0, 1} /\ Ranks = 0..Cube(tp) - 1
  BY <1>1, CommAssumption DEF Turn, TurnInv, Ranks
<1>3. r \in Int
  <2>1. Cube(tp) \in Nat \ {0}
    BY <1>2, RanksAre
  <2> QED
    BY <1>2, <2>1
<1>4. ~Made(turn, "Unpack", {"done"}, r) /\ turn[1] = "Unpack"
  BY <1>2, <1>3 DEF Made
<1>5. Sent(r)
  BY <1>4, SentIs
<1>6. field[r] = OwnOf(r, kind, nx)
  BY <1>4 DEF FieldInv
<1> QED
  BY <1>5, <1>6

(* The last CommSend leaves every rank its own values to unpack into.      *)
LEMMA FieldStarts ==
  ASSUME CommAssumption, CommIInv, NEW r \in Ranks, CommSend(r)
  PROVE  FieldInv'
<1>1. TurnInv /\ OwnInv /\ Turn("CommSend", r, "Unpack") /\ field' = field
  BY DEF CommIInv, CommSend
<1>2. /\ kind' = kind /\ tp' = tp /\ nx' = nx /\ Ranks' = Ranks /\ turn = <<"CommSend", r>>
      /\ turn' = <<"CommSend", r + 1>> \/ turn' = <<"Unpack", 0>>
  BY <1>1, TurnStep
<1>3. field = [q \in Ranks |-> OwnOf(q, kind, nx)]
  BY <1>1, <1>2, Zenon DEF OwnInv
<1>4. field' = [q \in Ranks |-> field'[q]] /\ \A q \in Ranks : field'[q] = OwnOf(q, kind, nx)
  BY <1>1, <1>3
<1>5. CASE turn' = <<"CommSend", r + 1>>
  BY <1>5 DEF FieldInv
<1>6. CASE turn' = <<"Unpack", 0>>
  <2>1. \A q \in Ranks : ~Made(turn', "Unpack", {"done"}, q)
    <3>1. tp \in Nat \ {0, 1} /\ Ranks = 0..Cube(tp) - 1
      BY <1>1, CommAssumption DEF TurnInv, Ranks
    <3>2. Cube(tp) \in Nat \ {0}
      BY <3>1, RanksAre
    <3>3. \A q \in Ranks : ~(q < 0)
      BY <3>1, <3>2
    <3> QED
      BY <1>6, <3>3 DEF Made
  <2> QED
    BY <1>2, <1>4, <2>1, Zenon DEF FieldInv
<1> QED
  BY <1>2, <1>5, <1>6

(* Each rank that has unpacked has the sums, the copies or the ghosts of   *)
(* all its messages; each that has not has still its own values.           *)
THEOREM FieldInductive == CommSpec => []FieldInv
<1>1. CommInit => FieldInv
  BY DEF CommInit, FieldInv
<1>2. CommIInv /\ FieldInv /\ [CommNext]_commVars => FieldInv'
  <2> SUFFICES ASSUME CommIInv, FieldInv, [CommNext]_commVars PROVE FieldInv'
    OBVIOUS
  <2>1. ASSUME NEW r \in Ranks, CommRecv(r) PROVE FieldInv'
    <3>1. TurnInv /\ Turn("CommRecv", r, "CommSend")
      BY <2>1 DEF CommIInv, CommRecv
    <3>2. turn' = <<"CommRecv", r + 1>> \/ turn' = <<"CommSend", 0>>
      BY <3>1, CommAssumption, TurnStep
    <3> QED
      BY <3>2 DEF FieldInv
  <2>2. ASSUME NEW r \in Ranks, CommSend(r) PROVE FieldInv'
    BY <2>2, CommAssumption, FieldStarts
  <2>3. ASSUME NEW r \in Ranks, UnpackNodes(r) PROVE FieldInv'
    <3>1. Turn("Unpack", r, "done") /\ kind # "monoQ"
      BY <2>3 DEF UnpackNodes
    <3>2. Sent(r) /\ field[r] = OwnOf(r, kind, nx)
      BY <3>1, CommAssumption, StillOwn
    <3>3. \E f : field' = [field EXCEPT ![r] = f] /\ FieldAs(f, r, kind, tp, nx)
      <4>1. CASE Summing
        <5>1. PICK f : field' = [field EXCEPT ![r] = f] /\ SummedAs(f, r, tp, nx)
          BY <2>3, <3>2, <4>1, SumDone
        <5>2. FieldAs(f, r, kind, tp, nx)
          BY <4>1, <5>1 DEF FieldAs, Summing
        <5> QED
          BY <5>1, <5>2
      <4>2. CASE ~Summing
        <5>1. kind = "posVel"
          <6>1. kind \in {"mass", "force", "posVel", "monoQ"}
            BY DEF CommIInv, TurnInv, Exchanges
          <6> QED
            BY <3>1, <4>2, <6>1 DEF Summing
        <5>2. PICK f : field' = [field EXCEPT ![r] = f] /\ SyncedAs(f, r, tp, nx)
          BY <2>3, <3>2, <5>1, SyncDone
        <5>3. FieldAs(f, r, kind, tp, nx)
          BY <5>1, <5>2 DEF FieldAs
        <5> QED
          BY <5>2, <5>3
      <4> QED
        BY <4>1, <4>2
    <3> QED
      BY <3>1, <3>3, CommAssumption, FieldStep
  <2>4. ASSUME NEW r \in Ranks, UnpackGhosts(r) PROVE FieldInv'
    <3>1. Turn("Unpack", r, "done") /\ kind = "monoQ"
      BY <2>4 DEF UnpackGhosts
    <3>2. Sent(r) /\ field[r] = OwnOf(r, kind, nx)
      BY <3>1, CommAssumption, StillOwn
    <3>3. PICK f : field' = [field EXCEPT ![r] = f] /\ GhostsAs(f, r, tp, nx)
      BY <2>4, <3>1, <3>2, GhostsDone
    <3>4. FieldAs(f, r, kind, tp, nx)
      BY <3>1, <3>3 DEF FieldAs
    <3> QED
      BY <3>1, <3>3, <3>4, CommAssumption, FieldStep
  <2>5. CASE UNCHANGED commVars
    BY <2>5, Zenon DEF commVars, FieldInv, Ranks
  <2> QED
    BY <2>1, <2>2, <2>3, <2>4, <2>5 DEF CommNext, CommDone
<1> QED
  BY <1>1, <1>2, CommInductive, PTL DEF CommSpec

(* After an exchange every copy of a node has summed each copy once, the   *)
(* two ranks that meet at a face agree, and every gradient is that of the  *)
(* element across the face.                                                *)
THEOREM FieldsAgreeHolds == CommSpec => []FieldsAgree
<1>1. CommIInv /\ FieldInv => FieldsAgree
  <2> SUFFICES ASSUME CommIInv, FieldInv PROVE FieldsAgree
    OBVIOUS
  <2>1. tp \in Nat \ {0} /\ nx \in Nat \ {0} /\ Ranks = 0..Cube(tp) - 1
    BY CommAssumption DEF CommIInv, TurnInv, Ranks
  <2>2. Done => \A r \in Ranks : FieldAs(field[r], r, kind, tp, nx)
    BY DEF Done, FieldInv, Made
  <2>3. SharedNodesSummed
    <3> SUFFICES ASSUME Done, Summing, NEW r \in Ranks, NEW m \in 0..Cube(nx + 1) - 1
                 PROVE  /\ ToSet(field[r][m]) = Copies(r, m)
                        /\ Len(field[r][m]) = Cardinality(Copies(r, m))
      BY Zenon DEF SharedNodesSummed
    <3>1. SummedAs(field[r], r, tp, nx)
      BY <2>2 DEF FieldAs, Summing
    <3> QED
      BY <2>1, <3>1, AllSummed
  <2>4. SharedFacesSynced
    <3> SUFFICES ASSUME Done, kind = "posVel", NEW r \in Ranks, NEW m \in 0..Cube(nx + 1) - 1,
                        Cardinality(Copies(r, m)) = 2
                 PROVE  /\ ToSet(field[r][m]) \subseteq Copies(r, m)
                        /\ \A c \in Copies(r, m) : field[c[1]][c[2]] = field[r][m]
      BY Zenon DEF SharedFacesSynced
    <3>1. AllSynced(field, tp, nx)
      BY <2>1, <2>2 DEF FieldAs, AllSynced
    <3>2. Copies(r, m) = CopiesOf(r, m, tp, nx)
      BY <2>1, Zenon DEF Copies, CopiesOf
    <3>3. r \in 0..Cube(tp) - 1 /\ Cardinality(CopiesOf(r, m, tp, nx)) = 2
      BY <2>1, <3>2
    <3>4. SettledAs(field, r, m, CopiesOf(r, m, tp, nx))
      BY <2>1, <3>1, <3>3, TwoSynced
    <3> QED
      BY <3>2, <3>4, Zenon DEF SettledAs
  <2>5. GradientsOfNeighbours
    <3>1. CASE Done /\ kind = "monoQ"
      <4>1. \A r \in Ranks : GhostsAs(field[r], r, tp, nx)
        BY <2>2, <3>1 DEF FieldAs
      <4> QED
        BY <2>1, <4>1, AllGradients
    <3>2. CASE ~(Done /\ kind = "monoQ")
      BY <3>2, Zenon DEF GradientsOfNeighbours
    <3> QED
      BY <3>1, <3>2
  <2> QED
    BY <2>3, <2>4, <2>5 DEF FieldsAgree
<1> QED
  BY <1>1, CommInductive, FieldInductive, PTL
=============================================================================
