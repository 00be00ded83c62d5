---------------------------- MODULE ServiceProofs ----------------------------
(***************************************************************************)
(* Proofs about the small parts of SYMBIOMON that MCService puts together, *)
(* for any values of their constants: what identifiers tell apart, what is *)
(* computed from samples, which providers RPCs lead to, and which handles  *)
(* are freed.  None reads what another keeps, so each has its own theorem. *)
(***************************************************************************)
EXTENDS MetricHandle, ProviderLifecycle, MetricId, SampleStatistics, DataLemmas, TLAPS

-----------------------------------------------------------------------------
(***************************************************************************)
(* MetricId.  A fold is followed through its partial results (FoldValue):  *)
(* the hash of the first k characters, and the identifier after k tags.    *)
(***************************************************************************)
Words == 0 .. 2^Width - 1

LEMMA WordSize == Width \in Nat /\ 2^Width \in Nat /\ 2^Width >= 8192
<1> DEFINE A == {n \in Nat : 2^(13 + n) >= 8192}
<1>1. 0 \in A
  <2>1. 2^13 = 8192 /\ 13 + 0 = 13
    BY SMT
  <2> QED
    BY <2>1
<1>2. ASSUME NEW n \in A \cap Nat PROVE n + 1 \in A
  <2>1. 13 + n \in Nat /\ 13 + (n + 1) = (13 + n) + 1
    OBVIOUS
  <2>2. 2^(13 + n) \in Nat /\ 2^((13 + n) + 1) = 2 * 2^(13 + n) /\ 2^(13 + n) >= 8192
    BY <2>1, PowerOfTwo
  <2>3. 2^(13 + (n + 1)) >= 8192
    BY <2>1, <2>2
  <2> QED
    BY <2>3
<1>3. Width \in Nat /\ Width - 13 \in Nat /\ 13 + (Width - 13) = Width
  BY WidthAssumption
<1>4. Width - 13 \in A
  <2>1. Nat \subseteq A
    <3> HIDE DEF A
    <3> QED
      BY <1>1, <1>2, NatClosed
  <2> HIDE DEF A
  <2> QED
    BY <1>3, <2>1
<1> QED
  BY <1>3, <1>4, PowerOfTwo

(* The hash, character by character. *)
LEMMA HashPartials ==
  ASSUME NEW s \in Strings
  PROVE  /\ Len(s) \in Nat /\ DOMAIN s = 1 .. Len(s)
         /\ \A i \in 1 .. Len(s) : s[i] \in Int /\ -128 <= s[i] /\ s[i] <= 127
         /\ \E part \in [0 .. Len(s) -> Words] :
              /\ part[0] = 5381 /\ part[Len(s)] = Hash(s)
              /\ \A k \in 1 .. Len(s) : part[k] = (part[k - 1] * 33 + s[k]) % 2^Width
<1> DEFINE n == Len(s)
<1> DEFINE b == 5381
<1> DEFINE M == 2^Width
<1> DEFINE G == [i \in 1 .. n |-> [x \in Words |-> (x * 33 + s[i]) % M]]
<1>1. /\ n \in Nat /\ DOMAIN s = 1 .. n
      /\ \A i \in 1 .. n : s[i] \in Int /\ -128 <= s[i] /\ s[i] <= 127
  <2>1. s \in Seq((-128 .. 127) \ {0})
    BY StringsAssumption
  <2>2. n \in Nat /\ DOMAIN s = 1 .. n
    BY <2>1, LenProperties
  <2>3. ASSUME NEW i \in 1 .. n PROVE s[i] \in Int /\ -128 <= s[i] /\ s[i] <= 127
    <3>1. \A c \in (-128 .. 127) \ {0} : c \in Int /\ -128 <= c /\ c <= 127
      OBVIOUS
    <3>2. s[i] \in (-128 .. 127) \ {0}
      BY <2>1, ElementOfSeq
    <3> QED
      BY <3>1, <3>2, Zenon
  <2> QED
    BY <2>2, <2>3
<1>2. M \in Nat /\ M >= 8192 /\ Words = 0 .. M - 1
  BY WordSize DEF Words
<1> HIDE DEF n, M
<1>3. b \in Words
  BY <1>2
<1> HIDE DEF b
<1>4. ASSUME NEW x \in Words, NEW i \in 1 .. n
      PROVE  (x * 33 + s[i]) % M \in Words /\ G[i][x] = (x * 33 + s[i]) % M
  <2>1. x * 33 + s[i] \in Int /\ M \in Nat \ {0}
    <3>1. x \in Int /\ s[i] \in Int
      BY <1>1, <1>2
    <3> QED
      BY <1>2, <3>1
  <2>2. (x * 33 + s[i]) % M \in 0 .. M - 1
    BY <2>1, DivMod
  <2>3. G[i][x] = (x * 33 + s[i]) % M
    BY <1>1
  <2> QED
    BY <1>2, <2>2, <2>3
<1>5. G \in [1 .. n -> [Words -> Words]]
  BY <1>4
<1> HIDE DEF G
<1> DEFINE Body(it) == [t \in SUBSET DOMAIN s |->
                          IF t = {} THEN b ELSE (it[t \ {Max(t)}] * 33 + s[Max(t)]) % M]
<1> DEFINE ch == CHOOSE it : it = Body(it)
<1>6. Hash(s) = ch[1 .. n]
  BY <1>1 DEF Hash, FoldLeft, MapThenFoldSet, M, b
<1>7. ASSUME NEW t \in SUBSET (1 .. n), t # {}
      PROVE  Max(t) \in 1 .. n /\ t \ {Max(t)} \in SUBSET (1 .. n)
  <2>1. Max(t) \in t
    BY <1>1, <1>7, MaxMember, Zenon
  <2> QED
    BY <2>1
<1>8. \E it : it = Body(it)
  <2>1. PICK it : Folds(it, n, Words, b, G)
    BY <1>1, <1>3, <1>5, FoldExists
  <2>2. ASSUME NEW t \in SUBSET (1 .. n), t # {}
        PROVE  G[Max(t)][it[t \ {Max(t)}]] = (it[t \ {Max(t)}] * 33 + s[Max(t)]) % M
    <3>1. Max(t) \in 1 .. n /\ it[t \ {Max(t)}] \in Words
      BY <1>7, <2>1, <2>2 DEF Folds
    <3> QED
      BY <1>4, <3>1
  <2>3. it = Body(it)
    BY <1>1, <2>1, <2>2, Zenon DEF Folds
  <2> QED
    BY <2>3
<1>9. ch = Body(ch)
  <2> HIDE DEF Body
  <2> QED
    BY <1>8
<1> HIDE DEF ch
<1>10. ch[{}] = b
  BY <1>9
<1>11. ASSUME NEW t \in SUBSET (1 .. n), t # {}, ch[t \ {Max(t)}] \in Words
       PROVE  ch[t] = G[Max(t)][ch[t \ {Max(t)}]]
  <2>1. ch[t] = (ch[t \ {Max(t)}] * 33 + s[Max(t)]) % M
    BY <1>1, <1>9, <1>11, Zenon
  <2> QED
    BY <1>4, <1>7, <1>11, <2>1
<1> HIDE DEF Body
<1>12. PICK part : Partials(part, n, Words, b, G, ch[1 .. n])
  BY <1>1, <1>3, <1>5, <1>10, <1>11, FoldValue
<1>13. \A k \in 1 .. n : part[k] = (part[k - 1] * 33 + s[k]) % M
  <2> SUFFICES ASSUME NEW k \in 1 .. n PROVE part[k] = (part[k - 1] * 33 + s[k]) % M
    OBVIOUS
  <2>1. k - 1 \in 0 .. n
    BY <1>1
  <2>2. part[k - 1] \in Words /\ part[k] = G[k][part[k - 1]]
    BY <1>12, <2>1 DEF Partials
  <2> QED
    BY <1>4, <2>2
<1> QED
  BY <1>1, <1>6, <1>12, <1>13 DEF Partials, n, M, b

LEMMA HashType ==
  ASSUME NEW s \in Strings
  PROVE  Hash(s) \in Words
<1>1. PICK part \in [0 .. Len(s) -> Words] : part[Len(s)] = Hash(s)
  BY HashPartials
<1>2. Len(s) \in 0 .. Len(s)
  BY HashPartials
<1> QED
  BY <1>1, <1>2

(* A step of the hash keeps words apart, and so does a different character. *)
LEMMA HashStep ==
  ASSUME NEW x \in Words, NEW y \in Words, NEW c \in Int, NEW d \in Int,
         -128 <= c, c <= 127, -128 <= d, d <= 127,
         (x * 33 + c) % 2^Width = (y * 33 + d) % 2^Width
  PROVE  /\ c = d => x = y
         /\ x = y => c = d
<1> DEFINE M == 2^Width
<1> DEFINE a == x * 33 + c
<1> DEFINE e == y * 33 + d
<1>1. M \in Nat \ {0} /\ M >= 8192 /\ Width \in Nat
  BY WordSize
<1>2. x \in 0 .. M - 1 /\ y \in 0 .. M - 1
  BY DEF Words
<1>3. a % M = e % M
  OBVIOUS
<1>4. a \in Int /\ e \in Int
  <2> HIDE DEF M
  <2> QED
    BY <1>1, <1>2
<1> HIDE DEF M
<1>5. PICK k \in Int : a - e = k * M
  <2> HIDE DEF a, e
  <2>1. a \div M \in Int /\ a % M \in 0 .. M - 1 /\ a = M * (a \div M) + (a % M)
    BY <1>1, <1>4, SMT
  <2>2. e \div M \in Int /\ e = M * (e \div M) + (e % M)
    BY <1>1, <1>4, SMT
  <2> DEFINE q == a \div M
  <2> DEFINE r == e \div M
  <2>3. /\ a = M * q + (a % M) /\ e = M * r + (a % M) /\ q \in Int /\ r \in Int
        /\ a % M \in Int
    BY <1>1, <1>3, <2>1, <2>2
  <2> HIDE DEF q, r
  <2>4. a - e = (q - r) * M /\ q - r \in Int
    BY <1>1, <2>3
  <2> QED
    BY <2>4
<1>6. ASSUME c = d PROVE x = y
  <2>1. 33 * (x - y) = k * M /\ x - y \in Int
    BY <1>1, <1>2, <1>5, <1>6
  <2>2. PICK j \in Int : x - y = j * M
    <3> DEFINE z == x - y
    <3>1. 33 * z = k * 2^Width /\ z \in Int /\ Width \in Nat
      BY <1>1, <2>1 DEF M
    <3> HIDE DEF z
    <3>2. \E j \in Int : z = j * 2^Width
      BY <3>1, ThirtyThree
    <3> QED
      BY <3>2 DEF z, M
  <2>3. j = 0
    <3>1. ~(j >= 1)
      <4> SUFFICES ASSUME j >= 1 PROVE FALSE
        OBVIOUS
      <4>1. j * M >= M
        BY <1>1
      <4> QED
        BY <1>1, <1>2, <2>2, <4>1
    <3>2. ~(j <= -1)
      <4> SUFFICES ASSUME j <= -1 PROVE FALSE
        OBVIOUS
      <4>1. j * M <= -M
        BY <1>1
      <4> QED
        BY <1>1, <1>2, <2>2, <4>1
    <3> QED
      BY <3>1, <3>2
  <2> QED
    BY <1>1, <1>2, <2>2, <2>3
<1>7. ASSUME x = y PROVE c = d
  <2>1. c - d = k * M
    BY <1>1, <1>2, <1>5, <1>7
  <2>2. k = 0
    <3>1. ~(k >= 1)
      <4> SUFFICES ASSUME k >= 1 PROVE FALSE
        OBVIOUS
      <4>1. k * M >= M
        BY <1>1
      <4> QED
        BY <1>1, <2>1, <4>1
    <3>2. ~(k <= -1)
      <4> SUFFICES ASSUME k <= -1 PROVE FALSE
        OBVIOUS
      <4>1. k * M <= -M
        BY <1>1
      <4> QED
        BY <1>1, <2>1, <4>1
    <3> QED
      BY <3>1, <3>2
  <2> QED
    BY <1>1, <2>1, <2>2
<1> QED
  BY <1>6, <1>7

(* Strings that differ in one place have different hashes: equal before it,
   different from it on. *)
LEMMA HashApart ==
  ASSUME NEW s \in Strings, NEW t \in Strings, OneApart(s, t)
  PROVE  Hash(s) # Hash(t)
<1> DEFINE n == Len(s)
<1>1. /\ n \in Nat /\ Len(t) = n /\ DOMAIN s = 1 .. n /\ DOMAIN t = 1 .. n
      /\ \A i \in 1 .. n : /\ s[i] \in Int /\ -128 <= s[i] /\ s[i] <= 127
                           /\ t[i] \in Int /\ -128 <= t[i] /\ t[i] <= 127
  BY HashPartials DEF OneApart
<1>2. PICK p \in [0 .. n -> Words] :
        /\ p[0] = 5381 /\ p[n] = Hash(s)
        /\ \A k \in 1 .. n : p[k] = (p[k - 1] * 33 + s[k]) % 2^Width
  BY SMTT(30), HashPartials
<1>3. PICK q \in [0 .. n -> Words] :
        /\ q[0] = 5381 /\ q[n] = Hash(t)
        /\ \A k \in 1 .. n : q[k] = (q[k - 1] * 33 + t[k]) % 2^Width
  <2>1. PICK q \in [0 .. Len(t) -> Words] :
          /\ q[0] = 5381 /\ q[Len(t)] = Hash(t)
          /\ \A k \in 1 .. Len(t) : q[k] = (q[k - 1] * 33 + t[k]) % 2^Width
    BY HashPartials
  <2> HIDE DEF n
  <2>2. q \in [0 .. n -> Words] /\ q[0] = 5381 /\ q[n] = Hash(t)
    BY <1>1, <2>1
  <2>3. \A k \in 1 .. n : q[k] = (q[k - 1] * 33 + t[k]) % 2^Width
    BY <1>1, <2>1
  <2> QED
    BY <2>2, <2>3
<1>4. p[0] = q[0]
  BY <1>2, <1>3
<1>5. PICK j : {i \in DOMAIN s : s[i] # t[i]} = {j}
  <2>1. IsFiniteSet(1 .. n)
    BY <1>1, FS_Interval
  <2>2. IsFiniteSet({i \in DOMAIN s : s[i] # t[i]})
    BY <1>1, <2>1, FS_Subset
  <2> QED
    BY <2>2, FS_Singleton DEF OneApart
<1>6. j \in 1 .. n /\ s[j] # t[j] /\ \A i \in 1 .. n : i # j => s[i] = t[i]
  BY <1>1, <1>5
<1> HIDE DEF n
<1> DEFINE A == {k \in Nat : k <= n => (k < j => p[k] = q[k]) /\ (k >= j => p[k] # q[k])}
<1>7. 0 \in A
  BY <1>4, <1>6
<1>8. ASSUME NEW k \in A \cap Nat PROVE k + 1 \in A
  <2> SUFFICES ASSUME k + 1 <= n
               PROVE  /\ k + 1 < j => p[k + 1] = q[k + 1]
                      /\ k + 1 >= j => p[k + 1] # q[k + 1]
    OBVIOUS
  <2>1. /\ k \in 0 .. n /\ k + 1 \in 1 .. n /\ (k + 1) - 1 = k
        /\ (k < j => p[k] = q[k]) /\ (k >= j => p[k] # q[k])
    BY <1>1
  <2>2. p[k] \in Words /\ q[k] \in Words
    BY <2>1
  <2>3. /\ p[k + 1] = (p[k] * 33 + s[k + 1]) % 2^Width
        /\ q[k + 1] = (q[k] * 33 + t[k + 1]) % 2^Width
    BY <1>2, <1>3, <2>1
  <2>4. /\ s[k + 1] \in Int /\ -128 <= s[k + 1] /\ s[k + 1] <= 127
        /\ t[k + 1] \in Int /\ -128 <= t[k + 1] /\ t[k + 1] <= 127
    BY <1>1, <2>1
  <2>5. p[k + 1] = q[k + 1] =>
          /\ s[k + 1] = t[k + 1] => p[k] = q[k]
          /\ p[k] = q[k] => s[k + 1] = t[k + 1]
    BY <2>2, <2>3, <2>4, HashStep
  <2>6. CASE k + 1 < j
    <3>1. s[k + 1] = t[k + 1] /\ p[k] = q[k]
      BY <1>6, <2>1, <2>6
    <3>2. p[k + 1] = q[k + 1]
      BY <2>3, <3>1
    <3> QED
      BY <1>6, <2>1, <2>6, <3>2
  <2>7. CASE k + 1 = j
    <3>1. s[k + 1] # t[k + 1] /\ p[k] = q[k]
      BY <1>6, <2>1, <2>7
    <3> QED
      BY <1>6, <2>1, <2>5, <2>7, <3>1
  <2>8. CASE k + 1 > j
    <3>1. s[k + 1] = t[k + 1] /\ p[k] # q[k]
      BY <1>6, <2>1, <2>8
    <3> QED
      BY <1>6, <2>1, <2>5, <2>8, <3>1
  <2> QED
    BY <1>6, <2>1, <2>6, <2>7, <2>8
<1>9. n \in A
  <2>1. Nat \subseteq A
    <3> HIDE DEF A
    <3> QED
      BY <1>7, <1>8, NatClosed
  <2> HIDE DEF A
  <2> QED
    BY <1>1, <2>1
<1>10. p[n] # q[n]
  BY <1>1, <1>6, <1>9
<1> QED
  BY <1>2, <1>3, <1>10

(* A word is its bits. *)
LEMMA BitsApart ==
  ASSUME NEW x \in Words, NEW y \in Words, Bits(x) = Bits(y)
  PROVE  x = y
<1>1. Width \in Nat /\ 2^Width \in Nat
  BY WordSize
<1>2. ASSUME NEW i \in 0 .. Width - 1 PROVE (x \div 2^i) % 2 = (y \div 2^i) % 2
  <2>1. 2^i \in Nat \ {0} /\ x \in Int /\ y \in Int
    BY <1>1, PowerOfTwo DEF Words
  <2>2. x \div 2^i \in Int /\ y \div 2^i \in Int
    BY <2>1, DivMod
  <2>3. (x \div 2^i) % 2 \in {0, 1} /\ (y \div 2^i) % 2 \in {0, 1}
    BY <2>2
  <2>4. (x \div 2^i) % 2 = 1 <=> (y \div 2^i) % 2 = 1
    BY DEF Bits
  <2> QED
    BY <2>3, <2>4
<1> QED
  BY <1>1, <1>2, SameBits DEF Words

(* The identifier, tag by tag. *)
LEMMA IdPartials ==
  ASSUME NEW ns \in Strings, NEW name \in Strings, NEW tags \in Taglists
  PROVE  LET base == Xor(Bits(Hash(ns)), Bits(Hash(name)))
             Word == SUBSET (0 .. Width - 1)
         IN
         /\ Len(tags) \in Nat /\ DOMAIN tags = 1 .. Len(tags)
         /\ \E part \in [0 .. Len(tags) -> Word] :
              /\ part[0] = base /\ part[Len(tags)] = Id(ns, name, tags)
              /\ \A k \in 1 .. Len(tags) : part[k] = Xor(part[k - 1], Bits(Hash(tags[k])))
<1> DEFINE n == Len(tags)
<1> DEFINE b == Xor(Bits(Hash(ns)), Bits(Hash(name)))
<1> DEFINE V == SUBSET (0 .. Width - 1)
<1> DEFINE bits(i) == Bits(Hash(tags[i]))
<1> DEFINE G == [i \in 1 .. n |-> [x \in V |-> Xor(x, bits(i))]]
<1>1. n \in Nat /\ DOMAIN tags = 1 .. n
  <2>1. tags \in Seq(Strings)
    BY StringsAssumption
  <2> QED
    BY <2>1, LenProperties
<1>2. ASSUME NEW x \in V, NEW w PROVE Xor(x, Bits(w)) \in V
  BY DEF Xor, Bits
<1>3. b \in V
  BY DEF Xor, Bits
<1> DEFINE Body(it) == [t \in SUBSET DOMAIN tags |->
                          IF t = {} THEN b ELSE Xor(it[t \ {Max(t)}], bits(Max(t)))]
<1> DEFINE ch == CHOOSE it : it = Body(it)
<1>4. Id(ns, name, tags) = ch[1 .. n]
  <2> HIDE DEF n
  <2> QED
    BY <1>1 DEF Id, FoldLeft, MapThenFoldSet
<1> HIDE DEF n, b, V
<1>5. ASSUME NEW x \in V, NEW i \in 1 .. n PROVE Xor(x, bits(i)) \in V /\ G[i][x] = Xor(x, bits(i))
  BY <1>2
<1> HIDE DEF bits
<1>6. G \in [1 .. n -> [V -> V]]
  BY <1>5
<1> HIDE DEF G
<1>7. ASSUME NEW t \in SUBSET (1 .. n), t # {}
      PROVE  Max(t) \in 1 .. n /\ t \ {Max(t)} \in SUBSET (1 .. n)
  <2>1. Max(t) \in t
    BY <1>1, <1>7, MaxMember, Zenon
  <2> QED
    BY <2>1
<1>8. \E it : it = Body(it)
  <2>1. PICK it : Folds(it, n, V, b, G)
    BY <1>1, <1>3, <1>6, FoldExists
  <2>2. ASSUME NEW t \in SUBSET (1 .. n), t # {}
        PROVE  G[Max(t)][it[t \ {Max(t)}]] = Xor(it[t \ {Max(t)}], bits(Max(t)))
    <3>1. Max(t) \in 1 .. n /\ it[t \ {Max(t)}] \in V
      BY <1>7, <2>1, <2>2 DEF Folds
    <3> QED
      BY <1>5, <3>1
  <2>3. it = Body(it)
    BY <1>1, <2>1, <2>2, Zenon DEF Folds
  <2> QED
    BY <2>3
<1>9. ch = Body(ch)
  <2> HIDE DEF Body
  <2> QED
    BY <1>8
<1> HIDE DEF ch
<1>10. ch[{}] = b
  BY <1>9
<1>11. ASSUME NEW t \in SUBSET (1 .. n), t # {}, ch[t \ {Max(t)}] \in V
       PROVE  ch[t] = G[Max(t)][ch[t \ {Max(t)}]]
  <2>1. ch[t] = Xor(ch[t \ {Max(t)}], bits(Max(t)))
    BY <1>1, <1>9, <1>11, Zenon
  <2> QED
    BY <1>5, <1>7, <1>11, <2>1
<1> HIDE DEF Body
<1>12. PICK part : Partials(part, n, V, b, G, ch[1 .. n])
  BY <1>1, <1>3, <1>6, <1>10, <1>11, FoldValue
<1>13. \A k \in 1 .. n : part[k] = Xor(part[k - 1], bits(k))
  <2> SUFFICES ASSUME NEW k \in 1 .. n PROVE part[k] = Xor(part[k - 1], bits(k))
    OBVIOUS
  <2>1. k - 1 \in 0 .. n
    BY <1>1
  <2>2. part[k - 1] \in V /\ part[k] = G[k][part[k - 1]]
    BY <1>12, <2>1 DEF Partials
  <2> QED
    BY <1>5, <2>2
<1> QED
  BY <1>1, <1>4, <1>12, <1>13 DEF Partials, n, b, V, bits

(* The places of the tags whose hash has a bit. *)
WithBit(tags, b, k) == {j \in 1 .. k : b \in Bits(Hash(tags[j]))}

(* A bit is set in the identifier when it is set in an odd number of hashes. *)
LEMMA IdBits ==
  ASSUME NEW ns \in Strings, NEW name \in Strings, NEW tags \in Taglists, NEW b
  PROVE  b \in Id(ns, name, tags) <=>
           ~(b \in Xor(Bits(Hash(ns)), Bits(Hash(name)))
              <=> Cardinality(WithBit(tags, b, Len(tags))) % 2 = 1)
<1> DEFINE base == Xor(Bits(Hash(ns)), Bits(Hash(name)))
<1> DEFINE n == Len(tags)
<1>1. n \in Nat
  BY IdPartials
<1>2. PICK part \in [0 .. n -> SUBSET (0 .. Width - 1)] :
        /\ part[0] = base /\ part[n] = Id(ns, name, tags)
        /\ \A k \in 1 .. n : part[k] = Xor(part[k - 1], Bits(Hash(tags[k])))
  BY ZenonT(40), IdPartials
<1> HIDE DEF base, n
<1> DEFINE odd(k) == Cardinality(WithBit(tags, b, k)) % 2 = 1
<1> DEFINE A == {k \in Nat : k <= n => (b \in part[k] <=> ~(b \in base <=> odd(k)))}
<1>3. ASSUME NEW k \in Nat PROVE IsFiniteSet(WithBit(tags, b, k)) /\ Cardinality(WithBit(tags, b, k)) \in Nat
  <2>1. WithBit(tags, b, k) \in SUBSET (1 .. k) /\ IsFiniteSet(1 .. k)
    BY FS_Interval DEF WithBit
  <2> QED
    BY <2>1, FS_Subset, FS_CardinalityType
<1>4. 0 \in A
  <2>1. WithBit(tags, b, 0) = {}
    BY DEF WithBit
  <2>2. ~odd(0)
    <3>1. Cardinality(WithBit(tags, b, 0)) = 0
      BY <2>1, FS_EmptySet
    <3>2. 0 % 2 # 1
      OBVIOUS
    <3> QED
      BY <3>1, <3>2
  <2> HIDE DEF odd
  <2> QED
    BY <1>2, <2>2
<1>5. ASSUME NEW k \in A \cap Nat PROVE k + 1 \in A
  <2> SUFFICES ASSUME k + 1 <= n PROVE b \in part[k + 1] <=> ~(b \in base <=> odd(k + 1))
    <3> HIDE DEF odd
    <3> QED
      OBVIOUS
  <2>1. k + 1 \in 1 .. n /\ (k + 1) - 1 = k /\ k <= n /\ k \in Nat
    BY <1>1
  <2>2. b \in part[k] <=> ~(b \in base <=> odd(k))
    <3> HIDE DEF odd
    <3> QED
      BY <2>1
  <2>3. b \in part[k + 1] <=> ~(b \in part[k] <=> b \in Bits(Hash(tags[k + 1])))
    <3>1. part[k + 1] = Xor(part[k], Bits(Hash(tags[k + 1])))
      BY <1>2, <2>1
    <3> QED
      BY <3>1 DEF Xor
  <2>4. odd(k + 1) <=> ~(odd(k) <=> b \in Bits(Hash(tags[k + 1])))
    <3>1. CASE b \in Bits(Hash(tags[k + 1]))
      <4>1. WithBit(tags, b, k + 1) = WithBit(tags, b, k) \cup {k + 1}
        BY <2>1, <3>1 DEF WithBit
      <4>2. k + 1 \notin WithBit(tags, b, k)
        BY <2>1 DEF WithBit
      <4>3. Cardinality(WithBit(tags, b, k + 1)) = Cardinality(WithBit(tags, b, k)) + 1
        BY <1>3, <2>1, <4>1, <4>2, FS_AddElement
      <4>4. odd(k + 1) <=> ~odd(k)
        <5> DEFINE c == Cardinality(WithBit(tags, b, k))
        <5>1. c \in Nat /\ Cardinality(WithBit(tags, b, k + 1)) = c + 1
          BY <1>3, <2>1, <4>3
        <5> HIDE DEF c
        <5>2. (c + 1) % 2 = 1 <=> ~(c % 2 = 1)
          BY <5>1
        <5> QED
          BY <5>1, <5>2 DEF c
      <4> HIDE DEF odd
      <4> QED
        BY <3>1, <4>4
    <3>2. CASE b \notin Bits(Hash(tags[k + 1]))
      <4>1. WithBit(tags, b, k + 1) = WithBit(tags, b, k)
        BY <2>1, <3>2 DEF WithBit
      <4>2. odd(k + 1) <=> odd(k)
        BY <4>1
      <4> HIDE DEF odd
      <4> QED
        BY <3>2, <4>2
    <3> QED
      BY <3>1, <3>2
  <2> HIDE DEF odd
  <2> QED
    BY <2>2, <2>3, <2>4
<1>6. n \in A
  <2>1. Nat \subseteq A
    <3> HIDE DEF A
    <3> QED
      BY <1>4, <1>5, NatClosed
  <2> HIDE DEF A
  <2> QED
    BY <1>1, <2>1
<1>7. b \in part[n] <=> ~(b \in base <=> odd(n))
  <2> HIDE DEF odd
  <2> QED
    BY <1>1, <1>6
<1> QED
  BY <1>2, <1>7 DEF base, n

(* The same tags in another order have as many hashes with a bit. *)
LEMMA SameTagsBits ==
  ASSUME NEW s \in Taglists, NEW t \in Taglists, SameTags(s, t), NEW b
  PROVE  Cardinality(WithBit(s, b, Len(s))) = Cardinality(WithBit(t, b, Len(t)))
<1> DEFINE S == WithBit(s, b, Len(s))
<1> DEFINE T == WithBit(t, b, Len(t))
<1>1. /\ Len(s) \in Nat /\ DOMAIN s = 1 .. Len(s)
      /\ Len(t) \in Nat /\ DOMAIN t = 1 .. Len(t)
  <2>1. s \in Seq(Strings) /\ t \in Seq(Strings)
    BY StringsAssumption
  <2> QED
    BY <2>1, LenProperties
<1>2. PICK p \in Bijection(DOMAIN s, DOMAIN t) : \A i \in DOMAIN s : s[i] = t[p[i]]
  BY DEF SameTags
<1>3. /\ S = {j \in DOMAIN s : b \in Bits(Hash(s[j]))}
      /\ T = {j \in DOMAIN t : b \in Bits(Hash(t[j]))}
  BY <1>1 DEF WithBit
<1>4. IsFiniteSet(S)
  <2>1. IsFiniteSet(1 .. Len(s)) /\ S \in SUBSET (1 .. Len(s))
    BY <1>1, FS_Interval DEF WithBit
  <2> QED
    BY <2>1, FS_Subset
<1> DEFINE f == [j \in S |-> p[j]]
<1>5. f \in Bijection(S, T)
  <2>1. /\ p \in [DOMAIN s -> DOMAIN t]
        /\ \A i, j \in DOMAIN s : p[i] = p[j] => i = j
        /\ \A j \in DOMAIN t : \E i \in DOMAIN s : p[i] = j
    BY <1>2 DEF Bijection, Injection, Surjection, IsInjective
  <2> HIDE DEF S, T
  <2>2. ASSUME NEW j \in S PROVE p[j] \in T
    BY <1>2, <1>3, <2>1
  <2>3. \A i, j \in S : f[i] = f[j] => i = j
    BY <1>3, <2>1
  <2>4. \A j \in T : \E i \in S : f[i] = j
    BY <1>2, <1>3, <2>1
  <2>5. f \in [S -> T]
    BY <2>2
  <2> HIDE DEF f
  <2> QED
    BY <2>3, <2>4, <2>5 DEF Bijection, Injection, Surjection, IsInjective
<1>6. ExistsBijection(S, T)
  BY <1>5 DEF ExistsBijection
<1> QED
  BY <1>4, <1>6, FS_Bijection

(* The strings of a descriptor, and the identifier they have. *)
LEMMA DescriptorFields ==
  ASSUME NEW d \in Descriptor
  PROVE  /\ d.ns \in Strings /\ d.name \in Strings /\ d.tags \in Taglists
         /\ d.id = Id(d.ns, d.name, d.tags)
  BY DEF Descriptor

(* With the same tags, identifiers agree exactly when namespace and name have
   the same exclusive or. *)
LEMMA IdsAgree ==
  ASSUME NEW d \in Descriptor, NEW e \in Descriptor, SameTags(d.tags, e.tags), NEW b
  PROVE  (b \in d.id <=> b \in e.id) <=>
           (b \in Xor(Bits(Hash(d.ns)), Bits(Hash(d.name)))
              <=> b \in Xor(Bits(Hash(e.ns)), Bits(Hash(e.name))))
<1>1. Cardinality(WithBit(d.tags, b, Len(d.tags))) = Cardinality(WithBit(e.tags, b, Len(e.tags)))
  BY DescriptorFields, SameTagsBits
<1> DEFINE odd == Cardinality(WithBit(d.tags, b, Len(d.tags))) % 2 = 1
<1> DEFINE dBase == b \in Xor(Bits(Hash(d.ns)), Bits(Hash(d.name)))
<1> DEFINE eBase == b \in Xor(Bits(Hash(e.ns)), Bits(Hash(e.name)))
<1>2. b \in d.id <=> ~(dBase <=> odd)
  BY DescriptorFields, IdBits
<1>3. b \in e.id <=> ~(eBase <=> odd)
  <2>1. b \in e.id <=> ~(eBase <=> Cardinality(WithBit(e.tags, b, Len(e.tags))) % 2 = 1)
    BY DescriptorFields, IdBits
  <2> QED
    BY <1>1, <2>1
<1> HIDE DEF odd, dBase, eBase
<1>4. (b \in d.id <=> b \in e.id) <=> (dBase <=> eBase)
  BY <1>2, <1>3
<1> QED
  BY <1>4 DEF dBase, eBase

LEMMA SameSameId ==
  ASSUME NEW d \in Descriptor, NEW e \in Descriptor, Same(d, e)
  PROVE  d.id = e.id
<1>1. d.ns = e.ns /\ d.name = e.name /\ SameTags(d.tags, e.tags)
  BY DEF Same
<1>2. \A b : b \in d.id <=> b \in e.id
  BY <1>1, IdsAgree
<1>3. d.id \in SUBSET (0 .. Width - 1) /\ e.id \in SUBSET (0 .. Width - 1)
  <2>1. ASSUME NEW c \in Descriptor PROVE c.id \in SUBSET (0 .. Width - 1)
    <3>1. c.ns \in Strings /\ c.name \in Strings /\ c.tags \in Taglists
          /\ c.id = Id(c.ns, c.name, c.tags)
      BY DescriptorFields
    <3>2. Len(c.tags) \in Nat
      BY <3>1, IdPartials
    <3>3. PICK part \in [0 .. Len(c.tags) -> SUBSET (0 .. Width - 1)] :
            part[Len(c.tags)] = Id(c.ns, c.name, c.tags)
      BY <3>1, IdPartials
    <3> QED
      BY <3>1, <3>2, <3>3
  <2> QED
    BY <2>1
<1> QED
  BY <1>2, <1>3

(* Names of one length that differ in one place, under one namespace and the
   same tags, have different identifiers. *)
LEMMA NumberedIds ==
  ASSUME NEW d \in Descriptor, NEW e \in Descriptor, d.ns = e.ns, SameTags(d.tags, e.tags),
         OneApart(d.name, e.name)
  PROVE  d.id # e.id
<1> SUFFICES ASSUME d.id = e.id PROVE FALSE
  OBVIOUS
<1>1. ASSUME NEW b PROVE b \in Bits(Hash(d.name)) <=> b \in Bits(Hash(e.name))
  <2>1. b \in Xor(Bits(Hash(d.ns)), Bits(Hash(d.name)))
          <=> b \in Xor(Bits(Hash(d.ns)), Bits(Hash(e.name)))
    BY IdsAgree
  <2> QED
    BY <2>1 DEF Xor
<1>2. Bits(Hash(d.name)) = Bits(Hash(e.name))
  <2>1. /\ Bits(Hash(d.name)) \in SUBSET (0 .. Width - 1)
        /\ Bits(Hash(e.name)) \in SUBSET (0 .. Width - 1)
    BY DEF Bits
  <2> QED
    BY <1>1, <2>1
<1>3. d.name \in Strings /\ e.name \in Strings
  BY DescriptorFields
<1>4. Hash(d.name) = Hash(e.name)
  BY <1>2, <1>3, HashType, BitsApart
<1> QED
  BY <1>3, <1>4, HashApart

(* Inductive: the answer is what the table holds under the identifier asked for. *)
IdIInv == IdTypeOK /\ OneAnswer /\ answer = Found(asked)

LEMMA IdIInvStep == IdIInv /\ [IdNext]_idVars => IdIInv'
<1> SUFFICES ASSUME IdIInv, [IdNext]_idVars PROVE IdIInv'
  OBVIOUS
<1> USE DEF IdIInv, IdTypeOK, OneAnswer, Found
<1>1. ASSUME NEW d \in Descriptor, CreateMetric(d) PROVE IdIInv'
  <2>1. CASE Found(d) # {} /\ answer' = Found(d) /\ UNCHANGED metrics
    BY <1>1, <2>1 DEF CreateMetric
  <2>2. CASE Found(d) = {} /\ metrics' = metrics \cup {d} /\ answer' = {d}
    BY <1>1, <2>2 DEF CreateMetric
  <2> QED
    BY <1>1, <2>1, <2>2 DEF CreateMetric
<1>2. ASSUME NEW d \in Descriptor, Lookup(d) PROVE IdIInv'
  BY <1>2 DEF Lookup
<1>3. CASE UNCHANGED idVars
  BY <1>3 DEF idVars
<1> QED
  BY <1>1, <1>2, <1>3 DEF IdNext

LEMMA IdIInvImplies == IdIInv => IdInv
<1> SUFFICES ASSUME IdIInv PROVE IdInv
  OBVIOUS
<1>1. metrics \subseteq Descriptor /\ asked \in Descriptor
  BY DEF IdIInv, IdTypeOK
<1>2. AnyTagOrder
  <2>1. ASSUME NEW d \in metrics, NEW e \in metrics, Same(d, e) PROVE d = e
    BY <1>1, <2>1, SameSameId DEF IdIInv, OneAnswer
  <2>2. ASSUME NEW d \in metrics, Same(d, asked) PROVE answer = {d}
    <3>1. d.id = asked.id
      BY <1>1, <2>2, SameSameId
    <3> QED
      BY <3>1 DEF IdIInv, OneAnswer, Found
  <2> QED
    BY <2>1, <2>2 DEF AnyTagOrder
<1>3. NumberedApart
  BY <1>1, NumberedIds DEF IdIInv, Found, NumberedApart
<1> QED
  BY <1>2, <1>3 DEF IdIInv, IdInv

(* What identifiers tell apart, for any strings, lists of tags and width of a
   word up to 32 bits: tags may be given in any order, one identifier leads to one
   metric, and names numbered in a digit are not taken for each other. *)
THEOREM IdInvHolds == IdSpec => []IdInv
<1>1. IdInit => IdIInv
  BY DEF IdInit, IdIInv, IdTypeOK, OneAnswer, Found
<1> QED
  BY <1>1, IdIInvStep, IdIInvImplies, PTL DEF IdSpec

-----------------------------------------------------------------------------
(***************************************************************************)
(* SampleStatistics.  Sums are followed through their partial sums, the    *)
(* extremes through SequenceMaxMin; what was computed stays true because   *)
(* the buffer only grows at its end (PrefixKept).                          *)
(***************************************************************************)
LEMMA SumPartials ==
  ASSUME NEW s \in Seq(Int)
  PROVE  /\ Len(s) \in Nat /\ DOMAIN s = 1 .. Len(s)
         /\ \E part \in [0 .. Len(s) -> Int] :
              /\ part[0] = 0 /\ part[Len(s)] = SumOf(s)
              /\ \A k \in 1 .. Len(s) : part[k] = part[k - 1] + s[k]
<1> DEFINE n == Len(s)
<1> DEFINE V == Int
<1> DEFINE b == 0
<1> DEFINE G == [i \in 1 .. n |-> [x \in V |-> x + s[i]]]
<1>1. n \in Nat /\ DOMAIN s = 1 .. n /\ \A i \in 1 .. n : s[i] \in V
  BY LenProperties, ElementOfSeq
<1> DEFINE Body(it) == [t \in SUBSET DOMAIN s |-> IF t = {} THEN b ELSE it[t \ {Max(t)}] + s[Max(t)]]
<1> DEFINE ch == CHOOSE it : it = Body(it)
<1>2. SumOf(s) = ch[1 .. n]
  <2> HIDE DEF n
  <2> QED
    BY <1>1 DEF SumOf, FoldLeft, MapThenFoldSet
<1> HIDE DEF n
<1>3. ASSUME NEW x \in V, NEW i \in 1 .. n PROVE x + s[i] \in V /\ G[i][x] = x + s[i]
  BY <1>1
<1>4. G \in [1 .. n -> [V -> V]]
  BY <1>3
<1>0. b \in V
  OBVIOUS
<1> HIDE DEF G, V, b
<1>5. ASSUME NEW t \in SUBSET (1 .. n), t # {}
      PROVE  Max(t) \in 1 .. n /\ t \ {Max(t)} \in SUBSET (1 .. n)
  <2>1. Max(t) \in t
    BY <1>1, <1>5, MaxMember, Zenon
  <2> QED
    BY <2>1
<1>6. \E it : it = Body(it)
  <2>1. PICK it : Folds(it, n, V, b, G)
    BY <1>0, <1>1, <1>4, FoldExists
  <2>2. ASSUME NEW t \in SUBSET (1 .. n), t # {}
        PROVE  G[Max(t)][it[t \ {Max(t)}]] = it[t \ {Max(t)}] + s[Max(t)]
    <3>1. Max(t) \in 1 .. n /\ it[t \ {Max(t)}] \in V
      BY <1>5, <2>1, <2>2 DEF Folds
    <3> QED
      BY <1>3, <3>1
  <2>3. it = Body(it)
    BY <1>1, <2>1, <2>2, Zenon DEF Folds
  <2> QED
    BY <2>3
<1>7. ch = Body(ch)
  <2> HIDE DEF Body
  <2> QED
    BY <1>6
<1> HIDE DEF ch
<1>8. ch[{}] = b
  BY <1>7
<1>9. ASSUME NEW t \in SUBSET (1 .. n), t # {}, ch[t \ {Max(t)}] \in V
      PROVE  ch[t] = G[Max(t)][ch[t \ {Max(t)}]]
  <2>1. ch[t] = ch[t \ {Max(t)}] + s[Max(t)]
    BY <1>1, <1>7, <1>9, Zenon
  <2> QED
    BY <1>3, <1>5, <1>9, <2>1
<1> HIDE DEF Body
<1>10. PICK part : Partials(part, n, V, b, G, ch[1 .. n])
  BY <1>0, <1>1, <1>4, <1>8, <1>9, FoldValue
<1>11. \A k \in 1 .. n : part[k] = part[k - 1] + s[k]
  <2> SUFFICES ASSUME NEW k \in 1 .. n PROVE part[k] = part[k - 1] + s[k]
    OBVIOUS
  <2>1. k - 1 \in 0 .. n
    BY <1>1
  <2>2. part[k - 1] \in V /\ part[k] = G[k][part[k - 1]]
    BY <1>10, <2>1 DEF Partials
  <2> QED
    BY <1>3, <2>2
<1> QED
  BY <1>1, <1>2, <1>10, <1>11 DEF Partials, n, V, b

(* A sum of numbers from lo to hi is from lo to hi times their number. *)
LEMMA SumBounds ==
  ASSUME NEW s \in Seq(Int), NEW lo \in Int, NEW hi \in Int,
         \A i \in 1 .. Len(s) : lo <= s[i] /\ s[i] <= hi
  PROVE  /\ SumOf(s) \in Int
         /\ lo * Len(s) <= SumOf(s) /\ SumOf(s) <= hi * Len(s)
<1> DEFINE n == Len(s)
<1>1. n \in Nat
  BY SumPartials
<1>2. PICK part \in [0 .. n -> Int] :
        /\ part[0] = 0 /\ part[n] = SumOf(s)
        /\ \A k \in 1 .. n : part[k] = part[k - 1] + s[k]
  BY SumPartials
<1>3. \A i \in 1 .. n : s[i] \in Int
  BY ElementOfSeq
<1> DEFINE A == {k \in Nat : k <= n => lo * k <= part[k] /\ part[k] <= hi * k}
<1>4. 0 \in A
  <2>1. lo * 0 = 0 /\ hi * 0 = 0
    OBVIOUS
  <2> QED
    BY <1>2, <2>1
<1> HIDE DEF n
<1>5. ASSUME NEW k \in A \cap Nat PROVE k + 1 \in A
  <2> SUFFICES ASSUME k + 1 <= n
               PROVE  lo * (k + 1) <= part[k + 1] /\ part[k + 1] <= hi * (k + 1)
    OBVIOUS
  <2>1. /\ k \in 0 .. n /\ k + 1 \in 1 .. n /\ (k + 1) - 1 = k
        /\ lo * k <= part[k] /\ part[k] <= hi * k
    BY <1>1
  <2>2. part[k + 1] = part[k] + s[k + 1] /\ part[k] \in Int
    BY <1>2, <2>1
  <2>3. s[k + 1] \in Int /\ lo <= s[k + 1] /\ s[k + 1] <= hi
    BY <1>3, <2>1 DEF n
  <2>4. lo * (k + 1) = lo * k + lo /\ hi * (k + 1) = hi * k + hi
    BY <2>1
  <2>5. lo * k \in Int /\ hi * k \in Int
    BY <2>1
  <2> QED
    BY SMTT(30), <2>1, <2>2, <2>3, <2>4, <2>5
<1>6. n \in A
  <2>1. Nat \subseteq A
    <3> HIDE DEF A
    <3> QED
      BY <1>4, <1>5, NatClosed
  <2> HIDE DEF A
  <2> QED
    BY <1>1, <2>1
<1>7. SumOf(s) \in Int /\ lo * n <= SumOf(s) /\ SumOf(s) <= hi * n
  <2>1. n \in 0 .. n
    BY <1>1
  <2> QED
    BY <1>1, <1>2, <1>6, <2>1
<1> QED
  BY <1>7 DEF n

(* A sum of natural numbers is at least each of them. *)
LEMMA SumNat ==
  ASSUME NEW s \in Seq(Int), \A i \in 1 .. Len(s) : s[i] >= 0
  PROVE  SumOf(s) \in Nat /\ \A i \in 1 .. Len(s) : s[i] <= SumOf(s)
<1> DEFINE n == Len(s)
<1>1. n \in Nat
  BY SumPartials
<1>2. PICK part \in [0 .. n -> Int] :
        /\ part[0] = 0 /\ part[n] = SumOf(s)
        /\ \A k \in 1 .. n : part[k] = part[k - 1] + s[k]
  BY SumPartials
<1>3. \A i \in 1 .. n : s[i] \in Int /\ s[i] >= 0
  BY ElementOfSeq
<1> HIDE DEF n
<1> DEFINE A == {k \in Nat : k <= n => part[k] >= 0 /\ \A i \in 1 .. k : s[i] <= part[k]}
<1>4. 0 \in A
  BY <1>2
<1>5. ASSUME NEW k \in A \cap Nat PROVE k + 1 \in A
  <2> SUFFICES ASSUME k + 1 <= n
               PROVE  part[k + 1] >= 0 /\ \A i \in 1 .. k + 1 : s[i] <= part[k + 1]
    OBVIOUS
  <2>1. /\ k \in 0 .. n /\ k + 1 \in 1 .. n /\ (k + 1) - 1 = k
        /\ part[k] >= 0 /\ \A i \in 1 .. k : s[i] <= part[k]
    BY <1>1
  <2>2. part[k + 1] = part[k] + s[k + 1] /\ part[k] \in Int
    BY <1>2, <2>1
  <2>3. s[k + 1] \in Int /\ s[k + 1] >= 0
    BY <1>3, <2>1
  <2>4. ASSUME NEW i \in 1 .. k + 1 PROVE s[i] <= part[k + 1]
    <3>1. CASE i = k + 1
      BY <2>1, <2>2, <2>3, <3>1
    <3>2. CASE i # k + 1
      <4>1. i \in 1 .. k /\ i \in 1 .. n
        BY <1>1, <2>1, <3>2
      <4>2. s[i] <= part[k] /\ s[i] \in Int
        BY <1>3, <2>1, <4>1
      <4> QED
        BY <2>2, <2>3, <4>2
    <3> QED
      BY <3>1, <3>2
  <2> QED
    BY <2>1, <2>2, <2>3, <2>4
<1>6. n \in A
  <2>1. Nat \subseteq A
    <3> HIDE DEF A
    <3> QED
      BY <1>4, <1>5, NatClosed
  <2> HIDE DEF A
  <2> QED
    BY <1>1, <2>1
<1>7. n \in 0 .. n
  BY <1>1
<1> QED
  BY <1>1, <1>2, <1>6, <1>7 DEF n

(* Things that are each in one of the boxes 0 to m, counted box by box. *)
LEMMA SumOfBoxes ==
  ASSUME NEW N \in Nat, NEW m \in Nat, NEW box \in [1 .. N -> 0 .. m]
  PROVE  LET counts == [k \in 1 .. m |-> Cardinality({i \in 1 .. N : box[i] = k - 1})]
             last == Cardinality({i \in 1 .. N : box[i] = m})
         IN  counts \in Seq(Nat) /\ last \in Nat /\ SumOf(counts) + last = N
<1> DEFINE In(k) == {i \in 1 .. N : box[i] = k}
<1> DEFINE Below(k) == {i \in 1 .. N : box[i] < k}
<1> DEFINE counts == [k \in 1 .. m |-> Cardinality(In(k - 1))]
<1>1. IsFiniteSet(1 .. N) /\ Cardinality(1 .. N) = N
  BY FS_Interval
<1>2. ASSUME NEW k \in Int
      PROVE  /\ IsFiniteSet(In(k)) /\ Cardinality(In(k)) \in Nat
             /\ IsFiniteSet(Below(k)) /\ Cardinality(Below(k)) \in Nat
  <2>1. In(k) \in SUBSET (1 .. N) /\ Below(k) \in SUBSET (1 .. N)
    OBVIOUS
  <2> HIDE DEF In, Below
  <2> QED
    BY <1>1, <2>1, FS_Subset, FS_CardinalityType
<1>3. ASSUME NEW k \in Int
      PROVE  Cardinality(Below(k + 1)) = Cardinality(Below(k)) + Cardinality(In(k))
  <2>1. Below(k + 1) = Below(k) \cup In(k)
    OBVIOUS
  <2>2. Below(k) \cap In(k) = {}
    OBVIOUS
  <2> HIDE DEF In, Below
  <2>3. Cardinality(Below(k) \cup In(k))
          = Cardinality(Below(k)) + Cardinality(In(k)) - Cardinality(Below(k) \cap In(k))
    BY <1>2, FS_Union
  <2>4. Cardinality(Below(k) \cap In(k)) = 0
    BY <2>2, FS_EmptySet
  <2>5. Cardinality(Below(k)) \in Nat /\ Cardinality(In(k)) \in Nat
    BY <1>2
  <2>6. Cardinality(Below(k + 1)) = Cardinality(Below(k)) + Cardinality(In(k)) - 0
    BY <2>1, <2>3, <2>4, Zenon
  <2> QED
    BY <2>5, <2>6
<1>4. Below(0) = {} /\ Below(m + 1) = 1 .. N
  <2>1. \A i \in 1 .. N : box[i] \in 0 .. m
    OBVIOUS
  <2> QED
    BY <2>1
<1> HIDE DEF In, Below
<1>5. counts \in Seq(Nat) /\ counts \in Seq(Int) /\ Len(counts) = m
  <2>1. ASSUME NEW k \in 1 .. m PROVE counts[k] \in Nat
    <3>1. k - 1 \in Int
      OBVIOUS
    <3> QED
      BY <1>2, <3>1
  <2>2. counts \in [1 .. m -> Nat] /\ counts \in [1 .. m -> Int]
    BY <2>1
  <2> HIDE DEF counts
  <2> QED
    BY <2>2, SeqDef
<1>6. PICK part \in [0 .. m -> Int] :
        /\ part[0] = 0 /\ part[m] = SumOf(counts)
        /\ \A k \in 1 .. m : part[k] = part[k - 1] + counts[k]
  <2> HIDE DEF counts
  <2>1. PICK part \in [0 .. Len(counts) -> Int] :
          /\ part[0] = 0 /\ part[Len(counts)] = SumOf(counts)
          /\ \A k \in 1 .. Len(counts) : part[k] = part[k - 1] + counts[k]
    BY <1>5, SumPartials
  <2>2. part \in [0 .. m -> Int] /\ part[0] = 0 /\ part[m] = SumOf(counts)
    BY <1>5, <2>1
  <2>3. \A k \in 1 .. m : part[k] = part[k - 1] + counts[k]
    BY <1>5, <2>1
  <2> QED
    BY <2>2, <2>3
<1> DEFINE A == {k \in Nat : k <= m => part[k] = Cardinality(Below(k))}
<1>7. 0 \in A
  <2>1. Cardinality(Below(0)) = 0
    BY <1>4, FS_EmptySet
  <2> QED
    BY <1>6, <2>1
<1>8. ASSUME NEW k \in A \cap Nat PROVE k + 1 \in A
  <2> SUFFICES ASSUME k + 1 <= m PROVE part[k + 1] = Cardinality(Below(k + 1))
    OBVIOUS
  <2>1. k \in Int /\ k + 1 \in 1 .. m /\ (k + 1) - 1 = k /\ part[k] = Cardinality(Below(k))
    OBVIOUS
  <2>2. part[k + 1] = part[k] + counts[k + 1]
    BY <1>6, <2>1
  <2>3. counts[k + 1] = Cardinality(In(k))
    BY <2>1
  <2> HIDE DEF counts
  <2> QED
    BY <1>3, <2>1, <2>2, <2>3
<1>9. SumOf(counts) = Cardinality(Below(m))
  <2>1. Nat \subseteq A
    <3> HIDE DEF A
    <3> QED
      BY <1>7, <1>8, NatClosed
  <2> HIDE DEF counts
  <2>2. m \in A
    <3> HIDE DEF A
    <3> QED
      BY <2>1
  <2> QED
    BY <1>6, <2>2
<1>10. Cardinality(Below(m + 1)) = N
  BY <1>1, <1>4
<1>11. SumOf(counts) + Cardinality(In(m)) = N
  <2> HIDE DEF counts
  <2>1. m \in Int
    OBVIOUS
  <2> QED
    BY <1>3, <1>9, <1>10, <2>1
<1>12. Cardinality(In(m)) \in Nat
  BY <1>2
<1> QED
  BY <1>5, <1>11, <1>12 DEF In

-----------------------------------------------------------------------------
(* The samples are numbers of units, smaller than the constants the loops
   start from. *)
LEMMA Samples ==
  ASSUME buffer \in Seq(Values)
  PROVE  /\ buffer \in Seq(Int) /\ Len(buffer) \in Nat /\ DOMAIN buffer = 1 .. Len(buffer)
         /\ \A i \in 1 .. Len(buffer) : /\ buffer[i] \in Values /\ buffer[i] \in Int
                                        /\ buffer[i] < Large /\ -Large < buffer[i]
         /\ ToSet(buffer) = {buffer[i] : i \in 1 .. Len(buffer)}
         /\ buffer # << >> => /\ Len(buffer) \in 1 .. Len(buffer)
                              /\ Last(buffer) = buffer[Len(buffer)]
<1>1. Len(buffer) \in Nat /\ DOMAIN buffer = 1 .. Len(buffer)
  BY LenProperties
<1>2. ASSUME NEW i \in 1 .. Len(buffer)
      PROVE  /\ buffer[i] \in Values /\ buffer[i] \in Int
             /\ buffer[i] < Large /\ -Large < buffer[i]
  <2>1. buffer[i] \in Values
    BY ElementOfSeq
  <2> QED
    BY <2>1, ValuesAssumption
<1>3. buffer \in Seq(Int)
  BY ValuesAssumption, SeqMonotonic
<1>4. ToSet(buffer) = {buffer[i] : i \in 1 .. Len(buffer)}
  BY <1>1 DEF ToSet
<1>5. buffer # << >> => Len(buffer) \in 1 .. Len(buffer)
  BY <1>1, EmptySeq
<1> QED
  BY <1>1, <1>2, <1>3, <1>4, <1>5 DEF Last

(* The extremes of the samples, from a constant beyond them all. *)
LEMMA Extremes ==
  ASSUME buffer \in Seq(Values), NEW from \in Int
  PROVE  /\ Largest(from, buffer) \in Int /\ Smallest(from, buffer) \in Int
         /\ Largest(from, buffer) \in ToSet(buffer) \cup {from}
         /\ Smallest(from, buffer) \in ToSet(buffer) \cup {from}
         /\ from <= Largest(from, buffer) /\ Smallest(from, buffer) <= from
         /\ \A i \in 1 .. Len(buffer) : /\ Smallest(from, buffer) <= buffer[i]
                                        /\ buffer[i] <= Largest(from, buffer)
<1>1. buffer \in Seq(Int) /\ ToSet(buffer) = {buffer[i] : i \in 1 .. Len(buffer)}
  BY Samples
<1> DEFINE T == ToSet(buffer) \cup {from}
<1>2. /\ T \in SUBSET Int
      /\ Max(T) \in T /\ \A x \in T : x <= Max(T)
      /\ Min(T) \in T /\ \A x \in T : Min(T) <= x
  BY <1>1, SequenceMaxMin
<1>3. from \in T /\ \A i \in 1 .. Len(buffer) : buffer[i] \in T
  BY <1>1
<1> HIDE DEF T
<1>4. Largest(from, buffer) = Max(T) /\ Smallest(from, buffer) = Min(T)
  BY DEF Largest, Smallest, T
<1> QED
  BY <1>2, <1>3, <1>4 DEF T

(* Where a sample falls in the histogram: behind the last bucket exactly when
   it is the largest, or when there is no bucket. *)
LEMMA BucketRange ==
  ASSUME NEW v \in Int, NEW lo \in Int, NEW hi \in Int, NEW n \in Nat,
         lo <= v, v <= hi, lo < hi
  PROVE  /\ Bucket(v, lo, hi, n) \in 0 .. n
         /\ Bucket(v, lo, hi, n) = n <=> (v = hi \/ n = 0)
<1> DEFINE a == v - lo
<1> DEFINE b == hi - lo
<1>1. a \in Nat /\ b \in Nat \ {0} /\ a <= b /\ (a = b <=> v = hi)
  OBVIOUS
<1>2. Bucket(v, lo, hi, n) = (a * n) \div b
  BY DEF Bucket
<1> HIDE DEF a, b
<1>3. CASE n = 0
  <2>1. a * n = 0 /\ 0 \div b = 0
    BY <1>1, <1>3, SMT
  <2> QED
    BY <1>2, <1>3, <2>1
<1>4. CASE n \in Nat \ {0}
  <2>1. (a * n) \div b \in 0 .. n
    BY <1>1, <1>4, SMT
  <2>2. (a * n) \div b = n => a = b
    BY <1>1, <1>4, SMT
  <2>3. a = b => (a * n) \div b = n
    <3>1. n \in Int /\ 0 \in 0 .. b - 1 /\ b * n \in Int /\ b * n = b * n + 0
      BY <1>1
    <3>2. (b * n) \div b = n
      BY <1>1, <3>1, DivModUnique
    <3> QED
      BY <3>2
  <2> QED
    BY <1>1, <1>2, <1>4, <2>1, <2>2, <2>3
<1> QED
  BY <1>3, <1>4

(* An outlier's distance is more than 3 * sd but sd is at least its square. *)
LEMMA OutlierNear ==
  ASSUME buffer \in Seq(Values), NEW i \in Outliers
  PROVE  /\ i \in 1 .. Len(buffer)
         /\ 3 * Deviation(i) < Len(buffer) * Scale
         /\ -(3 * Deviation(i)) < Len(buffer) * Scale
<1> DEFINE n == Len(buffer)
<1> DEFINE S == SumOf(buffer)
<1>1. /\ n \in Nat /\ DOMAIN buffer = 1 .. n /\ buffer \in Seq(Int)
      /\ \A j \in 1 .. n : buffer[j] \in Int
  BY Samples
<1>2. S \in Int
  <2>1. PICK part \in [0 .. n -> Int] : part[n] = S
    BY <1>1, SumPartials
  <2>2. n \in 0 .. n
    BY <1>1
  <2> QED
    BY <2>1, <2>2
<1>3. i \in 1 .. n
  BY <1>1 DEF Outliers
<1>4. \A j \in 1 .. n : Deviation(j) \in Int
  <2> SUFFICES ASSUME NEW j \in 1 .. n PROVE n * buffer[j] - S \in Int
    BY DEF Deviation
  <2>1. buffer[j] \in Int
    BY <1>1
  <2> HIDE DEF n, S
  <2> QED
    BY <1>1, <1>2, <2>1
<1> HIDE DEF n, S
<1> DEFINE squares == [j \in 1 .. n |-> Deviation(j) * Deviation(j)]
<1>5. /\ squares \in Seq(Int) /\ Len(squares) = n
      /\ \A j \in 1 .. n : squares[j] >= 0
  <2>1. \A x \in Int : x * x \in Int /\ x * x >= 0
    OBVIOUS
  <2>2. \A j \in 1 .. n : squares[j] \in Int /\ squares[j] >= 0
    BY <1>4, <2>1
  <2>3. squares \in [1 .. n -> Int]
    BY <2>2
  <2> HIDE DEF squares
  <2> QED
    BY <1>1, <2>2, <2>3, SeqDef
<1>6. Deviations \in Nat /\ Deviation(i) * Deviation(i) <= Deviations
  <2>1. Deviations = SumOf(squares)
    BY <1>1 DEF Deviations
  <2>2. squares[i] = Deviation(i) * Deviation(i)
    BY <1>3
  <2> HIDE DEF squares
  <2>3. SumOf(squares) \in Nat /\ \A j \in 1 .. Len(squares) : squares[j] <= SumOf(squares)
    BY <1>5, SumNat
  <2> QED
    BY <1>3, <1>5, <2>1, <2>2, <2>3
<1> DEFINE d == Deviation(i)
<1> DEFINE D == Deviations
<1>7. d * n * Scale < -(3 * D) \/ d * n * Scale > 3 * D
  BY DEF Outliers, n
<1>8. d \in Int /\ D \in Nat /\ d * d <= D /\ n \in Nat \ {0} /\ Scale \in Nat \ {0}
  BY <1>1, <1>3, <1>4, <1>6, UnitsAssumption
<1> HIDE DEF d, D
<1>9. d * n * Scale > 3 * D => 3 * d < n * Scale /\ -(3 * d) < n * Scale
  <2>1. ASSUME NEW e \in Int, NEW z \in Nat \ {0}, e * e <= D, e * z > 3 * D
        PROVE  3 * e < z /\ -(3 * e) < z
    BY <1>8, <2>1, SMT
  <2>2. n * Scale \in Nat \ {0} /\ d * n * Scale = d * (n * Scale)
    BY <1>8, SMT
  <2> QED
    BY <1>8, <2>1, <2>2
<1>10. d * n * Scale < -(3 * D) => 3 * d < n * Scale /\ -(3 * d) < n * Scale
  <2>1. ASSUME NEW e \in Int, NEW z \in Nat \ {0}, e * e <= D, e * z < -(3 * D)
        PROVE  3 * e < z /\ -(3 * e) < z
    BY <1>8, <2>1, SMT
  <2>2. n * Scale \in Nat \ {0} /\ d * n * Scale = d * (n * Scale)
    BY <1>8, SMT
  <2> QED
    BY <1>8, <2>1, <2>2
<1> QED
  BY <1>3, <1>7, <1>9, <1>10 DEF n, d

-----------------------------------------------------------------------------
(* What the values of a reduction are, and that nothing refers past the end of
   the buffer. *)
ValuesTyped ==
  /\ reduced.SUM \in Int /\ reduced.MIN \in Int /\ reduced.MAX \in Int
  /\ reduced.BATCHED \in Int
  /\ reduced.ANOMALY \subseteq 1 .. reduced.at

StatIInv == StatInv /\ ValuesTyped

LEMMA StatInitInv == StatInit => StatIInv
<1> SUFFICES ASSUME StatInit PROVE StatIInv
  OBVIOUS
<1>1. Len(buffer) = 0 /\ DOMAIN buffer = {} /\ buffer \in Seq(Values)
  BY EmptySeq DEF StatInit
<1>2. StatTypeOK
  BY <1>1, EmptySeq, UnitsAssumption DEF StatInit, NoHist, NoValues, StatTypeOK
<1>3. GaugeExtremes /\ BatchedAgrees /\ AnomaliesNear /\ OnlyLargestOverflows /\ UndefinedOnlyIfEqual
  BY DEF StatInit, NoHist, NoValues, GaugeExtremes, BatchedAgrees, AnomaliesNear,
         OnlyLargestOverflows, UndefinedOnlyIfEqual
<1>4. ValuesTyped
  BY <1>1 DEF StatInit, NoValues, ValuesTyped
<1> QED
  BY <1>2, <1>3, <1>4 DEF StatIInv, StatInv

LEMMA StatUpdate ==
  ASSUME StatIInv, NEW v \in Values, Update(v)
  PROVE  StatIInv'
<1> USE DEF StatIInv, StatInv
<1>1. /\ buffer' = Append(buffer, v) /\ UNCHANGED <<type, hist, reduced, up>>
      /\ up /\ Len(buffer) < MaxSamples
  BY DEF Update
<1>2. /\ buffer \in Seq(Values) /\ Len(buffer) \in Nat
      /\ hist.at \in 0 .. Len(buffer) /\ reduced.at \in 0 .. Len(buffer)
  BY Samples DEF StatTypeOK
<1>3. /\ buffer' \in Seq(Values) /\ Len(buffer') = Len(buffer) + 1
      /\ DOMAIN buffer' = 1 .. Len(buffer) + 1
      /\ \A i \in 1 .. Len(buffer) : buffer'[i] = buffer[i]
      /\ buffer'[Len(buffer) + 1] = v
  BY <1>1, <1>2, AppendProperties, LenProperties
<1>4. Dumped' = Dumped /\ Reduced' = Reduced
  BY <1>1, <1>2, PrefixKept DEF Dumped, Reduced
<1>5. StatTypeOK'
  <2>1. /\ Len(buffer') <= MaxSamples
        /\ hist.at \in 0 .. Len(buffer') /\ reduced.at \in 0 .. Len(buffer')
    BY <1>1, <1>2, <1>3, UnitsAssumption
  <2> QED
    BY <1>1, <1>3, <2>1 DEF StatTypeOK
<1>6. GaugeExtremes' /\ BatchedAgrees' /\ AnomaliesNear' /\ OnlyLargestOverflows'
  BY <1>1, <1>4 DEF GaugeExtremes, BatchedAgrees, AnomaliesNear, OnlyLargestOverflows
<1>7. UndefinedOnlyIfEqual'
  BY <1>1 DEF UndefinedOnlyIfEqual
<1>8. ValuesTyped'
  BY <1>1 DEF ValuesTyped
<1> QED
  BY <1>5, <1>6, <1>7, <1>8

LEMMA StatDump ==
  ASSUME StatIInv, NEW n \in Buckets, DumpHistogram(n)
  PROVE  StatIInv'
<1> DEFINE lo == Smallest(Large * 1000, buffer)
<1> DEFINE hi == Largest(0, buffer)
<1> DEFINE N == Len(buffer)
<1> DEFINE box == [i \in 1 .. N |-> Bucket(buffer[i], lo, hi, n)]
<1> USE DEF StatIInv, StatInv
<1>1. /\ buffer \in Seq(Values) /\ N \in Nat /\ DOMAIN buffer = 1 .. N
      /\ buffer # << >> => N \in 1 .. N
      /\ up /\ UNCHANGED <<type, buffer, reduced>>
      /\ \A i \in 1 .. N : buffer[i] \in Int
      /\ n \in Nat
  BY Samples, BucketsAssumption DEF StatTypeOK, DumpHistogram
<1>2. /\ lo \in Int /\ hi \in Int /\ 0 <= hi
      /\ \A i \in 1 .. N : lo <= buffer[i] /\ buffer[i] <= hi
  <2>1. Large * 1000 \in Int /\ 0 \in Int
    BY UnitsAssumption
  <2> QED
    BY <1>1, <2>1, Extremes
<1>3. GaugeExtremes' /\ BatchedAgrees' /\ AnomaliesNear' /\ ValuesTyped'
  BY <1>1 DEF GaugeExtremes, BatchedAgrees, AnomaliesNear, ValuesTyped, Reduced
<1>4. CASE buffer # << >> /\ hi = lo /\ up' = FALSE /\ UNCHANGED hist
  <2> HIDE DEF lo, hi, N
  <2>1. \A i \in 1 .. N : buffer[i] = hi
    BY <1>1, <1>2, <1>4
  <2>2. 1 \in 1 .. N
    BY <1>1, <1>4
  <2>3. UndefinedOnlyIfEqual'
    BY <1>1, <1>2, <2>1, <2>2 DEF UndefinedOnlyIfEqual
  <2>4. StatTypeOK' /\ OnlyLargestOverflows'
    BY <1>1, <1>4 DEF StatTypeOK, OnlyLargestOverflows, Dumped
  <2> QED
    BY <1>3, <2>3, <2>4
<1>5. CASE /\ hi > lo \/ buffer = << >>
           /\ UNCHANGED up
           /\ hist' = [at |-> N, lo |-> lo, hi |-> hi,
                       counts |-> [k \in 1 .. n |->
                          Cardinality({i \in DOMAIN buffer : Bucket(buffer[i], lo, hi, n) = k - 1})],
                       over |-> Cardinality({i \in DOMAIN buffer : Bucket(buffer[i], lo, hi, n) = n})]
  <2> DEFINE counts == [k \in 1 .. n |-> Cardinality({i \in 1 .. N : box[i] = k - 1})]
  <2> DEFINE last == Cardinality({i \in 1 .. N : box[i] = n})
  <2> HIDE DEF lo, hi, N
  <2>1. \A i \in 1 .. N : /\ Bucket(buffer[i], lo, hi, n) \in 0 .. n
                          /\ Bucket(buffer[i], lo, hi, n) = n <=> (buffer[i] = hi \/ n = 0)
    <3> SUFFICES ASSUME NEW i \in 1 .. N
                 PROVE  /\ Bucket(buffer[i], lo, hi, n) \in 0 .. n
                        /\ Bucket(buffer[i], lo, hi, n) = n <=> (buffer[i] = hi \/ n = 0)
      OBVIOUS
    <3>0. buffer # << >>
      BY <1>1, EmptySeq DEF N
    <3>1. /\ buffer[i] \in Int /\ lo \in Int /\ hi \in Int /\ n \in Nat
          /\ lo <= buffer[i] /\ buffer[i] <= hi /\ lo < hi
      BY <1>1, <1>2, <1>5, <3>0
    <3> DEFINE v == buffer[i]
    <3>2. v \in Int /\ lo <= v /\ v <= hi
      BY <3>1
    <3> HIDE DEF v
    <3>3. Bucket(v, lo, hi, n) \in 0 .. n
      BY <3>1, <3>2, BucketRange
    <3>4. Bucket(v, lo, hi, n) = n <=> (v = hi \/ n = 0)
      BY <3>1, <3>2, BucketRange
    <3> QED
      BY <3>3, <3>4 DEF v
  <2>2. box \in [1 .. N -> 0 .. n] /\ \A i \in 1 .. N : box[i] = Bucket(buffer[i], lo, hi, n)
    BY <2>1
  <2>3. hist' = [at |-> N, lo |-> lo, hi |-> hi, counts |-> counts, over |-> last]
    <3>1. \A k \in Int : {i \in DOMAIN buffer : Bucket(buffer[i], lo, hi, n) = k}
                          = {i \in 1 .. N : box[i] = k}
      BY <1>1, <2>2
    <3> HIDE DEF box
    <3>2. n \in Int /\ \A k \in 1 .. n : k - 1 \in Int
      BY <1>1
    <3>3. [k \in 1 .. n |-> Cardinality({i \in DOMAIN buffer : Bucket(buffer[i], lo, hi, n) = k - 1})]
            = counts
      BY <3>1, <3>2
    <3>4. Cardinality({i \in DOMAIN buffer : Bucket(buffer[i], lo, hi, n) = n}) = last
      BY <3>1, <3>2
    <3> QED
      BY <1>5, <3>3, <3>4
  <2>4. {i \in 1 .. N : box[i] = n} = IF n = 0 THEN 1 .. N ELSE {i \in 1 .. N : buffer[i] = hi}
    BY <2>1, <2>2
  <2>5. counts \in Seq(Nat) /\ last \in Nat /\ SumOf(counts) + last = N
    <3> HIDE DEF box
    <3> QED
      BY <1>1, <2>2, SumOfBoxes
  <2>6. last = IF n = 0 THEN N ELSE Cardinality({i \in 1 .. N : buffer[i] = hi})
    <3>1. Cardinality(1 .. N) = N
      BY <1>1, FS_Interval
    <3> HIDE DEF box
    <3> QED
      BY <2>4, <3>1
  <2>7. counts = << >> <=> n = 0
    <3>1. DOMAIN counts = 1 .. n
      OBVIOUS
    <3> HIDE DEF counts
    <3> QED
      BY <1>1, <2>5, <3>1, EmptySeq, LenProperties
  <2> HIDE DEF box, counts, last
  <2>8. Dumped' = buffer
    <3>1. SubSeq(buffer, 1, N) = buffer
      BY <1>1, PrefixKept DEF N
    <3> QED
      BY <1>1, <2>3, <3>1 DEF Dumped
  <2>9. OnlyLargestOverflows'
    BY <1>1, <2>3, <2>5, <2>6, <2>7, <2>8 DEF OnlyLargestOverflows
  <2>10. StatTypeOK'
    <3>1. /\ hist'.lo \in Int /\ hist'.hi \in Int /\ hist'.over \in Nat
          /\ hist'.counts \in Seq(Nat) /\ hist'.at = N /\ N \in 0 .. N
      BY <1>1, <1>2, <2>3, <2>5
    <3>2. N = Len(buffer')
      BY <1>1 DEF N
    <3> QED
      BY <1>1, <1>5, <3>1, <3>2 DEF StatTypeOK
  <2>11. UndefinedOnlyIfEqual'
    BY <1>1, <1>5 DEF UndefinedOnlyIfEqual
  <2> QED
    BY <1>3, <2>9, <2>10, <2>11
<1> QED
  BY ZenonT(40), <1>4, <1>5 DEF DumpHistogram

LEMMA StatReduce ==
  ASSUME StatIInv, Reduce
  PROVE  StatIInv'
<1> DEFINE N == Len(buffer)
<1> USE DEF StatIInv, StatInv
<1>1. /\ buffer \in Seq(Values) /\ N \in Nat /\ DOMAIN buffer = 1 .. N /\ N \in 1 .. N
      /\ up /\ buffer # << >> /\ UNCHANGED <<type, buffer, hist, up>>
      /\ buffer \in Seq(Int) /\ ToSet(buffer) = {buffer[i] : i \in 1 .. N}
      /\ Last(buffer) = buffer[N]
  BY Samples DEF StatTypeOK, Reduce
<1>2. \A i \in 1 .. N : buffer[i] \in Int /\ buffer[i] < Large /\ -Large < buffer[i]
  BY <1>1, Samples
<1>3. /\ Smallest(Large, buffer) \in ToSet(buffer) /\ Largest(-Large, buffer) \in ToSet(buffer)
      /\ Smallest(Large, buffer) \in Int /\ Largest(-Large, buffer) \in Int
      /\ \A i \in 1 .. N : /\ Smallest(Large, buffer) <= buffer[i]
                           /\ buffer[i] <= Largest(-Large, buffer)
  <2>1. Large \in Int /\ -Large \in Int
    BY UnitsAssumption
  <2>2. /\ Smallest(Large, buffer) \in ToSet(buffer) \cup {Large}
        /\ Largest(-Large, buffer) \in ToSet(buffer) \cup {-Large}
        /\ Smallest(Large, buffer) \in Int /\ Largest(-Large, buffer) \in Int
        /\ \A i \in 1 .. N : Smallest(Large, buffer) <= buffer[i]
        /\ \A i \in 1 .. N : buffer[i] <= Largest(-Large, buffer)
    BY <1>1, <2>1, Extremes
  <2>3. Smallest(Large, buffer) # Large /\ Largest(-Large, buffer) # -Large
    <3>1. Smallest(Large, buffer) <= buffer[N] /\ buffer[N] <= Largest(-Large, buffer)
      BY <1>1, <2>2
    <3> QED
      BY <1>1, <1>2, <2>1, <2>2, <3>1
  <2> QED
    BY <2>2, <2>3
<1>4. /\ Minimum \in Int /\ Maximum \in Int
      /\ type = "GAUGE" => Minimum = Smallest(Large, buffer) /\ Maximum = Largest(-Large, buffer)
      /\ type # "GAUGE" => Maximum = buffer[N]
  BY <1>1, <1>2, <1>3 DEF Minimum, Maximum, Newest
<1>5. /\ reduced' = [at |-> N, SUM |-> SumOf(buffer), MIN |-> Minimum, MAX |-> Maximum,
                     BATCHED |-> Largest(-Large, buffer), ANOMALY |-> Outliers]
  BY DEF Reduce, BatchedMaximum
<1>6. Reduced' = buffer
  <2>1. SubSeq(buffer, 1, N) = buffer
    BY <1>1, PrefixKept
  <2> QED
    BY <1>1, <1>5, <2>1 DEF Reduced
<1>7. SumOf(buffer) \in Int
  <2>1. \A i \in 1 .. N : Smallest(Large, buffer) <= buffer[i] /\ buffer[i] <= Largest(-Large, buffer)
    BY <1>3
  <2> QED
    BY <1>1, <1>3, <2>1, SumBounds
<1>8. GaugeExtremes'
  <2> SUFFICES ASSUME type = "GAUGE"
               PROVE  /\ Minimum \in ToSet(buffer) /\ Maximum \in ToSet(buffer)
                      /\ \A i \in DOMAIN buffer : Minimum <= buffer[i] /\ buffer[i] <= Maximum
                      /\ Minimum * N <= SumOf(buffer) /\ SumOf(buffer) <= Maximum * N
    BY <1>1, <1>5, <1>6 DEF GaugeExtremes
  <2>1. \A i \in 1 .. N : Minimum <= buffer[i] /\ buffer[i] <= Maximum
    BY <1>3, <1>4
  <2>2. Minimum * N <= SumOf(buffer) /\ SumOf(buffer) <= Maximum * N
    BY <1>1, <1>4, <2>1, SumBounds
  <2> QED
    BY <1>1, <1>3, <1>4, <2>1, <2>2
<1>9. BatchedAgrees'
  <2>1. type = "GAUGE" => Largest(-Large, buffer) = Maximum
    BY <1>4
  <2>2. Largest(-Large, buffer) >= Maximum
    BY <1>1, <1>2, <1>3, <1>4
  <2> QED
    BY <1>1, <1>5, <2>1, <2>2 DEF BatchedAgrees
<1>10. AnomaliesNear' /\ reduced'.ANOMALY \subseteq 1 .. N
  <2>1. \A i \in Outliers : /\ i \in 1 .. N
                            /\ 3 * (N * buffer[i] - SumOf(buffer)) < N * Scale
                            /\ -(3 * (N * buffer[i] - SumOf(buffer))) < N * Scale
    BY <1>1, OutlierNear DEF Deviation
  <2> QED
    BY <1>5, <1>6, <2>1 DEF AnomaliesNear
<1>11. ValuesTyped'
  BY <1>3, <1>4, <1>5, <1>7, <1>10 DEF ValuesTyped
<1>12. StatTypeOK'
  <2>1. reduced'.at = Len(buffer') /\ Len(buffer') \in 0 .. Len(buffer')
    BY <1>1, <1>5
  <2> QED
    BY <1>1, <2>1 DEF StatTypeOK
<1>13. OnlyLargestOverflows' /\ UndefinedOnlyIfEqual'
  BY <1>1 DEF OnlyLargestOverflows, Dumped, UndefinedOnlyIfEqual
<1> QED
  BY <1>8, <1>9, <1>10, <1>11, <1>12, <1>13

(* What is computed from samples, for any values in any order, scale and number of
   buckets: a gauge's extremes are samples that bound the others and the average,
   the batched maximum is MAX for gauges and not below it for others, no anomaly
   is farther than a third from the average, and a histogram that has a bucket
   loses only its largest samples (client.c:192-211, provider.c:389-501, 578-591). *)
THEOREM StatInvHolds == StatSpec => []StatInv
<1>1. StatIInv /\ [StatNext]_statVars => StatIInv'
  <2> SUFFICES ASSUME StatIInv, [StatNext]_statVars PROVE StatIInv'
    OBVIOUS
  <2>1. ASSUME NEW v \in Values, Update(v) PROVE StatIInv'
    BY <2>1, StatUpdate
  <2>2. ASSUME NEW n \in Buckets, DumpHistogram(n) PROVE StatIInv'
    BY <2>2, StatDump
  <2>3. CASE Reduce
    BY <2>3, StatReduce
  <2>4. CASE UNCHANGED statVars
    BY <2>4 DEF statVars, StatIInv, StatInv, StatTypeOK, GaugeExtremes, BatchedAgrees, AnomaliesNear,
                OnlyLargestOverflows, UndefinedOnlyIfEqual, ValuesTyped, Dumped, Reduced
  <2> QED
    BY <2>1, <2>2, <2>3, <2>4 DEF StatNext
<1>2. StatIInv => StatInv
  BY DEF StatIInv
<1> QED
  BY <1>1, <1>2, StatInitInv, PTL DEF StatSpec

-----------------------------------------------------------------------------
(***************************************************************************)
(* ProviderLifecycle.  RPCs lead to live providers only, each under its    *)
(* own id, and margo holds one finalize callback for each provider that    *)
(* wants one.                                                              *)
(***************************************************************************)
LEMMA LifeInitInv == LifeInit => LifeInv
<1> SUFFICES ASSUME LifeInit PROVE LifeInv
  OBVIOUS
<1> USE DEF LifeInit
<1>1. LifeTypeOK
  BY EmptySeq, MetricsAssumption DEF LifeTypeOK, Calloced
<1>2. GivenLive /\ ServesLive /\ FinalizeFrees
  BY DEF GivenLive, ServesLive, FinalizeFrees, Calloced
<1>3. CallbackOnce
  BY EmptySeq DEF CallbackOnce, IsInjective, ToSet
<1> QED
  BY <1>1, <1>2, <1>3 DEF LifeInv

(* A registration that is not refused has both RPCs of its id to itself. *)
LEMMA IdFree ==
  ASSUME LifeInv, NEW id \in Ids, MayRegister(id)
  PROVE  /\ \A b \in live : provider[b].provider_id # id
         /\ \A r \in Registrations : r[2] = id => rpc[r] = Null
<1>1. ASSUME NEW b \in live PROVE provider[b].provider_id # id
  <2>1. rpc[<<"symbiomon_remote_metric_fetch", provider[b].provider_id>>] = b /\ b # Null
    BY NullAssumption DEF LifeInv, LifeTypeOK, ServesLive, RPCs
  <2> QED
    BY <2>1 DEF MayRegister
<1>2. ASSUME NEW r \in Registrations, r[2] = id PROVE rpc[r] = Null
  BY <1>1, <1>2 DEF LifeInv, ServesLive
<1> QED
  BY <1>1, <1>2

LEMMA RegisterInv ==
  ASSUME LifeInv, NEW id \in Ids, NEW push \in BOOLEAN, NEW keep \in BOOLEAN,
         Register(id, push, keep)
  PROVE  LifeInv'
<1> DEFINE new == [provider_id |-> id, num_metrics |-> 0, push |-> push]
<1>1. PICK b \in Blocks \ live :
        /\ live' = live \cup {b}
        /\ provider' = [provider EXCEPT ![b] = new]
        /\ rpc' = [r \in Registrations |-> IF r[2] = id THEN b ELSE rpc[r]]
        /\ callbacks' = IF push THEN Append(callbacks, b) ELSE callbacks
        /\ given' = IF keep THEN given \cup {b} ELSE given \ {b}
  BY DEF Register
<1>2. /\ \A c \in live : provider[c].provider_id # id
      /\ mid = "running" /\ UNCHANGED <<mid, listening>> /\ registers' = registers + 1
  BY IdFree DEF Register
<1>3. /\ provider'[b] = new
      /\ \A c \in Blocks \ {b} : provider'[c] = provider[c]
      /\ live \in SUBSET Blocks
  BY <1>1 DEF LifeInv, LifeTypeOK
<1>4. /\ callbacks' \in Seq(Blocks) /\ IsInjective(callbacks')
      /\ ToSet(callbacks') = ToSet(callbacks) \cup (IF push THEN {b} ELSE {})
  BY <1>1, AppendSet DEF LifeInv, LifeTypeOK, CallbackOnce
<1>5. LifeTypeOK'
  BY <1>1, <1>2, <1>3, <1>4, MetricsAssumption DEF LifeInv, LifeTypeOK
<1>6. GivenLive'
  BY <1>1, <1>2 DEF LifeInv, GivenLive
<1>7. ServesLive'
  <2>1. ASSUME NEW r \in Registrations, rpc'[r] # Null
        PROVE  rpc'[r] \in live' /\ provider'[rpc'[r]].provider_id = r[2]
    BY <1>1, <1>3, <2>1 DEF LifeInv, ServesLive
  <2>2. ASSUME NEW c \in live', NEW name \in RPCs
        PROVE  rpc'[<<name, provider'[c].provider_id>>] = c
    BY <1>1, <1>2, <1>3 DEF LifeInv, LifeTypeOK, ServesLive, Registrations
  <2> QED
    BY <2>1, <2>2 DEF ServesLive
<1>8. CallbackOnce'
  BY <1>1, <1>3, <1>4 DEF LifeInv, CallbackOnce
<1>9. FinalizeFrees'
  BY <1>1, <1>2, <1>3 DEF LifeInv, FinalizeFrees
<1> QED
  BY <1>5, <1>6, <1>7, <1>8, <1>9 DEF LifeInv

LEMMA AddMetricInv ==
  ASSUME LifeInv, NEW b \in Blocks, AddMetric(b)
  PROVE  LifeInv'
<1>1. /\ mid = "running" /\ b \in live /\ provider[b].num_metrics < MaxMetrics
      /\ provider' = [provider EXCEPT ![b] =
                         [provider[b] EXCEPT !.num_metrics = provider[b].num_metrics + 1]]
      /\ UNCHANGED <<mid, listening, live, rpc, callbacks, given, registers>>
  BY DEF AddMetric
<1>2. /\ provider' \in [Blocks -> [provider_id : Ids \cup {Null}, num_metrics : 0 .. MaxMetrics,
                                   push : BOOLEAN]]
      /\ \A c \in Blocks : /\ provider'[c].provider_id = provider[c].provider_id
                           /\ provider'[c].push = provider[c].push
                           /\ c # b => provider'[c] = provider[c]
  BY <1>1, MetricsAssumption DEF LifeInv, LifeTypeOK
<1>3. LifeTypeOK' /\ GivenLive'
  BY <1>1, <1>2 DEF LifeInv, LifeTypeOK, GivenLive
<1>4. ServesLive' /\ CallbackOnce' /\ FinalizeFrees'
  BY <1>1, <1>2 DEF LifeInv, LifeTypeOK, ServesLive, CallbackOnce, FinalizeFrees
<1> QED
  BY <1>3, <1>4 DEF LifeInv

(* What symbiomon_finalize_provider leaves behind: the types, and all but the
   callbacks, which its callers have taken off before. *)
LEMMA FinalizedInv ==
  ASSUME LifeInv, NEW b \in live, Finalized(b),
         UNCHANGED <<listening, registers>>,
         mid \in {"running", "finalizing"}, mid' \in {mid, "crashed"},
         callbacks' \in Seq(Blocks), IsInjective(callbacks'),
         ToSet(callbacks') = ToSet(callbacks) \ {b},
         given' \in SUBSET Blocks, mid' = "running" => given' \subseteq live \ {b}
  PROVE  LifeInv'
<1>1. /\ rpc' = [r \in Registrations |-> IF r[2] = provider[b].provider_id THEN Null ELSE rpc[r]]
      /\ provider' = [provider EXCEPT ![b] = [provider[b] EXCEPT !.num_metrics = 0]]
      /\ live' = live \ {b} /\ live \in SUBSET Blocks /\ b \in Blocks
  BY DEF Finalized, LifeInv, LifeTypeOK
<1>2. /\ provider' \in [Blocks -> [provider_id : Ids \cup {Null}, num_metrics : 0 .. MaxMetrics,
                                   push : BOOLEAN]]
      /\ provider'[b].num_metrics = 0
      /\ \A c \in Blocks : /\ provider'[c].provider_id = provider[c].provider_id
                           /\ provider'[c].push = provider[c].push
                           /\ c # b => provider'[c] = provider[c]
  <2> DEFINE Provider == [provider_id : Ids \cup {Null}, num_metrics : 0 .. MaxMetrics,
                          push : BOOLEAN]
  <2>1. provider \in [Blocks -> Provider]
    BY DEF LifeInv, LifeTypeOK
  <2>2. /\ [provider[b] EXCEPT !.num_metrics = 0] \in Provider
        /\ [provider[b] EXCEPT !.num_metrics = 0].num_metrics = 0
        /\ [provider[b] EXCEPT !.num_metrics = 0].provider_id = provider[b].provider_id
        /\ [provider[b] EXCEPT !.num_metrics = 0].push = provider[b].push
    BY SMTT(30), <1>1, <2>1, MetricsAssumption
  <2> HIDE DEF Provider
  <2>3. provider' \in [Blocks -> Provider]
    BY <1>1, <2>1, <2>2
  <2> QED
    BY <1>1, <2>1, <2>2, <2>3 DEF Provider
<1>3. LifeTypeOK'
  <2>1. rpc' \in [Registrations -> Blocks \cup {Null}]
    BY <1>1 DEF LifeInv, LifeTypeOK
  <2>2. live' \in SUBSET Blocks /\ \A c \in live' : provider'[c].provider_id \in Ids
    BY <1>1, <1>2 DEF LifeInv, LifeTypeOK
  <2>3. mid' \in {"running", "finalizing", "finalized", "crashed"}
    OBVIOUS
  <2> QED
    BY <1>2, <2>1, <2>2, <2>3 DEF LifeInv, LifeTypeOK
<1>3a. GivenLive'
  BY <1>1 DEF GivenLive
<1>4. ServesLive'
  <2>1. ASSUME NEW r \in Registrations, rpc'[r] # Null
        PROVE  rpc'[r] \in live' /\ provider'[rpc'[r]].provider_id = r[2]
    BY <1>1, <1>2, <2>1 DEF LifeInv, ServesLive
  <2>2. ASSUME NEW c \in live', NEW name \in RPCs
        PROVE  rpc'[<<name, provider'[c].provider_id>>] = c
    <3>1. /\ rpc[<<name, provider[c].provider_id>>] = c
          /\ rpc[<<name, provider[b].provider_id>>] = b
          /\ <<name, provider[c].provider_id>> \in Registrations
      BY <1>1 DEF LifeInv, LifeTypeOK, ServesLive, Registrations
    <3>2. provider[c].provider_id # provider[b].provider_id
      BY <1>1, <3>1
    <3> QED
      BY <1>1, <1>2, <3>1, <3>2
  <2> QED
    BY <2>1, <2>2 DEF ServesLive
<1>5. CallbackOnce' /\ FinalizeFrees'
  BY <1>1, <1>2 DEF LifeInv, CallbackOnce, FinalizeFrees
<1> QED
  BY <1>3, <1>3a, <1>4, <1>5 DEF LifeInv

LEMMA DestroyInv ==
  ASSUME LifeInv, NEW b \in Blocks, Destroy(b)
  PROVE  LifeInv'
<1>1. /\ b \in live /\ mid = "running" /\ given \subseteq live
      /\ callbacks \in Seq(Blocks) /\ IsInjective(callbacks) /\ given \in SUBSET Blocks
  BY DEF Destroy, LifeInv, LifeTypeOK, GivenLive, CallbackOnce
<1>2. /\ callbacks' \in Seq(Blocks) /\ IsInjective(callbacks')
      /\ ToSet(callbacks') = ToSet(callbacks) \ {b}
  <2> DEFINE own == {i \in DOMAIN callbacks : callbacks[i] = b}
  <2>1. CASE own = {}
    <3>1. callbacks' = callbacks /\ b \notin ToSet(callbacks)
      BY <2>1 DEF Destroy, Pop, ToSet
    <3> QED
      BY <1>1, <3>1
  <2>2. CASE own # {}
    <3>1. PICK i \in DOMAIN callbacks : callbacks[i] = b /\ callbacks' = RemoveAt(callbacks, i)
      BY <2>2 DEF Destroy, Pop
    <3> QED
      BY <1>1, <3>1, RemoveSet
  <2> QED
    BY <2>1, <2>2
<1>3. /\ Finalized(b) /\ given' = given \ {b} /\ mid' \in {mid, "crashed"}
      /\ UNCHANGED <<listening, registers>>
  BY <1>1 DEF Destroy, Logged
<1> QED
  BY <1>1, <1>2, <1>3, FinalizedInv

LEMMA RunCallbackInv == LifeInv /\ RunCallback => LifeInv'
<1> SUFFICES ASSUME LifeInv, RunCallback PROVE LifeInv'
  OBVIOUS
<1>1. /\ callbacks \in Seq(Blocks) /\ IsInjective(callbacks) /\ callbacks # << >>
      /\ ToSet(callbacks) \subseteq live /\ callbacks' = Front(callbacks)
      /\ mid = "finalizing" /\ mid' \in {mid, "crashed"} /\ given \in SUBSET Blocks
      /\ UNCHANGED <<listening, given, registers>> /\ Finalized(Last(callbacks))
  BY DEF RunCallback, Logged, LifeInv, LifeTypeOK, CallbackOnce
<1>2. /\ Last(callbacks) \in live /\ callbacks' \in Seq(Blocks) /\ IsInjective(callbacks')
      /\ ToSet(callbacks') = ToSet(callbacks) \ {Last(callbacks)}
  BY <1>1, FrontSet
<1> QED
  BY <1>1, <1>2, FinalizedInv

LEMMA LifeStepInv == LifeInv /\ [LifeNext]_lifeVars => LifeInv'
<1> SUFFICES ASSUME LifeInv, [LifeNext]_lifeVars PROVE LifeInv'
  OBVIOUS
<1>1. ASSUME NEW id \in Ids, BedrockRegister(id) PROVE LifeInv'
  BY <1>1, RegisterInv DEF BedrockRegister
<1>2. ASSUME NEW id \in Ids, NEW push \in BOOLEAN, NEW keep \in BOOLEAN, Register(id, push, keep)
      PROVE  LifeInv'
  BY <1>2, RegisterInv
<1>3. ASSUME NEW b \in Blocks, AddMetric(b) PROVE LifeInv'
  BY <1>3, AddMetricInv
<1>4. ASSUME NEW b \in Blocks, Destroy(b) PROVE LifeInv'
  BY <1>4, DestroyInv
<1>5. CASE MargoFinalize
  BY <1>5 DEF MargoFinalize, LifeInv, LifeTypeOK, GivenLive, ServesLive, CallbackOnce, FinalizeFrees
<1>6. CASE RunCallback
  BY <1>6, RunCallbackInv
<1>7. CASE CallbacksDone
  <2>1. ToSet(callbacks) = {}
    BY <1>7, EmptySeq DEF CallbacksDone, ToSet
  <2> QED
    BY <1>7, <2>1 DEF CallbacksDone, LifeInv, LifeTypeOK, GivenLive, ServesLive, CallbackOnce,
                      FinalizeFrees
<1>8. CASE UNCHANGED lifeVars
  BY <1>8 DEF lifeVars, LifeInv, LifeTypeOK, GivenLive, ServesLive, CallbackOnce, FinalizeFrees
<1> QED
  BY <1>1, <1>2, <1>3, <1>4, <1>5, <1>6, <1>7, <1>8 DEF LifeNext

-----------------------------------------------------------------------------
(* The invariant of provider registration, destruction and finalization, over
   any order of the calls: no RPC handler is given a freed provider, no provider
   is freed twice, and none that has a callback outlives margo_finalize. *)
THEOREM LifeInvHolds == LifeSpec => []LifeInv
<1> QED
  BY LifeInitInv, LifeStepInv, PTL DEF LifeSpec

-----------------------------------------------------------------------------
(***************************************************************************)
(* MetricHandle.  A handle that is not used by two calls at once is freed  *)
(* exactly when its last reference is gone, and a client whose calls have  *)
(* not overlapped counts its handles and warns of those that outlive it.   *)
(***************************************************************************)
USE HandlesAssumption, BoundsAssumption

LEMMA HandleInitInv == HandleInit => HandleInv
<1> SUFFICES ASSUME HandleInit PROVE HandleInv
  OBVIOUS
<1>1. Cardinality(open) = 0
  BY FS_EmptySet DEF HandleInit
<1>2. HandleTypeOK
  <2>1. /\ client \in {"none", "live", "freed"} /\ fault \in {"none", "client", "handle"}
        /\ warned \in Int /\ calls \in Nat /\ num_metric_handles \in Int
    BY DEF HandleInit
  <2>2. open \in SUBSET Handles /\ raced \in SUBSET Handles /\ overlapped \in BOOLEAN
    BY DEF HandleInit
  <2>3. refcount \in [Handles -> Int] /\ owned \in [Handles -> Nat] /\ reg \in [Streams -> Int]
    BY DEF HandleInit
  <2>4. pc \in [Streams -> Places] /\ at \in [Streams -> Handles]
    BY DEF HandleInit, Places
  <2> QED
    BY <2>1, <2>2, <2>3, <2>4 DEF HandleTypeOK
<1>3. HandlesInOrder /\ HandlesAgree
  BY DEF HandleInit, HandlesInOrder, HandlesAgree, PlaceOK, Busy
<1>4. NoHandleFault /\ CountInOrder /\ ClientFaultAnnounced
  BY <1>1 DEF HandleInit, NoHandleFault, CountInOrder, ClientFaultAnnounced, Quiet
<1> QED
  BY <1>2, <1>3, <1>4 DEF HandleInv

LEMMA HandleTypeStep == HandleTypeOK /\ [HandleNext]_handleVars => HandleTypeOK'
<1> SUFFICES ASSUME HandleTypeOK, [HandleNext]_handleVars PROVE HandleTypeOK'
  OBVIOUS
<1>0. overlapped' \in BOOLEAN
  BY ZenonT(40) DEF HandleTypeOK, HandleNext, handleVars, history, ClientInit, ClientFinalize, Create,
     RefIncr, Release, Call, Calling, CountUp, StoreIncr, StoreDecr, Test, Drop, CountDown, Close,
     TouchFreed
<1> USE <1>0 DEF HandleTypeOK, Places, Goto, history
<1>1. ASSUME NEW s \in Streams, ClientInit(s) \/ ClientFinalize(s) PROVE HandleTypeOK'
  BY <1>1 DEF ClientInit, ClientFinalize, Calling
<1>2. ASSUME NEW s \in Streams, NEW h \in Handles, Create(s, h) PROVE HandleTypeOK'
  BY <1>2 DEF Create, Call, Calling
<1>3. ASSUME NEW s \in Streams, NEW h \in Handles, RefIncr(s, h) \/ Release(s, h)
      PROVE  HandleTypeOK'
  BY <1>3 DEF RefIncr, Release, Call, Calling
<1>4. ASSUME NEW s \in Streams, CountUp(s) \/ StoreIncr(s) \/ StoreDecr(s) PROVE HandleTypeOK'
  BY <1>4 DEF CountUp, StoreIncr, StoreDecr, Touch
<1>5. ASSUME NEW s \in Streams, Test(s) \/ Drop(s) \/ CountDown(s) \/ Close(s) \/ TouchFreed(s)
      PROVE  HandleTypeOK'
  BY <1>5 DEF Test, Drop, CountDown, Close, TouchFreed, Touch
<1>6. CASE UNCHANGED handleVars
  BY <1>6 DEF handleVars
<1> QED
  BY <1>1, <1>2, <1>3, <1>4, <1>5, <1>6 DEF HandleNext

(* Each handle by itself. *)
LEMMA HandleOrderStep ==
  HandleInv /\ HandleTypeOK' /\ [HandleNext]_handleVars
    => HandlesInOrder' /\ HandlesAgree' /\ NoHandleFault'
<1> SUFFICES ASSUME HandleInv, HandleTypeOK', [HandleNext]_handleVars
             PROVE  HandlesInOrder' /\ HandlesAgree' /\ NoHandleFault'
  OBVIOUS
<1> USE DEF HandleInv, HandleTypeOK, HandlesInOrder, HandlesAgree, NoHandleFault, PlaceOK, Busy, Goto,
            history
<1>1. ASSUME NEW s \in Streams, ClientInit(s) \/ ClientFinalize(s)
      PROVE  HandlesInOrder' /\ HandlesAgree' /\ NoHandleFault'
  BY <1>1 DEF ClientInit, ClientFinalize, Calling
<1>2. ASSUME NEW s \in Streams, NEW h \in Handles, Create(s, h)
      PROVE  HandlesInOrder' /\ HandlesAgree' /\ NoHandleFault'
  BY <1>2 DEF Create, Call, Calling
<1>3. ASSUME NEW s \in Streams, NEW h \in Handles, RefIncr(s, h)
      PROVE  HandlesInOrder' /\ HandlesAgree' /\ NoHandleFault'
  BY <1>3 DEF RefIncr, Call, Calling
<1>4. ASSUME NEW s \in Streams, NEW h \in Handles, Release(s, h)
      PROVE  HandlesInOrder' /\ HandlesAgree' /\ NoHandleFault'
  BY <1>4 DEF Release, Call, Calling
<1>5. ASSUME NEW s \in Streams, CountUp(s)
      PROVE  HandlesInOrder' /\ HandlesAgree' /\ NoHandleFault'
  BY <1>5 DEF CountUp
<1>6. ASSUME NEW s \in Streams, StoreIncr(s)
      PROVE  HandlesInOrder' /\ HandlesAgree' /\ NoHandleFault'
  BY <1>6 DEF StoreIncr, Touch
<1>7. ASSUME NEW s \in Streams, StoreDecr(s)
      PROVE  HandlesInOrder' /\ HandlesAgree' /\ NoHandleFault'
  BY <1>7 DEF StoreDecr, Touch
<1>8. ASSUME NEW s \in Streams, Test(s)
      PROVE  HandlesInOrder' /\ HandlesAgree' /\ NoHandleFault'
  BY <1>8 DEF Test, Touch
<1>9. ASSUME NEW s \in Streams, Drop(s) \/ CountDown(s)
      PROVE  HandlesInOrder' /\ HandlesAgree' /\ NoHandleFault'
  BY <1>9 DEF Drop, CountDown, Touch
<1>10. ASSUME NEW s \in Streams, Close(s)
       PROVE  HandlesInOrder' /\ HandlesAgree' /\ NoHandleFault'
  BY <1>10 DEF Close, Touch
<1>11. ASSUME NEW s \in Streams, TouchFreed(s)
       PROVE  HandlesInOrder' /\ HandlesAgree' /\ NoHandleFault'
  BY <1>11 DEF TouchFreed
<1>12. CASE UNCHANGED handleVars
  BY <1>12 DEF handleVars
<1> QED
  BY <1>1, <1>2, <1>3, <1>4, <1>5, <1>6, <1>7, <1>8, <1>9, <1>10, <1>11, <1>12 DEF HandleNext

(* The count of handles, while no calls have overlapped. *)
LEMMA HandleCountStep ==
  HandleInv /\ HandleTypeOK' /\ [HandleNext]_handleVars
    => CountInOrder' /\ ClientFaultAnnounced'
<1> SUFFICES ASSUME HandleInv, HandleTypeOK', [HandleNext]_handleVars, ~overlapped'
             PROVE  CountInOrder' /\ ClientFaultAnnounced'
  BY DEF CountInOrder, ClientFaultAnnounced
<1>c. ~overlapped
  BY ZenonT(40) DEF HandleNext, handleVars, history, ClientInit, ClientFinalize, Create, RefIncr, Release,
         Call, Calling, CountUp, StoreIncr, StoreDecr, Test, Drop, CountDown, Close, TouchFreed
<1>0. /\ IsFiniteSet(open) /\ Cardinality(open) \in Nat
      /\ Cardinality(open) = 0 <=> open = {}
  BY FS_Subset, FS_CardinalityType, FS_EmptySet DEF HandleInv, HandleTypeOK
<1>a. ASSUME NEW h \in Handles, h \notin open PROVE Cardinality(open \cup {h}) = Cardinality(open) + 1
  BY <1>0, <1>a, FS_AddElement
<1>b. ASSUME NEW h \in open PROVE Cardinality(open \ {h}) = Cardinality(open) - 1
  BY <1>0, FS_RemoveElement
<1> USE DEF HandleInv, HandleTypeOK, HandlesInOrder, PlaceOK, CountInOrder,
            ClientFaultAnnounced, Quiet, Goto, history
<1> USE <1>c
<1>1. ASSUME NEW s \in Streams, ClientInit(s) PROVE CountInOrder' /\ ClientFaultAnnounced'
  BY <1>0, <1>1 DEF ClientInit, Calling
<1>2. ASSUME NEW s \in Streams, ClientFinalize(s) PROVE CountInOrder' /\ ClientFaultAnnounced'
  <2>1. \A t \in Streams : pc[t] = "idle"
    BY <1>2 DEF ClientFinalize, Calling
  <2>2. Cardinality(open) = num_metric_handles
    BY <1>0, <1>2, <2>1 DEF ClientFinalize
  <2>3. warned' = 0 => open' = {}
    BY <1>0, <1>2, <2>2 DEF ClientFinalize
  <2>4. /\ client' = "freed" /\ fault' = "none" /\ raced' = {}
        /\ \A t \in Streams : pc'[t] = "idle"
    BY <1>2, <2>1 DEF ClientFinalize, Calling
  <2>5. CountInOrder'
    BY <2>4
  <2> QED
    BY <2>3, <2>4, <2>5
<1>3. ASSUME NEW s \in Streams, NEW h \in Handles, Create(s, h)
      PROVE  CountInOrder' /\ ClientFaultAnnounced'
  <2>1. /\ client = "live" /\ client' = "live" /\ h \notin open /\ open' = open \cup {h}
        /\ num_metric_handles' = num_metric_handles /\ reg' = reg /\ warned' = warned
        /\ fault' = "none" /\ raced' = {}
        /\ pc' = [pc EXCEPT ![s] = "up"] /\ \A t \in Streams : pc[t] = "idle"
    BY <1>3 DEF Create, Call, Calling
  <2>2. Cardinality(open) = num_metric_handles
    BY <2>1
  <2>3. Cardinality(open') = num_metric_handles + 1
    BY <1>a, <2>1, <2>2
  <2>4. pc'[s] = "up" /\ \A t \in Streams \ {s} : pc'[t] = "idle"
    BY <2>1
  <2>5. CountInOrder'
    BY <2>1, <2>3, <2>4
  <2> QED
    BY <2>1, <2>5
<1>4. ASSUME NEW s \in Streams, NEW h \in Handles, RefIncr(s, h) \/ Release(s, h)
      PROVE  CountInOrder' /\ ClientFaultAnnounced'
  <2>1. /\ client' = client /\ open' = open /\ num_metric_handles' = num_metric_handles
        /\ warned' = warned /\ fault' \in {"none", "handle"} /\ raced' = {}
        /\ \A t \in Streams : pc[t] = "idle"
        /\ \E place \in {"incr", "decr"} : pc' = [pc EXCEPT ![s] = place]
    BY <1>4 DEF RefIncr, Release, Call, Calling
  <2>2. pc'[s] \in {"incr", "decr"} /\ \A t \in Streams \ {s} : pc'[t] = "idle"
    BY <2>1
  <2>3. client # "none"
    BY <1>4, <2>1 DEF RefIncr, Release, HandlesAgree, Busy
  <2>4. CountInOrder'
    BY <2>1, <2>2, <2>3
  <2> QED
    BY <2>1, <2>4
<1>5. ASSUME NEW s \in Streams, CountUp(s) PROVE CountInOrder' /\ ClientFaultAnnounced'
  BY <1>5 DEF CountUp
<1>6. ASSUME NEW s \in Streams, StoreIncr(s) \/ StoreDecr(s) \/ Test(s)
      PROVE  CountInOrder' /\ ClientFaultAnnounced'
  BY <1>6 DEF StoreIncr, StoreDecr, Test, Touch
<1>7. ASSUME NEW s \in Streams, Drop(s) \/ CountDown(s) \/ TouchFreed(s)
      PROVE  CountInOrder' /\ ClientFaultAnnounced'
  BY <1>7 DEF Drop, CountDown, TouchFreed, Touch
<1>8. ASSUME NEW s \in Streams, Close(s) PROVE CountInOrder' /\ ClientFaultAnnounced'
  BY SMTT(30), <1>b, <1>8 DEF Close, Touch
<1>9. CASE UNCHANGED handleVars
  BY <1>9 DEF handleVars
<1> QED
  BY <1>1, <1>2, <1>3, <1>4, <1>5, <1>6, <1>7, <1>8, <1>9 DEF HandleNext

(* Every behaviour keeps the inductive invariant. *)
THEOREM HandleInvHolds == HandleSpec => []HandleInv
<1>1. HandleInit => HandleInv
  BY HandleInitInv
<1>2. HandleInv /\ [HandleNext]_handleVars => HandleInv'
  BY HandleTypeStep, HandleOrderStep, HandleCountStep DEF HandleInv
<1> QED
  BY <1>1, <1>2, PTL DEF HandleSpec

(* A handle used by one call at a time is allocated exactly while the program
   has references to it (client.c handle_create, ref_incr, release). *)
THEOREM HandlesAgreeHolds == HandleSpec => []HandlesAgree
<1>1. HandleInv => HandlesAgree
  BY DEF HandleInv
<1> QED
  BY <1>1, HandleInvHolds, PTL

(* Only overlapping calls on one handle can touch it after it was freed
   (client.c:336, 344-348). *)
THEOREM NoHandleFaultHolds == HandleSpec => []NoHandleFault
<1>1. HandleInv => NoHandleFault
  BY DEF HandleInv
<1> QED
  BY <1>1, HandleInvHolds, PTL

(* Between calls that do not overlap the client counts its handles (client.c:325, 347). *)
THEOREM CountAgreesHolds == HandleSpec => []CountAgrees
<1>1. HandleInv => CountAgrees
  <2> SUFFICES ASSUME HandleInv, ~overlapped, Quiet, client = "live"
               PROVE  num_metric_handles = Cardinality(open)
    BY DEF CountAgrees
  <2>1. IsFiniteSet(open) /\ Cardinality(open) \in Nat
    BY FS_Subset, FS_CardinalityType DEF HandleInv, HandleTypeOK
  <2> QED
    BY <2>1 DEF HandleInv, HandleTypeOK, CountInOrder, Quiet
<1> QED
  BY <1>1, HandleInvHolds, PTL

(* Unless calls overlap a freed client is touched only after its warning
   (client.c:40-45, 346-347). *)
THEOREM ClientFaultAnnouncedHolds == HandleSpec => []ClientFaultAnnounced
<1>1. HandleInv => ClientFaultAnnounced
  BY DEF HandleInv
<1> QED
  BY <1>1, HandleInvHolds, PTL

(* Unless calls overlap the warning is of the handles that are open
   (client.c:40-44). *)
THEOREM WarningTruthfulHolds == HandleSpec => WarningTruthful
<1> DEFINE A == client = "live" /\ client' = "freed" /\ ~overlapped' => warned' = Cardinality(open)
<1>1. HandleInv /\ [HandleNext]_handleVars => [A]_handleVars
  <2> SUFFICES ASSUME HandleInv, HandleNext, client = "live", client' = "freed",
                      ~overlapped'
               PROVE  warned' = Cardinality(open)
    OBVIOUS
  <2>1. PICK s \in Streams : ClientFinalize(s)
    BY DEF HandleNext, ClientInit, ClientFinalize, Create, RefIncr, Release, CountUp, StoreIncr,
           StoreDecr, Test, Drop, CountDown, Close, TouchFreed
  <2>2. IsFiniteSet(open)
    BY FS_Subset DEF HandleInv, HandleTypeOK
  <2>3. num_metric_handles = Cardinality(open)
    <3>1. Cardinality(open) \in Nat
      BY <2>2, FS_CardinalityType
    <3>2. ~overlapped /\ Quiet
      BY <2>1 DEF ClientFinalize, Calling, Quiet
    <3> QED
      BY <3>1, <3>2 DEF HandleInv, HandleTypeOK, CountInOrder, Quiet
  <2> QED
    BY <2>1, <2>3 DEF ClientFinalize
<1> QED
  BY <1>1, HandleInvHolds, PTL DEF HandleSpec, WarningTruthful
=============================================================================
