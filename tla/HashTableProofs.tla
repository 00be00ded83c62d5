--------------------------- MODULE HashTableProofs ---------------------------
(***************************************************************************)
(* Theorems about the hash table: HashTable, for every set of elements,    *)
(* every assignment of keys, hashes and ranks, every first number of       *)
(* buckets and every threshold.                                            *)
(***************************************************************************)
EXTENDS HashTable, DataLemmas, FunctionTheorems, TLAPS

-----------------------------------------------------------------------------
(***************************************************************************)
(* Doubly linked lists.  A list is strung along two links from its first   *)
(* element on.                                                             *)
(***************************************************************************)
At(list, i) == IF i \in DOMAIN list THEN list[i] ELSE NoElem

Strung(list, first, back, fwd) ==
  /\ list \in Seq(Elements) /\ IsInjective(list) /\ first = At(list, 1)
  /\ \A i \in DOMAIN list : back[list[i]] = At(list, i - 1) /\ fwd[list[i]] = At(list, i + 1)

LEMMA InjectiveLength ==
  ASSUME NEW S, NEW s \in Seq(S), IsInjective(s)
  PROVE  IsFiniteSet(ToSet(s)) /\ Cardinality(ToSet(s)) = Len(s)
<1>1. Len(s) \in Nat /\ DOMAIN s = 1..Len(s) /\ s = [i \in 1..Len(s) |-> s[i]]
  BY LenProperties
<1>2. s \in Bijection(1..Len(s), ToSet(s))
  BY <1>1 DEF Bijection, Injection, Surjection, IsInjective, ToSet
<1>3. ExistsBijection(1..Len(s), ToSet(s))
  BY <1>2 DEF ExistsBijection
<1> QED
  BY <1>1, <1>3, FS_CountingElements, FS_NatBijection

LEMMA ListLength ==
  ASSUME NEW s \in Seq(Elements), IsInjective(s)
  PROVE  /\ Len(s) <= Cardinality(Elements) /\ Cardinality(Elements) \in Nat
         /\ Len(s) \in Nat /\ DOMAIN s = 1..Len(s)
         /\ \A i \in DOMAIN s : s[i] \in Elements /\ s[i] # NoElem
<1>1. Len(s) \in Nat /\ DOMAIN s = 1..Len(s)
  BY LenProperties
<1>2. \A i \in DOMAIN s : s[i] \in Elements
  BY <1>1, ElementOfSeq
<1>3. ToSet(s) \in SUBSET Elements
  BY <1>2 DEF ToSet
<1>4. IsFiniteSet(Elements) /\ NoElem \notin Elements
  BY HashTableAssumption
<1>5. Cardinality(ToSet(s)) <= Cardinality(Elements) /\ Cardinality(Elements) \in Nat
  BY <1>3, <1>4, FS_Subset, FS_CardinalityType
<1>6. Cardinality(ToSet(s)) = Len(s)
  BY InjectiveLength
<1> QED
  BY <1>1, <1>2, <1>4, <1>5, <1>6

(* Walk goes through such a list.                                          *)
LEMMA WalkStrung ==
  ASSUME NEW list, NEW first, NEW back, NEW fwd, Strung(list, first, back, fwd)
  PROVE  Walk(first, fwd) = list
<1> DEFINE N == Cardinality(Elements)
<1> DEFINE n == Len(list)
<1> DEFINE Body(f) == [k \in 0..N |->
                        IF k = 0 THEN first
                        ELSE LET e == f[k - 1] IN IF e = NoElem THEN NoElem ELSE fwd[e]]
<1> DEFINE at == CHOOSE f : f = Body(f)
<1> DEFINE met == {k \in 0..N : at[k] # NoElem}
<1>1. Walk(first, fwd) = [i \in 1..Cardinality(met) |-> at[i - 1]]
  BY DEF Walk
<1>2. list \in Seq(Elements) /\ IsInjective(list)
  BY DEF Strung
<1>3. /\ n <= N /\ N \in Nat /\ n \in Nat /\ DOMAIN list = 1..n
      /\ \A i \in 1..n : list[i] \in Elements /\ list[i] # NoElem
  BY <1>2, ListLength
<1>4. first = At(list, 1) /\ \A i \in 1..n : fwd[list[i]] = At(list, i + 1)
  BY <1>3 DEF Strung
<1> HIDE DEF N, n
<1>5. ASSUME NEW k \in 1..N
      PROVE  At(list, k + 1) = IF At(list, k) = NoElem THEN NoElem ELSE fwd[At(list, k)]
  <2>1. CASE k \in 1..n
    BY <1>3, <1>4, <2>1 DEF At
  <2>2. CASE k \notin 1..n
    BY <1>3, <2>2 DEF At
  <2> QED
    BY <2>1, <2>2
<1>6. \E f : f = Body(f)
  <2> DEFINE f == [k \in 0..N |-> At(list, k + 1)]
  <2>1. ASSUME NEW k \in 0..N PROVE f[k] = Body(f)[k]
    <3>1. CASE k = 0
      BY <1>3, <1>4, <3>1
    <3>2. CASE k # 0
      <4>1. k \in 1..N /\ k - 1 \in 0..N /\ (k - 1) + 1 = k
        BY <1>3, <3>2
      <4>2. f[k - 1] = At(list, k) /\ f[k] = At(list, k + 1)
        BY <4>1
      <4>3. Body(f)[k] = IF f[k - 1] = NoElem THEN NoElem ELSE fwd[f[k - 1]]
        BY <3>2
      <4> HIDE DEF f, Body
      <4> QED
        BY <1>5, <4>1, <4>2, <4>3
    <3> QED
      BY <3>1, <3>2
  <2>2. f = Body(f)
    BY <2>1
  <2> QED
    BY <2>2
<1>7. at = Body(at)
  <2> HIDE DEF Body
  <2> QED
    BY <1>6
<1> HIDE DEF at
<1>8. /\ at[0] = first
      /\ \A k \in 1..N : at[k] = IF at[k - 1] = NoElem THEN NoElem ELSE fwd[at[k - 1]]
  BY <1>3, <1>7
<1>9. \A k \in 0..N : at[k] = At(list, k + 1)
  <2> DEFINE W == [k \in 0..N |-> {At(list, k + 1)}]
  <2>1. at[0] \in W[0]
    BY <1>3, <1>4, <1>8
  <2>2. ASSUME NEW k \in 1..N, at[k - 1] \in W[k - 1] PROVE at[k] \in W[k]
    <3>1. k \in 0..N /\ k - 1 \in 0..N /\ (k - 1) + 1 = k
      BY <1>3
    <3>2. at[k - 1] = At(list, k)
      BY <2>2, <3>1
    <3>3. at[k] = At(list, k + 1)
      BY <1>5, <1>8, <3>2
    <3> QED
      BY <3>1, <3>3
  <2> HIDE DEF W
  <2>3. \A k \in 0..N : at[k] \in W[k]
    BY <1>3, <2>1, <2>2, StagesHold
  <2> QED
    BY <2>3 DEF W
<1>10. met = 0..n - 1
  BY <1>3, <1>9 DEF At
<1> HIDE DEF met
<1>11. Cardinality(met) = n
  <2>1. 0 \in Int /\ n - 1 \in Int
    BY <1>3
  <2>2. Cardinality(0..n - 1) = IF 0 > n - 1 THEN 0 ELSE ((n - 1) - 0) + 1
    BY <2>1, FS_Interval
  <2> QED
    BY <1>3, <1>10, <2>2
<1>12. \A i \in 1..n : at[i - 1] = list[i]
  <2> SUFFICES ASSUME NEW i \in 1..n PROVE at[i - 1] = list[i]
    OBVIOUS
  <2>1. i - 1 \in 0..N /\ (i - 1) + 1 = i
    BY <1>3
  <2> QED
    BY <1>3, <1>9, <2>1 DEF At
<1>13. list = [i \in 1..n |-> list[i]]
  BY <1>2, LenProperties DEF n
<1> QED
  BY <1>1, <1>11, <1>12, <1>13

(* A list stays strung under links that are the same for its elements.     *)
LEMMA StrungKept ==
  ASSUME NEW list, NEW first, NEW back, NEW fwd, Strung(list, first, back, fwd),
         NEW back2, NEW fwd2,
         \A e \in ToSet(list) : back2[e] = back[e] /\ fwd2[e] = fwd[e]
  PROVE  Strung(list, first, back2, fwd2)
  BY DEF Strung, ToSet

(* An element comes in at a place: before the first of a chain, after the  *)
(* last of the application order, or before a greater one.                 *)
LEMMA InsertStrung ==
  ASSUME NEW list, NEW first, NEW back, NEW fwd, Strung(list, first, back, fwd),
         NEW e \in Elements, e \notin ToSet(list), NEW p \in 1..Len(list) + 1,
         NEW first2, first2 = IF p = 1 THEN e ELSE first,
         NEW back2, NEW fwd2, back2[e] = At(list, p - 1), fwd2[e] = At(list, p),
         \A i \in DOMAIN list : back2[list[i]] = IF i = p THEN e ELSE back[list[i]],
         \A i \in DOMAIN list : fwd2[list[i]] = IF i = p - 1 THEN e ELSE fwd[list[i]]
  PROVE  Strung(InsertAt(list, p, e), first2, back2, fwd2)
<1> DEFINE t == InsertAt(list, p, e)
<1> DEFINE n == Len(list)
<1>1. list \in Seq(Elements) /\ IsInjective(list) /\ first = At(list, 1)
  BY DEF Strung
<1>2. n \in Nat /\ DOMAIN list = 1..n
  BY <1>1, LenProperties
<1>3. /\ t \in Seq(Elements) /\ Len(t) = n + 1
      /\ \A j \in 1..n + 1 : t[j] = IF j < p THEN list[j] ELSE IF j = p THEN e ELSE list[j - 1]
  BY <1>1, InsertAtProperties
<1>4. DOMAIN t = 1..n + 1
  BY <1>3, LenProperties
<1>5. IsInjective(t)
  BY <1>1, InsertSet
<1>6. \A i \in 1..n : back[list[i]] = At(list, i - 1) /\ fwd[list[i]] = At(list, i + 1)
  BY <1>2 DEF Strung
<1> HIDE DEF t, n
<1>7. p \in 1..n + 1
  BY DEF n
<1>8. first2 = At(t, 1)
  BY <1>1, <1>2, <1>3, <1>4, <1>7 DEF At
<1>9. ASSUME NEW j \in 1..n + 1 PROVE back2[t[j]] = At(t, j - 1) /\ fwd2[t[j]] = At(t, j + 1)
  <2>1. CASE j = p
    <3>1. t[j] = e
      BY <1>3, <2>1
    <3>2. At(t, j - 1) = At(list, p - 1) /\ At(t, j + 1) = At(list, p)
      BY <1>2, <1>3, <1>4, <1>7, <2>1 DEF At
    <3> QED
      BY <3>1, <3>2
  <2>2. CASE j < p
    <3>1. j \in 1..n /\ t[j] = list[j]
      BY <1>2, <1>3, <1>7, <2>2
    <3>2. back2[t[j]] = At(list, j - 1)
      <4>1. j # p /\ j \in DOMAIN list
        BY <1>2, <1>7, <2>2, <3>1
      <4>2. back2[list[j]] = back[list[j]]
        BY <4>1
      <4> QED
        BY <1>6, <3>1, <4>2
    <3>3. At(t, j - 1) = At(list, j - 1)
      BY <1>2, <1>3, <1>4, <1>7, <2>2, <3>1 DEF At
    <3>4. fwd2[t[j]] = IF j = p - 1 THEN e ELSE At(list, j + 1)
      BY <1>2, <1>6, <3>1
    <3>5. At(t, j + 1) = IF j = p - 1 THEN e ELSE At(list, j + 1)
      BY <1>2, <1>3, <1>4, <1>7, <2>2, <3>1 DEF At
    <3> QED
      BY <3>2, <3>3, <3>4, <3>5
  <2>3. CASE j > p
    <3> DEFINE i == j - 1
    <3>1. i \in 1..n /\ t[j] = list[i] /\ i >= p /\ j = i + 1 /\ i \in Int
      BY <1>2, <1>3, <1>7, <2>3
    <3> HIDE DEF i
    <3>2. fwd2[t[j]] = At(list, i + 1)
      <4>1. i # p - 1 /\ i \in DOMAIN list
        BY <1>2, <1>7, <3>1
      <4>2. fwd2[list[i]] = fwd[list[i]]
        BY <4>1
      <4> QED
        BY <1>6, <3>1, <4>2
    <3>3. At(t, j + 1) = At(list, i + 1)
      BY <1>2, <1>3, <1>4, <1>7, <3>1 DEF At
    <3>4. back2[t[j]] = IF i = p THEN e ELSE At(list, i - 1)
      BY <1>2, <1>6, <3>1
    <3>5. At(t, j - 1) = IF i = p THEN e ELSE At(list, i - 1)
      BY <1>2, <1>3, <1>4, <1>7, <3>1 DEF At
    <3> QED
      BY <3>2, <3>3, <3>4, <3>5
  <2> QED
    BY <1>2, <1>7, <2>1, <2>2, <2>3
<1> QED
  BY <1>3, <1>4, <1>5, <1>8, <1>9 DEF Strung, t

(* An element goes, and its neighbours are told of each other.             *)
LEMMA RemoveStrung ==
  ASSUME NEW list, NEW first, NEW back, NEW fwd, Strung(list, first, back, fwd),
         NEW p \in DOMAIN list,
         NEW first2, first2 = IF p = 1 THEN fwd[list[p]] ELSE first,
         NEW back2, NEW fwd2,
         \A i \in DOMAIN list : i # p => back2[list[i]] = IF i = p + 1 THEN back[list[p]] ELSE back[list[i]],
         \A i \in DOMAIN list : i # p => fwd2[list[i]] = IF i = p - 1 THEN fwd[list[p]] ELSE fwd[list[i]]
  PROVE  Strung(RemoveAt(list, p), first2, back2, fwd2)
<1> DEFINE t == RemoveAt(list, p)
<1> DEFINE n == Len(list)
<1>1. list \in Seq(Elements) /\ IsInjective(list) /\ first = At(list, 1)
  BY DEF Strung
<1>2. n \in Nat /\ DOMAIN list = 1..n
  BY <1>1, LenProperties
<1>3. /\ t \in Seq(Elements) /\ Len(t) = n - 1
      /\ \A j \in 1..n - 1 : t[j] = IF j < p THEN list[j] ELSE list[j + 1]
  <2>1. p \in 1..Len(list)
    BY <1>2
  <2> QED
    BY <1>1, <2>1, RemoveAtProperties
<1>4. DOMAIN t = 1..n - 1
  BY <1>3, LenProperties
<1>5. IsInjective(t)
  BY <1>1, RemoveSet
<1>6. \A i \in 1..n : back[list[i]] = At(list, i - 1) /\ fwd[list[i]] = At(list, i + 1)
  BY <1>2 DEF Strung
<1> HIDE DEF t, n
<1>7. p \in 1..n
  BY <1>2
<1>8. first2 = At(t, 1)
  BY <1>1, <1>2, <1>3, <1>4, <1>6, <1>7 DEF At
<1>9. ASSUME NEW j \in 1..n - 1 PROVE back2[t[j]] = At(t, j - 1) /\ fwd2[t[j]] = At(t, j + 1)
  <2>1. CASE j < p
    <3>1. j \in 1..n /\ t[j] = list[j] /\ j # p /\ j # p + 1
      BY <1>2, <1>3, <1>7, <2>1
    <3>2. back2[t[j]] = At(list, j - 1)
      BY <1>2, <1>6, <3>1
    <3>3. At(t, j - 1) = At(list, j - 1)
      BY <1>2, <1>3, <1>4, <1>7, <2>1, <3>1 DEF At
    <3>4. fwd2[t[j]] = IF j = p - 1 THEN At(list, p + 1) ELSE At(list, j + 1)
      BY <1>2, <1>6, <1>7, <3>1
    <3>5. At(t, j + 1) = IF j = p - 1 THEN At(list, p + 1) ELSE At(list, j + 1)
      <4>1. CASE j = p - 1
        <5>1. j + 1 = p
          BY <1>2, <1>7, <4>1
        <5>2. At(t, p) = At(list, p + 1)
          BY <1>2, <1>3, <1>4, <1>7 DEF At
        <5> QED
          BY <4>1, <5>1, <5>2
      <4>2. CASE j # p - 1
        <5>1. j + 1 < p /\ j + 1 \in 1..n - 1
          BY <1>2, <1>7, <2>1, <3>1, <4>2
        <5>2. At(t, j + 1) = At(list, j + 1)
          BY <1>2, <1>3, <1>4, <5>1 DEF At
        <5> QED
          BY <4>2, <5>2
      <4> QED
        BY <4>1, <4>2
    <3> QED
      BY <3>2, <3>3, <3>4, <3>5
  <2>2. CASE j >= p
    <3> DEFINE i == j + 1
    <3>1. i \in 1..n /\ t[j] = list[i] /\ i >= p + 1 /\ j = i - 1 /\ i \in Int /\ i # p /\ i # p - 1
      BY <1>2, <1>3, <1>7, <2>2
    <3> HIDE DEF i
    <3>2. fwd2[t[j]] = At(list, i + 1)
      BY <1>2, <1>6, <1>7, <3>1
    <3>3. At(t, j + 1) = At(list, i + 1)
      BY <1>2, <1>3, <1>4, <1>7, <3>1 DEF At
    <3>4. back2[t[j]] = IF i = p + 1 THEN At(list, p - 1) ELSE At(list, i - 1)
      BY <1>2, <1>6, <1>7, <3>1
    <3>5. At(t, j - 1) = IF i = p + 1 THEN At(list, p - 1) ELSE At(list, i - 1)
      BY <1>2, <1>3, <1>4, <1>7, <3>1 DEF At
    <3> QED
      BY <3>2, <3>3, <3>4, <3>5
  <2> QED
    BY <1>2, <1>7, <2>1, <2>2
<1> QED
  BY <1>3, <1>4, <1>5, <1>8, <1>9 DEF Strung, t

-----------------------------------------------------------------------------
(***************************************************************************)
(* The chains.  The elements of a set are spread over n chains by their    *)
(* hashes, each chain strung from its bucket's head and as long as the     *)
(* bucket's count.                                                         *)
(***************************************************************************)
Pointers == Elements \cup {NoElem}
Links == [Elements -> [prev : Pointers, next : Pointers, hhPrev : Pointers, hhNext : Pointers]]
BucketArrays(n) == [0..n - 1 -> [hhHead : Pointers, count : Nat, mult : Nat]]
Tables(n) == [tail : Pointers, items : Nat, ideal : Nat, ineff : Nat, noexpand : BOOLEAN,
              buckets : BucketArrays(n)]

OrderBack(links) == [e \in Elements |-> links[e].prev]
ChainBack(links) == [e \in Elements |-> links[e].hhPrev]

Hung(chain, bucket, links) ==
  Strung(chain, bucket.hhHead, ChainBack(links), ChainLink(links)) /\ bucket.count = Len(chain)

Spread(chains, buckets, n, links, members) ==
  \A b \in 0..n - 1 : /\ Hung(chains[b], buckets[b], links)
                      /\ ToSet(chains[b]) = {e \in members : ToBucket(e, n) = b}

LEMMA BucketInRange ==
  ASSUME NEW e \in Elements, NEW n \in Nat \ {0}
  PROVE  ToBucket(e, n) \in 0..n - 1
<1> DEFINE h == Hash[Key[e]]
<1>1. h \in Int
  BY HashTableAssumption
<1> HIDE DEF h
<1>2. h % n \in 0..n - 1
  BY <1>1, DivMod
<1> QED
  BY <1>2 DEF ToBucket, h

(* Push leaves the application order alone.                                *)
LEMMA PushKeepsOrder ==
  ASSUME NEW links \in Links, NEW e \in Elements, NEW first \in Pointers
  PROVE  /\ Push(links, e, first) \in Links
         /\ OrderLink(Push(links, e, first)) = OrderLink(links)
         /\ OrderBack(Push(links, e, first)) = OrderBack(links)
         /\ ChainBack(Push(links, e, first)) =
              [x \in Elements |-> IF x = e THEN NoElem ELSE IF x = first THEN e ELSE links[x].hhPrev]
         /\ ChainLink(Push(links, e, first)) =
              [x \in Elements |-> IF x = e THEN first ELSE links[x].hhNext]
<1> DEFINE pushed == Push(links, e, first)
<1>1. ASSUME NEW x \in Elements
      PROVE  /\ pushed[x] \in [prev : Pointers, next : Pointers, hhPrev : Pointers, hhNext : Pointers]
             /\ pushed[x].next = links[x].next /\ pushed[x].prev = links[x].prev
             /\ pushed[x].hhPrev = IF x = e THEN NoElem ELSE IF x = first THEN e ELSE links[x].hhPrev
             /\ pushed[x].hhNext = IF x = e THEN first ELSE links[x].hhNext
  <2>1. links[x] \in [prev : Pointers, next : Pointers, hhPrev : Pointers, hhNext : Pointers]
    BY DEF Links
  <2>2. e \in Pointers /\ NoElem \in Pointers
    BY DEF Pointers
  <2>3. pushed[x] = IF x = e THEN [links[x] EXCEPT !.hhPrev = NoElem, !.hhNext = first]
                    ELSE IF x = first THEN [links[x] EXCEPT !.hhPrev = e] ELSE links[x]
    BY DEF Push
  <2> HIDE DEF pushed
  <2> QED
    BY <2>1, <2>2, <2>3
<1>2. pushed = [x \in Elements |-> pushed[x]]
  BY DEF Push
<1> HIDE DEF pushed
<1>3. pushed \in Links
  BY <1>1, <1>2 DEF Links
<1>4. OrderLink(pushed) = OrderLink(links) /\ OrderBack(pushed) = OrderBack(links)
  BY <1>1 DEF OrderLink, OrderBack
<1>5. ChainBack(pushed) =
        [x \in Elements |-> IF x = e THEN NoElem ELSE IF x = first THEN e ELSE links[x].hhPrev]
  BY <1>1 DEF ChainBack
<1>6. ChainLink(pushed) = [x \in Elements |-> IF x = e THEN first ELSE links[x].hhNext]
  BY <1>1 DEF ChainLink
<1> QED
  BY <1>3, <1>4, <1>5, <1>6 DEF pushed

(* A pushed element is the first of its chain, and the others are as they  *)
(* were.                                                                   *)
LEMMA PushSpread ==
  ASSUME NEW n \in Nat \ {0}, NEW chains, NEW buckets \in BucketArrays(n), NEW links \in Links,
         NEW members \in SUBSET Elements, Spread(chains, buckets, n, links, members),
         NEW e \in Elements, e \notin members,
         NEW buckets2 \in BucketArrays(n),
         \A b \in 0..n - 1 :
           IF b = ToBucket(e, n)
           THEN buckets2[b].hhHead = e /\ buckets2[b].count = buckets[b].count + 1
           ELSE buckets2[b] = buckets[b]
  PROVE  Spread([b \in 0..n - 1 |-> IF b = ToBucket(e, n) THEN InsertAt(chains[b], 1, e) ELSE chains[b]],
                buckets2, n, Push(links, e, buckets[ToBucket(e, n)].hhHead), members \cup {e})
<1> DEFINE m == ToBucket(e, n)
<1> DEFINE first == buckets[m].hhHead
<1> DEFINE pushed == Push(links, e, first)
<1> DEFINE chains2 == [b \in 0..n - 1 |-> IF b = m THEN InsertAt(chains[b], 1, e) ELSE chains[b]]
<1>1. m \in 0..n - 1
  BY BucketInRange
<1>2. \A x \in members : ToBucket(x, n) = ToBucket(x, n) /\ x # e
  OBVIOUS
<1> DEFINE of == [x \in Elements |-> ToBucket(x, n)]
<1>3. of[e] = m /\ \A b \in 0..n - 1 : {x \in members : ToBucket(x, n) = b} = {x \in members : of[x] = b}
  OBVIOUS
<1>4. \A b \in 0..n - 1 : {x \in members \cup {e} : ToBucket(x, n) = b} = {x \in members \cup {e} : of[x] = b}
  OBVIOUS
<1>5. \A b \in 0..n - 1 : Hung(chains[b], buckets[b], links) /\ ToSet(chains[b]) = {x \in members : of[x] = b}
  BY <1>3 DEF Spread
<1>6. first \in Pointers
  BY <1>1 DEF BucketArrays
<1>7. /\ ChainBack(pushed) =
           [x \in Elements |-> IF x = e THEN NoElem ELSE IF x = first THEN e ELSE links[x].hhPrev]
      /\ ChainLink(pushed) = [x \in Elements |-> IF x = e THEN first ELSE links[x].hhNext]
  <2> HIDE DEF first, of, m
  <2> QED
    BY <1>6, PushKeepsOrder
<1>8. \A b \in 0..n - 1 : IF b = m THEN buckets2[b].hhHead = e /\ buckets2[b].count = buckets[b].count + 1
                                   ELSE buckets2[b] = buckets[b]
  OBVIOUS
<1> HIDE DEF m, of, pushed
<1>9. Strung(chains[m], first, ChainBack(links), ChainLink(links)) /\ buckets[m].count = Len(chains[m])
  BY <1>1, <1>5 DEF Hung
<1>10. /\ chains[m] \in Seq(Elements) /\ Len(chains[m]) \in Nat /\ DOMAIN chains[m] = 1..Len(chains[m])
       /\ first = At(chains[m], 1) /\ IsInjective(chains[m])
  BY <1>9, LenProperties DEF Strung
<1>11. \A i \in DOMAIN chains[m] : chains[m][i] \in Elements /\ chains[m][i] # e
  <2>1. \A i \in DOMAIN chains[m] : chains[m][i] \in ToSet(chains[m])
    BY DEF ToSet
  <2> QED
    BY <1>1, <1>5, <2>1
<1>12. e \notin ToSet(chains[m])
  BY <1>1, <1>5
<1>13. Strung(InsertAt(chains[m], 1, e), e, ChainBack(pushed), ChainLink(pushed))
  <2> DEFINE back2 == ChainBack(pushed)
  <2> DEFINE fwd2 == ChainLink(pushed)
  <2> DEFINE list == chains[m]
  <2> DEFINE back == ChainBack(links)
  <2> DEFINE fwd == ChainLink(links)
  <2>1. back2[e] = At(list, 0) /\ fwd2[e] = At(list, 1)
    BY <1>7, <1>10 DEF At
  <2>2. \A i \in DOMAIN list : back2[list[i]] = IF i = 1 THEN e ELSE back[list[i]]
    <3> SUFFICES ASSUME NEW i \in DOMAIN list PROVE back2[list[i]] = IF i = 1 THEN e ELSE back[list[i]]
      OBVIOUS
    <3>1. list[i] \in Elements /\ list[i] # e
      BY <1>11
    <3>2. back2[list[i]] = IF list[i] = first THEN e ELSE back[list[i]]
      BY <1>7, <3>1 DEF ChainBack
    <3>3. list[i] = first <=> i = 1
      BY <1>10 DEF At, IsInjective
    <3> QED
      BY <3>2, <3>3
  <2>3. \A i \in DOMAIN list : fwd2[list[i]] = IF i = 1 - 1 THEN e ELSE fwd[list[i]]
    BY <1>7, <1>10, <1>11 DEF ChainLink
  <2>4. 1 \in 1..Len(list) + 1 /\ 1 - 1 = 0
    BY <1>10
  <2>5. back2[e] = At(list, 1 - 1)
    BY <2>1, <2>4
  <2>6. e = IF 1 = 1 THEN e ELSE first
    OBVIOUS
  <2>7. Strung(list, first, back, fwd) /\ e \notin ToSet(list)
    BY <1>9, <1>12
  <2> HIDE DEF back2, fwd2, list, back, fwd, first
  <2>8. Strung(InsertAt(list, 1, e), e, back2, fwd2)
    BY <2>1, <2>2, <2>3, <2>4, <2>5, <2>6, <2>7, InsertStrung
  <2> QED
    BY <2>8 DEF back2, fwd2, list
<1>14. /\ ToSet(InsertAt(chains[m], 1, e)) = ToSet(chains[m]) \cup {e}
       /\ Len(InsertAt(chains[m], 1, e)) = Len(chains[m]) + 1
  <2>1. 1 \in 1..Len(chains[m]) + 1
    BY <1>10
  <2> QED
    BY <1>10, <2>1, InsertSet, InsertAtProperties
<1>15. ASSUME NEW b \in 0..n - 1
       PROVE  /\ Hung(chains2[b], buckets2[b], pushed)
              /\ ToSet(chains2[b]) = {x \in members \cup {e} : of[x] = b}
  <2>1. CASE b = m
    <3>1. chains2[b] = InsertAt(chains[m], 1, e)
      BY <2>1
    <3>2. buckets2[b].hhHead = e /\ buckets2[b].count = Len(chains[m]) + 1
      BY <1>8, <1>9, <2>1
    <3>3. Hung(chains2[b], buckets2[b], pushed)
      BY <1>13, <1>14, <3>1, <3>2 DEF Hung
    <3>4. ToSet(chains2[b]) = {x \in members : of[x] = b} \cup {e}
      BY <1>5, <1>14, <2>1, <3>1
    <3> QED
      BY <1>3, <2>1, <3>3, <3>4
  <2>2. CASE b # m
    <3>1. chains2[b] = chains[b] /\ buckets2[b] = buckets[b]
      BY <1>8, <2>2
    <3>2. ASSUME NEW x \in ToSet(chains[b])
          PROVE  /\ ChainBack(pushed)[x] = ChainBack(links)[x]
                 /\ ChainLink(pushed)[x] = ChainLink(links)[x]
      <4>1. x \in members /\ of[x] = b
        BY <1>5, <3>2
      <4>2. x # e /\ x \in Elements
        BY <4>1
      <4>3. x # first
        <5>1. SUFFICES ASSUME x = first PROVE FALSE
          OBVIOUS
        <5>2. first \in ToSet(chains[m])
          BY <1>10, <4>2, <5>1, HashTableAssumption DEF At, ToSet
        <5> QED
          BY <1>1, <1>5, <2>2, <4>1, <5>1, <5>2
      <4> QED
        BY <1>7, <4>2, <4>3 DEF ChainBack, ChainLink
    <3>3. Strung(chains[b], buckets[b].hhHead, ChainBack(links), ChainLink(links))
          /\ buckets[b].count = Len(chains[b])
      BY <1>5 DEF Hung
    <3> DEFINE back == ChainBack(links)
    <3> DEFINE fwd == ChainLink(links)
    <3> DEFINE back2 == ChainBack(pushed)
    <3> DEFINE fwd2 == ChainLink(pushed)
    <3> DEFINE c == chains[b]
    <3> DEFINE start == buckets[b].hhHead
    <3>4. Strung(c, start, back, fwd) /\ \A x \in ToSet(c) : back2[x] = back[x] /\ fwd2[x] = fwd[x]
      BY <3>2, <3>3
    <3> HIDE DEF back, fwd, back2, fwd2, c, start
    <3>5. Strung(c, start, back2, fwd2)
      BY <3>4, StrungKept
    <3>6. Hung(chains2[b], buckets2[b], pushed)
      BY <3>1, <3>3, <3>5 DEF Hung, back2, fwd2, c, start
    <3>7. {x \in members \cup {e} : of[x] = b} = {x \in members : of[x] = b}
      BY <1>3, <2>2
    <3> QED
      BY <1>5, <3>1, <3>6, <3>7
  <2> QED
    BY <2>1, <2>2
<1> HIDE DEF chains2, first
<1>16. Spread(chains2, buckets2, n, pushed, members \cup {e})
  BY <1>4, <1>15 DEF Spread
<1> QED
  BY <1>16 DEF chains2, pushed, first, m

(* An element is closed over in its chain, the others are as they were.    *)
Closing(n, chains, buckets, links, members, e, buckets2, links2) ==
  /\ n \in Nat \ {0} /\ buckets \in BucketArrays(n) /\ links \in Links /\ members \in SUBSET Elements
  /\ Spread(chains, buckets, n, links, members) /\ e \in members
  /\ buckets2 \in BucketArrays(n) /\ links2 \in Links
  /\ \A b \in 0..n - 1 :
       IF b = ToBucket(e, n)
       THEN /\ buckets2[b].hhHead = IF buckets[b].hhHead = e THEN links[e].hhNext ELSE buckets[b].hhHead
            /\ buckets2[b].count = buckets[b].count - 1
       ELSE buckets2[b] = buckets[b]
  /\ \A x \in Elements : x # e =>
       /\ links2[x].hhNext = IF x = links[e].hhPrev THEN links[e].hhNext ELSE links[x].hhNext
       /\ links2[x].hhPrev = IF x = links[e].hhNext THEN links[e].hhPrev ELSE links[x].hhPrev

LEMMA RemoveSpread ==
  ASSUME NEW n, NEW chains, NEW buckets, NEW links, NEW members, NEW e, NEW buckets2, NEW links2,
         Closing(n, chains, buckets, links, members, e, buckets2, links2)
  PROVE  \E chains2 : Spread(chains2, buckets2, n, links2, members \ {e})
<1>0. /\ n \in Nat \ {0} /\ buckets \in BucketArrays(n) /\ links \in Links /\ members \in SUBSET Elements
      /\ Spread(chains, buckets, n, links, members) /\ e \in members
      /\ buckets2 \in BucketArrays(n) /\ links2 \in Links
      /\ \A b \in 0..n - 1 :
           IF b = ToBucket(e, n)
           THEN /\ buckets2[b].hhHead = IF buckets[b].hhHead = e THEN links[e].hhNext ELSE buckets[b].hhHead
                /\ buckets2[b].count = buckets[b].count - 1
           ELSE buckets2[b] = buckets[b]
      /\ \A x \in Elements : x # e =>
           /\ links2[x].hhNext = IF x = links[e].hhPrev THEN links[e].hhNext ELSE links[x].hhNext
           /\ links2[x].hhPrev = IF x = links[e].hhNext THEN links[e].hhPrev ELSE links[x].hhPrev
  BY DEF Closing
<1> USE <1>0
<1> DEFINE m == ToBucket(e, n)
<1> DEFINE first == buckets[m].hhHead
<1> DEFINE of == [x \in Elements |-> ToBucket(x, n)]
<1> DEFINE back == ChainBack(links)
<1> DEFINE fwd == ChainLink(links)
<1> DEFINE back2 == ChainBack(links2)
<1> DEFINE fwd2 == ChainLink(links2)
<1> DEFINE start == buckets2[m].hhHead
<1> DEFINE list == chains[m]
<1>1. e \in Elements /\ m \in 0..n - 1
  BY BucketInRange
<1>2. \A b \in 0..n - 1 : {x \in members : ToBucket(x, n) = b} = {x \in members : of[x] = b}
  OBVIOUS
<1>3. of[e] = m
  BY <1>1
<1>4. \A b \in 0..n - 1 : {x \in members \ {e} : ToBucket(x, n) = b} = {x \in members \ {e} : of[x] = b}
  OBVIOUS
<1>5. \A b \in 0..n - 1 : Hung(chains[b], buckets[b], links) /\ ToSet(chains[b]) = {x \in members : of[x] = b}
  BY <1>2 DEF Spread
<1>6. \A b \in 0..n - 1 : b # m => buckets2[b] = buckets[b]
  OBVIOUS
<1>7. /\ start = IF first = e THEN fwd[e] ELSE first
      /\ buckets2[m].count = buckets[m].count - 1
  BY <1>1 DEF ChainLink
<1>8. \A x \in Elements : x # e =>
           /\ fwd2[x] = IF x = back[e] THEN fwd[e] ELSE fwd[x]
           /\ back2[x] = IF x = fwd[e] THEN back[e] ELSE back[x]
  BY <1>1 DEF ChainLink, ChainBack
<1>9. Strung(list, first, back, fwd) /\ buckets[m].count = Len(list) /\ ToSet(list) = {x \in members : of[x] = m}
  BY <1>1, <1>5 DEF Hung
<1> HIDE DEF m, of, first, back, fwd, back2, fwd2, start, list
<1>10. /\ list \in Seq(Elements) /\ Len(list) \in Nat /\ DOMAIN list = 1..Len(list)
       /\ first = At(list, 1) /\ IsInjective(list)
       /\ \A i \in DOMAIN list : back[list[i]] = At(list, i - 1) /\ fwd[list[i]] = At(list, i + 1)
  BY <1>9, LenProperties DEF Strung
<1>11. \A i \in DOMAIN list : list[i] \in Elements /\ list[i] # NoElem
  BY <1>10, ListLength
<1>12. PICK q \in DOMAIN list : list[q] = e
  <2>1. e \in ToSet(list)
    BY <1>3, <1>9
  <2> QED
    BY <2>1 DEF ToSet
<1>13. ASSUME NEW i \in DOMAIN list, i # q
       PROVE  /\ list[i] # e /\ list[i] \in Elements
              /\ list[i] = back[e] <=> i = q - 1
              /\ list[i] = fwd[e] <=> i = q + 1
  <2>1. \A j \in DOMAIN list : list[i] = list[j] => i = j
    BY <1>10 DEF IsInjective
  <2>2. back[e] = At(list, q - 1) /\ fwd[e] = At(list, q + 1)
    BY <1>10, <1>12
  <2>3. list[i] # NoElem /\ list[i] \in Elements
    BY <1>11
  <2>4. list[i] = At(list, q - 1) <=> i = q - 1
    BY <1>10, <1>12, <2>1, <2>3 DEF At
  <2>5. list[i] = At(list, q + 1) <=> i = q + 1
    BY <1>10, <1>12, <2>1, <2>3 DEF At
  <2> QED
    BY <1>12, <1>13, <2>1, <2>2, <2>3, <2>4, <2>5
<1>14. Strung(RemoveAt(list, q), start, back2, fwd2)
  <2>1. start = IF q = 1 THEN fwd[list[q]] ELSE first
    <3>1. q = 1 <=> first = e
      BY <1>10, <1>12 DEF At, IsInjective
    <3> QED
      BY <1>7, <1>12, <3>1
  <2>2. \A i \in DOMAIN list : i # q => back2[list[i]] = IF i = q + 1 THEN back[list[q]] ELSE back[list[i]]
    BY <1>8, <1>12, <1>13
  <2>3. \A i \in DOMAIN list : i # q => fwd2[list[i]] = IF i = q - 1 THEN fwd[list[q]] ELSE fwd[list[i]]
    BY <1>8, <1>12, <1>13
  <2> QED
    BY <1>9, <2>1, <2>2, <2>3, RemoveStrung
<1>15. /\ ToSet(RemoveAt(list, q)) = ToSet(list) \ {e}
       /\ Len(RemoveAt(list, q)) = Len(list) - 1
  <2>1. q \in 1..Len(list)
    BY <1>10
  <2>2. ToSet(RemoveAt(list, q)) = ToSet(list) \ {list[q]}
    BY <1>10, RemoveSet
  <2>3. Len(RemoveAt(list, q)) = Len(list) - 1
    BY <1>10, <2>1, RemoveAtProperties
  <2> QED
    BY <1>12, <2>2, <2>3
<1> DEFINE chains2 == [b \in 0..n - 1 |-> IF b = m THEN RemoveAt(list, q) ELSE chains[b]]
<1>16. ASSUME NEW b \in 0..n - 1
       PROVE  /\ Hung(chains2[b], buckets2[b], links2)
              /\ ToSet(chains2[b]) = {x \in members \ {e} : of[x] = b}
  <2>1. CASE b = m
    <3>1. chains2[b] = RemoveAt(list, q) /\ buckets2[b].hhHead = start /\ buckets2[b].count = Len(list) - 1
      BY <1>7, <1>9, <2>1 DEF start
    <3>2. Hung(chains2[b], buckets2[b], links2)
      BY <1>14, <1>15, <3>1 DEF Hung, back2, fwd2
    <3>3. ToSet(chains2[b]) = {x \in members : of[x] = b} \ {e}
      BY <1>9, <1>15, <2>1, <3>1
    <3> QED
      BY <3>2, <3>3
  <2>2. CASE b # m
    <3>1. chains2[b] = chains[b] /\ buckets2[b] = buckets[b]
      BY <1>6, <2>2
    <3> DEFINE c == chains[b]
    <3> DEFINE begin == buckets[b].hhHead
    <3>2. Strung(c, begin, back, fwd) /\ buckets[b].count = Len(c)
      BY <1>5 DEF Hung, back, fwd
    <3>3. ASSUME NEW x \in ToSet(c) PROVE back2[x] = back[x] /\ fwd2[x] = fwd[x]
      <4>1. x \in members /\ of[x] = b /\ x \in Elements /\ x # e
        BY <1>3, <1>5, <2>2, <3>3
      <4>2. x \notin ToSet(list)
        BY <1>9, <2>2, <4>1
      <4>3. x # back[e] /\ x # fwd[e]
        <5>1. back[e] = At(list, q - 1) /\ fwd[e] = At(list, q + 1)
          BY <1>10, <1>12
        <5>2. x # NoElem
          BY <4>1, HashTableAssumption
        <5> QED
          BY <4>2, <5>1, <5>2 DEF At, ToSet
      <4> QED
        BY <1>8, <4>1, <4>3
    <3> HIDE DEF c, begin
    <3>4. Strung(c, begin, back2, fwd2)
      BY <3>2, <3>3, StrungKept
    <3>5. Hung(chains2[b], buckets2[b], links2)
      BY <3>1, <3>2, <3>4 DEF Hung, back2, fwd2, c, begin
    <3>6. {x \in members \ {e} : of[x] = b} = {x \in members : of[x] = b}
      BY <1>3, <2>2
    <3> QED
      BY <1>5, <3>1, <3>5, <3>6
  <2> QED
    BY <2>1, <2>2
<1> HIDE DEF chains2
<1>17. Spread(chains2, buckets2, n, links2, members \ {e})
  BY <1>4, <1>16 DEF Spread
<1> QED
  BY <1>17

-----------------------------------------------------------------------------
(***************************************************************************)
(* The application order.                                                  *)
(***************************************************************************)
Listed(order, first, tail, links) ==
  /\ Strung(order, first, OrderBack(links), OrderLink(links))
  /\ tail = At(order, Len(order))

(* HASH_APPEND_LIST: one more at the end, the chains untouched.            *)
Following(links, order, first, tail, e) ==
  /\ links \in Links /\ Listed(order, first, tail, links) /\ order # << >>
  /\ e \in Elements /\ e \notin ToSet(order)

Followed(links2, links, order2, first, e) ==
  /\ links2 \in Links /\ Listed(order2, first, e, links2)
  /\ ChainBack(links2) = ChainBack(links) /\ ChainLink(links2) = ChainLink(links)

LEMMA AppendListed ==
  ASSUME NEW t, NEW links, NEW order, NEW first, NEW e,
         NEW tail, tail = t.tail, Following(links, order, first, tail, e)
  PROVE  /\ AppendList(t, links, e).tbl = [t EXCEPT !.tail = e]
         /\ Followed(AppendList(t, links, e).links, links, Append(order, e), first, e)
<1> DEFINE links2 == [links EXCEPT ![tail].next = e, ![e].prev = tail, ![e].next = NoElem]
<1> DEFINE back == OrderBack(links)
<1> DEFINE fwd == OrderLink(links)
<1> DEFINE back2 == OrderBack(links2)
<1> DEFINE fwd2 == OrderLink(links2)
<1> DEFINE k == Len(order)
<1>0. /\ links \in Links /\ Listed(order, first, tail, links) /\ order # << >>
      /\ e \in Elements /\ e \notin ToSet(order)
  BY DEF Following
<1>1. AppendList(t, links, e) = [tbl |-> [t EXCEPT !.tail = e], links |-> links2]
  BY DEF AppendList
<1>2. Strung(order, first, back, fwd) /\ tail = At(order, k)
  BY <1>0 DEF Listed
<1>3. /\ order \in Seq(Elements) /\ k \in Nat /\ k # 0 /\ DOMAIN order = 1..k
      /\ IsInjective(order) /\ first = At(order, 1)
      /\ \A i \in 1..k : back[order[i]] = At(order, i - 1) /\ fwd[order[i]] = At(order, i + 1)
  BY <1>0, <1>2, LenProperties, EmptySeq DEF Strung
<1>4. \A i \in 1..k : order[i] \in Elements /\ order[i] # e
  BY <1>0, <1>3, ElementOfSeq DEF ToSet
<1> HIDE DEF k
<1>5. tail = order[k] /\ tail \in Elements /\ tail # e
  BY <1>2, <1>3, <1>4 DEF At
<1>6. ASSUME NEW x \in Elements
      PROVE  /\ links2[x] \in [prev : Pointers, next : Pointers, hhPrev : Pointers, hhNext : Pointers]
             /\ links2[x].hhPrev = links[x].hhPrev /\ links2[x].hhNext = links[x].hhNext
             /\ links2[x].prev = IF x = e THEN tail ELSE links[x].prev
             /\ links2[x].next = IF x = e THEN NoElem ELSE IF x = tail THEN e ELSE links[x].next
  <2>1. links[x] \in [prev : Pointers, next : Pointers, hhPrev : Pointers, hhNext : Pointers]
    BY <1>0 DEF Links
  <2>2. e \in Pointers /\ NoElem \in Pointers /\ tail \in Pointers
    BY <1>0, <1>5 DEF Pointers
  <2>3. links2[x] = IF x = e THEN [links[x] EXCEPT !.prev = tail, !.next = NoElem]
                    ELSE IF x = tail THEN [links[x] EXCEPT !.next = e] ELSE links[x]
    BY <1>0, <1>5 DEF Links
  <2> HIDE DEF links2
  <2> QED
    BY <1>5, <2>1, <2>2, <2>3
<1>7. links2 = [x \in Elements |-> links2[x]]
  BY <1>0 DEF Links
<1> HIDE DEF links2
<1>8. links2 \in Links
  BY <1>6, <1>7 DEF Links
<1>9. ChainBack(links2) = ChainBack(links) /\ ChainLink(links2) = ChainLink(links)
  BY <1>6 DEF ChainBack, ChainLink
<1>10. \A x \in Elements : /\ back2[x] = IF x = e THEN tail ELSE back[x]
                           /\ fwd2[x] = IF x = e THEN NoElem ELSE IF x = tail THEN e ELSE fwd[x]
  BY <1>0, <1>6 DEF OrderBack, OrderLink
<1> HIDE DEF back, fwd, back2, fwd2
<1> DEFINE p == k + 1
<1>11. Strung(InsertAt(order, p, e), first, back2, fwd2)
  <2>1. p \in 1..k + 1 /\ p # 1 /\ p - 1 = k /\ At(order, p) = NoElem
    BY <1>3 DEF At
  <2>2. back2[e] = At(order, p - 1) /\ fwd2[e] = At(order, p)
    BY <1>0, <1>2, <1>10, <2>1
  <2>3. \A i \in DOMAIN order : back2[order[i]] = IF i = p THEN e ELSE back[order[i]]
    BY <1>3, <1>4, <1>10
  <2>4. \A i \in DOMAIN order : fwd2[order[i]] = IF i = p - 1 THEN e ELSE fwd[order[i]]
    <3> SUFFICES ASSUME NEW i \in DOMAIN order PROVE fwd2[order[i]] = IF i = p - 1 THEN e ELSE fwd[order[i]]
      OBVIOUS
    <3>1. order[i] = tail <=> i = k
      BY <1>3, <1>5 DEF IsInjective
    <3> QED
      BY <1>3, <1>4, <1>10, <2>1, <3>1
  <2>5. p \in 1..Len(order) + 1 /\ first = IF p = 1 THEN e ELSE first
    BY <2>1 DEF k
  <2> HIDE DEF p
  <2> QED
    BY <1>0, <1>2, <2>2, <2>3, <2>4, <2>5, InsertStrung
<1>12. InsertAt(order, p, e) = Append(order, e)
  BY <1>0, <1>3, InsertAtEnd DEF k
<1>13. e = At(Append(order, e), Len(Append(order, e)))
  BY <1>0, <1>3, AppendProperties DEF At, k
<1>14. Listed(Append(order, e), first, e, links2)
  BY <1>11, <1>12, <1>13 DEF Listed, back2, fwd2
<1>15. AppendList(t, links, e).tbl = [t EXCEPT !.tail = e] /\ AppendList(t, links, e).links = links2
  BY <1>1
<1> QED
  BY <1>8, <1>9, <1>14, <1>15 DEF Followed

(* HASH_ADD_INORDER: before the place p, the chains untouched.             *)
LEMMA InsertListed ==
  ASSUME NEW t, NEW links \in Links, NEW order, NEW first, NEW tail,
         Listed(order, first, tail, links), NEW p \in DOMAIN order,
         NEW e \in Elements, e \notin ToSet(order)
  PROVE  /\ InsertBefore(t, links, order[p], e).tbl = t
         /\ InsertBefore(t, links, order[p], e).links \in Links
         /\ Listed(InsertAt(order, p, e), IF first = order[p] THEN e ELSE first, tail,
                   InsertBefore(t, links, order[p], e).links)
         /\ ChainBack(InsertBefore(t, links, order[p], e).links) = ChainBack(links)
         /\ ChainLink(InsertBefore(t, links, order[p], e).links) = ChainLink(links)
<1> DEFINE at == order[p]
<1> DEFINE before == links[at].prev
<1> DEFINE links2 == InsertBefore(t, links, at, e).links
<1> DEFINE back == OrderBack(links)
<1> DEFINE fwd == OrderLink(links)
<1> DEFINE back2 == OrderBack(links2)
<1> DEFINE fwd2 == OrderLink(links2)
<1> DEFINE k == Len(order)
<1> DEFINE first2 == IF first = at THEN e ELSE first
<1>1. /\ InsertBefore(t, links, at, e).tbl = t
      /\ links2 = [x \in Elements |->
                    IF x = e THEN [links[x] EXCEPT !.next = at, !.prev = before]
                    ELSE IF x = at THEN [links[x] EXCEPT !.prev = e]
                    ELSE IF x = before THEN [links[x] EXCEPT !.next = e]
                    ELSE links[x]]
  BY DEF InsertBefore
<1>2. Strung(order, first, back, fwd) /\ tail = At(order, k)
  BY DEF Listed
<1>3. /\ order \in Seq(Elements) /\ k \in Nat /\ DOMAIN order = 1..k
      /\ IsInjective(order) /\ first = At(order, 1)
      /\ \A i \in 1..k : back[order[i]] = At(order, i - 1) /\ fwd[order[i]] = At(order, i + 1)
  BY <1>2, LenProperties DEF Strung
<1>4. \A i \in 1..k : order[i] \in Elements /\ order[i] # e /\ order[i] # NoElem
  BY <1>3, ElementOfSeq, ListLength DEF ToSet
<1> HIDE DEF k
<1>5. at \in Elements /\ at # e /\ p \in 1..k /\ before = At(order, p - 1) /\ before # e
  <2>1. at \in Elements /\ at # e /\ p \in 1..k
    BY <1>3, <1>4
  <2>2. before = At(order, p - 1)
    BY <1>3, <2>1 DEF OrderBack
  <2>3. e # NoElem
    BY HashTableAssumption
  <2> QED
    BY <1>3, <1>4, <2>1, <2>2, <2>3 DEF At
<1>6. before # at
  BY <1>3, <1>4, <1>5 DEF At, IsInjective
<1>7. at = order[p] /\ before \in Pointers
  BY <1>3, <1>4, <1>5 DEF At, Pointers
<1> HIDE DEF at, before, links2
<1>8. ASSUME NEW x \in Elements
      PROVE  /\ links2[x] \in [prev : Pointers, next : Pointers, hhPrev : Pointers, hhNext : Pointers]
             /\ links2[x].hhPrev = links[x].hhPrev /\ links2[x].hhNext = links[x].hhNext
             /\ links2[x].prev = IF x = e THEN before ELSE IF x = at THEN e ELSE links[x].prev
             /\ links2[x].next = IF x = e THEN at ELSE IF x = before THEN e ELSE links[x].next
  <2>1. links[x] \in [prev : Pointers, next : Pointers, hhPrev : Pointers, hhNext : Pointers]
    BY DEF Links
  <2>2. e \in Pointers /\ at \in Pointers /\ before \in Pointers
    BY <1>5, <1>7 DEF Pointers
  <2>3. links2[x] = IF x = e THEN [links[x] EXCEPT !.next = at, !.prev = before]
                    ELSE IF x = at THEN [links[x] EXCEPT !.prev = e]
                    ELSE IF x = before THEN [links[x] EXCEPT !.next = e]
                    ELSE links[x]
    BY <1>1
  <2> QED
    BY <1>5, <1>6, <2>1, <2>2, <2>3
<1>9. links2 = [x \in Elements |-> links2[x]]
  BY <1>1
<1>10. links2 \in Links
  BY <1>8, <1>9 DEF Links
<1>11. ChainBack(links2) = ChainBack(links) /\ ChainLink(links2) = ChainLink(links)
  BY <1>8 DEF ChainBack, ChainLink
<1>12. \A x \in Elements : /\ back2[x] = IF x = e THEN before ELSE IF x = at THEN e ELSE back[x]
                           /\ fwd2[x] = IF x = e THEN at ELSE IF x = before THEN e ELSE fwd[x]
  BY <1>8 DEF OrderBack, OrderLink
<1> HIDE DEF back, fwd, back2, fwd2
<1>13. \A i \in DOMAIN order : (order[i] = at <=> i = p) /\ (order[i] = before <=> i = p - 1)
  BY <1>3, <1>4, <1>5, <1>7 DEF At, IsInjective
<1>14. first = at <=> p = 1
  BY <1>3, <1>4, <1>5, <1>7, HashTableAssumption DEF At, IsInjective
<1>15. Strung(InsertAt(order, p, e), first2, back2, fwd2)
  <2>1. p \in 1..Len(order) + 1
    BY <1>3, <1>5 DEF k
  <2>2. back2[e] = At(order, p - 1) /\ fwd2[e] = At(order, p)
    BY <1>3, <1>5, <1>7, <1>12 DEF At
  <2>3. \A i \in DOMAIN order : back2[order[i]] = IF i = p THEN e ELSE back[order[i]]
    BY <1>3, <1>4, <1>12, <1>13
  <2>4. \A i \in DOMAIN order : fwd2[order[i]] = IF i = p - 1 THEN e ELSE fwd[order[i]]
    BY <1>3, <1>4, <1>12, <1>13
  <2>5. first2 = IF p = 1 THEN e ELSE first
    BY <1>14
  <2> HIDE DEF first2
  <2> QED
    BY <1>2, <2>1, <2>2, <2>3, <2>4, <2>5, InsertStrung
<1>16. tail = At(InsertAt(order, p, e), Len(InsertAt(order, p, e)))
  <2>1. p \in 1..Len(order) + 1
    BY <1>3, <1>5 DEF k
  <2>2. /\ InsertAt(order, p, e) \in Seq(Elements) /\ Len(InsertAt(order, p, e)) = Len(order) + 1
        /\ \A j \in 1..Len(order) + 1 :
             InsertAt(order, p, e)[j] = IF j < p THEN order[j] ELSE IF j = p THEN e ELSE order[j - 1]
    <3>1. order \in Seq(Elements)
      BY <1>3
    <3>2. ASSUME NEW i \in 1..Len(order) + 1
          PROVE  /\ InsertAt(order, i, e) \in Seq(Elements) /\ Len(InsertAt(order, i, e)) = Len(order) + 1
                 /\ \A j \in 1..Len(order) + 1 :
                      InsertAt(order, i, e)[j] = IF j < i THEN order[j] ELSE IF j = i THEN e ELSE order[j - 1]
      BY <3>1, InsertAtProperties
    <3> QED
      BY <2>1, <3>2
  <2> DEFINE u == InsertAt(order, p, e)
  <2> HIDE DEF u
  <2>3. u \in Seq(Elements) /\ Len(u) = k + 1 /\ u[k + 1] = order[k] /\ k + 1 \in DOMAIN u
    <3>1. u \in Seq(Elements) /\ Len(u) = k + 1
      BY <2>2 DEF u, k
    <3>2. \A j \in 1..k + 1 : u[j] = IF j < p THEN order[j] ELSE IF j = p THEN e ELSE order[j - 1]
      BY <2>2 DEF u, k
    <3>3. k + 1 \in 1..k + 1 /\ ~(k + 1 < p) /\ k + 1 # p /\ (k + 1) - 1 = k
      BY <1>3, <1>5
    <3>4. u[k + 1] = order[k]
      BY <3>2, <3>3
    <3> QED
      BY <3>1, <3>3, <3>4, LenProperties
  <2>4. At(u, Len(u)) = At(order, k)
    BY <1>3, <1>5, <2>3 DEF At
  <2> QED
    BY <1>2, <2>4 DEF u
<1>17. Listed(InsertAt(order, p, e), first2, tail, links2)
  BY <1>15, <1>16 DEF Listed, back2, fwd2
<1> QED
  BY <1>1, <1>10, <1>11, <1>17 DEF links2, at

(* HASH_DELETE closes both lists over the element and forgets its links.   *)
DeletedLinks(links, e) == Forget(CloseChain(CloseOrder(links, e), e), {e})

LEMMA DeletedLinksValues ==
  ASSUME NEW links \in Links, NEW e \in Elements
  PROVE  /\ DeletedLinks(links, e) \in Links
         /\ \A x \in Elements : x # e =>
              /\ DeletedLinks(links, e)[x].next = IF x = links[e].prev THEN links[e].next ELSE links[x].next
              /\ DeletedLinks(links, e)[x].prev = IF x = links[e].next THEN links[e].prev ELSE links[x].prev
              /\ DeletedLinks(links, e)[x].hhNext = IF x = links[e].hhPrev THEN links[e].hhNext ELSE links[x].hhNext
              /\ DeletedLinks(links, e)[x].hhPrev = IF x = links[e].hhNext THEN links[e].hhPrev ELSE links[x].hhPrev
<1> DEFINE Rec == [prev : Pointers, next : Pointers, hhPrev : Pointers, hhNext : Pointers]
<1> DEFINE closed == CloseOrder(links, e)
<1> DEFINE done == CloseChain(closed, e)
<1> DEFINE links2 == Forget(done, {e})
<1>1. \A x \in Elements : links[x] \in Rec
  BY DEF Links
<1>2. ASSUME NEW x \in Elements
      PROVE  /\ closed[x] \in Rec
             /\ closed[x].next = IF x = links[e].prev THEN links[e].next ELSE links[x].next
             /\ closed[x].prev = IF x = links[e].next THEN links[e].prev ELSE links[x].prev
             /\ closed[x].hhNext = links[x].hhNext /\ closed[x].hhPrev = links[x].hhPrev
  <2>1. closed[x] = [links[x] EXCEPT
                      !.next = IF x = links[e].prev THEN links[e].next ELSE @,
                      !.prev = IF x = links[e].next THEN links[e].prev ELSE @]
    BY DEF CloseOrder
  <2> HIDE DEF closed
  <2> QED
    BY <1>1, <2>1
<1> HIDE DEF closed
<1>3. ASSUME NEW x \in Elements
      PROVE  /\ done[x] \in Rec
             /\ done[x].hhNext = IF x = closed[e].hhPrev THEN closed[e].hhNext ELSE closed[x].hhNext
             /\ done[x].hhPrev = IF x = closed[e].hhNext THEN closed[e].hhPrev ELSE closed[x].hhPrev
             /\ done[x].next = closed[x].next /\ done[x].prev = closed[x].prev
  <2>1. done[x] = [closed[x] EXCEPT
                    !.hhNext = IF x = closed[e].hhPrev THEN closed[e].hhNext ELSE @,
                    !.hhPrev = IF x = closed[e].hhNext THEN closed[e].hhPrev ELSE @]
    BY DEF CloseChain
  <2> HIDE DEF done
  <2>2. closed[x] \in Rec /\ closed[e] \in Rec
    BY <1>2
  <2> QED
    BY <2>1, <2>2
<1> HIDE DEF done
<1>4. \A x \in Elements : links2[x] = IF x = e THEN NoLinks ELSE done[x]
  BY DEF Forget
<1>5. links2 = [x \in Elements |-> links2[x]]
  BY DEF Forget
<1>6. NoLinks \in Rec
  BY DEF NoLinks, Pointers
<1>7. links2 = DeletedLinks(links, e)
  BY DEF DeletedLinks, done, closed
<1> HIDE DEF links2, Rec
<1>8. links2 \in [Elements -> Rec]
  BY <1>3, <1>4, <1>5, <1>6
<1>9. links2 \in Links
  BY <1>8 DEF Links, Rec
<1>10. ASSUME NEW x \in Elements, x # e
       PROVE  /\ links2[x].next = IF x = links[e].prev THEN links[e].next ELSE links[x].next
              /\ links2[x].prev = IF x = links[e].next THEN links[e].prev ELSE links[x].prev
              /\ links2[x].hhNext = IF x = links[e].hhPrev THEN links[e].hhNext ELSE links[x].hhNext
              /\ links2[x].hhPrev = IF x = links[e].hhNext THEN links[e].hhPrev ELSE links[x].hhPrev
  BY <1>2, <1>3, <1>4, <1>10
<1> QED
  BY <1>7, <1>9, <1>10

-----------------------------------------------------------------------------
(***************************************************************************)
(* HASH_EXPAND_BUCKETS.  A bucket that has got count elements has been     *)
(* granted no more than it needs and no less than half of it.              *)
(***************************************************************************)
Transfers(n) == [buckets : BucketArrays(n), links : Links, nonideal : Nat]

Granted(count, mult, ideal) ==
  \/ count <= ideal /\ mult = 0
  \/ /\ count > ideal /\ mult >= 1
     /\ (mult - 1) * ideal < count /\ count <= (mult + 1) * ideal

Moved(chains, s, n, ideal, links, members) ==
  /\ s \in Transfers(n)
  /\ OrderLink(s.links) = OrderLink(links) /\ OrderBack(s.links) = OrderBack(links)
  /\ Spread(chains, s.buckets, n, s.links, members)
  /\ \A b \in 0..n - 1 : Granted(s.buckets[b].count, s.buckets[b].mult, ideal)

LEMMA GrantedNext ==
  ASSUME NEW count \in Nat, NEW mult \in Nat, NEW ideal \in Nat \ {0}, Granted(count, mult, ideal)
  PROVE  Granted(count + 1,
                 IF count + 1 > ideal /\ count + 1 > mult * ideal THEN mult + 1 ELSE mult, ideal)
<1> DEFINE m == mult * ideal
<1>1. /\ m \in Nat /\ (mult - 1) * ideal = m - ideal /\ (mult + 1) * ideal = m + ideal
      /\ ((mult + 1) - 1) * ideal = m /\ ((mult + 1) + 1) * ideal = m + 2 * ideal
      /\ (mult = 0 => m = 0)
  BY SMT
<1> HIDE DEF m
<1>2. \/ count <= ideal /\ mult = 0
      \/ count > ideal /\ mult >= 1 /\ m - ideal < count /\ count <= m + ideal
  BY <1>1 DEF Granted
<1>3. CASE count + 1 <= ideal
  BY <1>1, <1>2, <1>3 DEF Granted
<1>4. CASE count + 1 > ideal /\ count + 1 > m
  <2>1. m < count + 1 /\ count + 1 <= m + 2 * ideal
    BY <1>1, <1>2, <1>4
  <2> QED
    BY <1>1, <1>4, <2>1 DEF Granted, m
<1>5. CASE count + 1 > ideal /\ ~(count + 1 > m)
  <2>1. mult >= 1 /\ m - ideal < count + 1 /\ count + 1 <= m + ideal
    BY <1>1, <1>2, <1>5
  <2> QED
    BY <1>1, <1>5, <2>1 DEF Granted, m
<1> QED
  BY <1>3, <1>4, <1>5

LEMMA RehashType ==
  ASSUME NEW n \in Nat \ {0}, NEW ideal \in Nat, NEW s \in Transfers(n), NEW e \in Elements
  PROVE  Rehash(s, e, n, ideal) \in Transfers(n)
<1> DEFINE b == ToBucket(e, n)
<1> DEFINE old == s.buckets[b]
<1> DEFINE over == old.count + 1 > ideal
<1> DEFINE more == over /\ old.count + 1 > old.mult * ideal
<1> DEFINE new == [hhHead |-> e, count |-> old.count + 1, mult |-> IF more THEN old.mult + 1 ELSE old.mult]
<1>1. b \in 0..n - 1
  BY BucketInRange
<1>2. s.buckets \in BucketArrays(n) /\ s.links \in Links /\ s.nonideal \in Nat
  BY DEF Transfers
<1>3. old \in [hhHead : Pointers, count : Nat, mult : Nat]
  BY <1>1, <1>2 DEF BucketArrays
<1>4. Rehash(s, e, n, ideal) =
        [buckets |-> [s.buckets EXCEPT ![b] = new], links |-> Push(s.links, e, old.hhHead),
         nonideal |-> IF over THEN s.nonideal + 1 ELSE s.nonideal]
  BY DEF Rehash
<1> HIDE DEF b, over, more
<1>5. Push(s.links, e, old.hhHead) \in Links
  <2>1. old.hhHead \in Pointers
    BY <1>3
  <2> HIDE DEF old
  <2> QED
    BY <1>2, <2>1, PushKeepsOrder
<1> HIDE DEF old
<1>6. new \in [hhHead : Pointers, count : Nat, mult : Nat]
  BY <1>3 DEF Pointers
<1> HIDE DEF new
<1>7. [s.buckets EXCEPT ![b] = new] \in BucketArrays(n)
  BY <1>1, <1>2, <1>6 DEF BucketArrays
<1>8. (IF over THEN s.nonideal + 1 ELSE s.nonideal) \in Nat
  BY <1>2
<1> QED
  BY <1>4, <1>5, <1>7, <1>8 DEF Transfers

LEMMA RehashMoved ==
  ASSUME NEW n \in Nat \ {0}, NEW ideal \in Nat \ {0}, NEW links, NEW members \in SUBSET Elements,
         NEW chains, NEW s, Moved(chains, s, n, ideal, links, members),
         NEW e \in Elements, e \notin members
  PROVE  \E chains2 : Moved(chains2, Rehash(s, e, n, ideal), n, ideal, links, members \cup {e})
<1> DEFINE r == Rehash(s, e, n, ideal)
<1> DEFINE m == ToBucket(e, n)
<1> DEFINE old == s.buckets[m]
<1>1. s \in Transfers(n) /\ m \in 0..n - 1
  BY BucketInRange DEF Moved
<1>2. r \in Transfers(n)
  BY <1>1, RehashType
<1>3. s.buckets \in BucketArrays(n) /\ s.links \in Links /\ r.buckets \in BucketArrays(n)
  BY <1>1, <1>2 DEF Transfers
<1>4. old \in [hhHead : Pointers, count : Nat, mult : Nat]
  BY <1>1, <1>3 DEF BucketArrays
<1> DEFINE mult2 == IF old.count + 1 > ideal /\ old.count + 1 > old.mult * ideal
                    THEN old.mult + 1 ELSE old.mult
<1>5. /\ r.buckets = [s.buckets EXCEPT ![m] = [hhHead |-> e, count |-> old.count + 1, mult |-> mult2]]
      /\ r.links = Push(s.links, e, old.hhHead)
  BY DEF Rehash
<1>6. \A b \in 0..n - 1 :
        IF b = m THEN r.buckets[b] = [hhHead |-> e, count |-> old.count + 1, mult |-> mult2]
        ELSE r.buckets[b] = s.buckets[b]
  <2>1. DOMAIN s.buckets = 0..n - 1
    BY <1>3 DEF BucketArrays
  <2> HIDE DEF m, old, r, mult2
  <2> QED
    BY <1>5, <2>1
<1>7. /\ r.links \in Links /\ OrderLink(r.links) = OrderLink(s.links)
      /\ OrderBack(r.links) = OrderBack(s.links)
  <2>1. old.hhHead \in Pointers
    BY <1>4
  <2> HIDE DEF old, r
  <2> QED
    BY <1>3, <1>5, <2>1, PushKeepsOrder
<1>8. \E chains2 : Spread(chains2, r.buckets, n, r.links, members \cup {e})
  <2>1. Spread(chains, s.buckets, n, s.links, members)
    BY DEF Moved
  <2>2. \A b \in 0..n - 1 :
          IF b = ToBucket(e, n)
          THEN r.buckets[b].hhHead = e /\ r.buckets[b].count = s.buckets[b].count + 1
          ELSE r.buckets[b] = s.buckets[b]
    <3> HIDE DEF r, mult2
    <3> QED
      BY <1>6
  <2>3. r.links = Push(s.links, e, s.buckets[ToBucket(e, n)].hhHead)
    BY <1>5
  <2> HIDE DEF r
  <2> DEFINE bs == s.buckets
  <2> DEFINE ls == s.links
  <2> DEFINE bs2 == r.buckets
  <2>4. bs \in BucketArrays(n) /\ bs2 \in BucketArrays(n) /\ ls \in Links
    BY <1>3
  <2> HIDE DEF bs, ls, bs2
  <2>5. Spread([b \in 0..n - 1 |-> IF b = ToBucket(e, n) THEN InsertAt(chains[b], 1, e) ELSE chains[b]],
               bs2, n, Push(ls, e, bs[ToBucket(e, n)].hhHead), members \cup {e})
    <3>1. Spread(chains, bs, n, ls, members)
      BY <2>1 DEF bs, ls
    <3>2. \A b \in 0..n - 1 :
            IF b = ToBucket(e, n)
            THEN bs2[b].hhHead = e /\ bs2[b].count = bs[b].count + 1
            ELSE bs2[b] = bs[b]
      BY <2>2 DEF bs, bs2
    <3> QED
      BY <2>4, <3>1, <3>2, PushSpread
  <2> QED
    BY <2>3, <2>5 DEF bs, ls, bs2
<1>9. \A b \in 0..n - 1 : Granted(r.buckets[b].count, r.buckets[b].mult, ideal)
  <2>1. ASSUME NEW b \in 0..n - 1 PROVE Granted(s.buckets[b].count, s.buckets[b].mult, ideal)
    BY DEF Moved
  <2>2. Granted(old.count + 1, mult2, ideal)
    <3>1. Granted(old.count, old.mult, ideal)
      BY <1>1, <2>1
    <3>2. old.count \in Nat /\ old.mult \in Nat
      BY <1>4
    <3> HIDE DEF old
    <3> QED
      BY <3>1, <3>2, GrantedNext
  <2> HIDE DEF r, mult2, old, m
  <2> QED
    BY <1>6, <2>1, <2>2
<1> HIDE DEF r
<1>10. OrderLink(r.links) = OrderLink(links) /\ OrderBack(r.links) = OrderBack(links)
  BY <1>7 DEF Moved
<1> QED
  BY <1>2, <1>8, <1>9, <1>10 DEF Moved, r

(* The elements of a chain are moved one after the other.                  *)
MoveStep(chain, n, ideal) ==
  [k \in 1..Len(chain) |-> [v \in Transfers(n) |-> Rehash(v, chain[k], n, ideal)]]

LEMMA MovePartials ==
  ASSUME NEW n \in Nat \ {0}, NEW ideal \in Nat, NEW s \in Transfers(n), NEW chain \in Seq(Elements)
  PROVE  \E part : Partials(part, Len(chain), Transfers(n), s, MoveStep(chain, n, ideal),
                            Move(s, chain, n, ideal))
<1> DEFINE k == Len(chain)
<1> DEFINE V == Transfers(n)
<1> DEFINE G == MoveStep(chain, n, ideal)
<1>1. k \in Nat /\ DOMAIN chain = 1..k /\ \A i \in 1..k : chain[i] \in Elements
  BY LenProperties, ElementOfSeq
<1> DEFINE Body(it) == [t \in SUBSET DOMAIN chain |->
                          IF t = {} THEN s ELSE Rehash(it[t \ {Max(t)}], chain[Max(t)], n, ideal)]
<1> DEFINE ch == CHOOSE it : it = Body(it)
<1>2. Move(s, chain, n, ideal) = ch[1..k]
  <2> HIDE DEF k
  <2> QED
    BY <1>1 DEF Move, FoldLeft, MapThenFoldSet
<1>3. ASSUME NEW v \in V, NEW i \in 1..k
      PROVE  Rehash(v, chain[i], n, ideal) \in V /\ G[i][v] = Rehash(v, chain[i], n, ideal)
  <2>1. chain[i] \in Elements
    BY <1>1
  <2>2. Rehash(v, chain[i], n, ideal) \in V
    BY <2>1, RehashType
  <2>3. G[i][v] = Rehash(v, chain[i], n, ideal)
    BY DEF MoveStep
  <2> QED
    BY <2>2, <2>3
<1>4. G \in [1..k -> [V -> V]]
  <2> HIDE DEF V
  <2> QED
    BY <1>3 DEF MoveStep, V
<1> HIDE DEF k, V, G
<1>5. s \in V
  BY DEF V
<1>6. ASSUME NEW t \in SUBSET (1..k), t # {}
      PROVE  Max(t) \in 1..k /\ t \ {Max(t)} \in SUBSET (1..k)
  <2>1. Max(t) \in t
    BY <1>1, <1>6, MaxMember, Zenon
  <2> QED
    BY <2>1
<1>7. \E it : it = Body(it)
  <2>1. PICK it : Folds(it, k, V, s, G)
    BY <1>1, <1>4, <1>5, FoldExists
  <2>2. ASSUME NEW t \in SUBSET (1..k), t # {}
        PROVE  G[Max(t)][it[t \ {Max(t)}]] = Rehash(it[t \ {Max(t)}], chain[Max(t)], n, ideal)
    <3>1. Max(t) \in 1..k /\ it[t \ {Max(t)}] \in V
      BY <1>6, <2>1, <2>2 DEF Folds
    <3> QED
      BY <1>3, <3>1
  <2>3. it = Body(it)
    BY <1>1, <2>1, <2>2, Zenon DEF Folds
  <2> QED
    BY <2>3
<1>8. ch = Body(ch)
  <2> HIDE DEF Body
  <2> QED
    BY <1>7
<1> HIDE DEF ch
<1>9. ch[{}] = s
  BY <1>8
<1>10. ASSUME NEW t \in SUBSET (1..k), t # {}, ch[t \ {Max(t)}] \in V
       PROVE  ch[t] = G[Max(t)][ch[t \ {Max(t)}]]
  <2>1. ch[t] = Rehash(ch[t \ {Max(t)}], chain[Max(t)], n, ideal)
    BY <1>1, <1>8, <1>10, Zenon
  <2> QED
    BY <1>3, <1>6, <1>10, <2>1
<1> HIDE DEF Body
<1>11. PICK part : Partials(part, k, V, s, G, ch[1..k])
  BY <1>1, <1>4, <1>5, <1>9, <1>10, FoldValue
<1> QED
  BY <1>2, <1>11 DEF k, V, G

LEMMA MoveMoved ==
  ASSUME NEW n \in Nat \ {0}, NEW ideal \in Nat \ {0}, NEW links, NEW members \in SUBSET Elements,
         NEW s \in Transfers(n), \E chains : Moved(chains, s, n, ideal, links, members),
         NEW chain \in Seq(Elements), IsInjective(chain), ToSet(chain) \cap members = {}
  PROVE  /\ Move(s, chain, n, ideal) \in Transfers(n)
         /\ \E chains : Moved(chains, Move(s, chain, n, ideal), n, ideal, links, members \cup ToSet(chain))
<1> DEFINE k == Len(chain)
<1> DEFINE upTo == [i \in 0..k |-> {chain[j] : j \in 1..i}]
<1>1. k \in Nat /\ DOMAIN chain = 1..k /\ \A i \in 1..k : chain[i] \in Elements
  BY LenProperties, ElementOfSeq
<1>2. PICK part : Partials(part, k, Transfers(n), s, MoveStep(chain, n, ideal), Move(s, chain, n, ideal))
  <2>1. ideal \in Nat
    OBVIOUS
  <2> QED
    BY <2>1, MovePartials
<1> HIDE DEF k
<1>3. ASSUME NEW i \in 1..k PROVE part[i] = Rehash(part[i - 1], chain[i], n, ideal)
  <2>1. i - 1 \in 0..k
    BY <1>1
  <2>2. part[i - 1] \in Transfers(n) /\ part[i] = MoveStep(chain, n, ideal)[i][part[i - 1]]
    BY <1>2, <2>1 DEF Partials
  <2> QED
    BY <2>2 DEF MoveStep, k
<1>4. part[0] = s /\ part[k] = Move(s, chain, n, ideal) /\ part[k] \in Transfers(n)
  <2>1. k \in 0..k
    BY <1>1
  <2> QED
    BY <1>2, <2>1 DEF Partials
<1>5. \A i \in 1..k : upTo[i] = upTo[i - 1] \cup {chain[i]} /\ chain[i] \notin upTo[i - 1]
  <2> SUFFICES ASSUME NEW i \in 1..k PROVE upTo[i] = upTo[i - 1] \cup {chain[i]} /\ chain[i] \notin upTo[i - 1]
    OBVIOUS
  <2>1. i \in 0..k /\ i - 1 \in 0..k /\ 1..i = (1..i - 1) \cup {i} /\ i \notin 1..i - 1
    BY <1>1
  <2>2. \A j \in 1..i - 1 : j \in DOMAIN chain /\ i \in DOMAIN chain /\ j # i
    BY <1>1
  <2>3. \A j \in 1..i - 1 : chain[j] # chain[i]
    BY <2>2 DEF IsInjective
  <2>4. upTo[i] = {chain[j] : j \in 1..i} /\ upTo[i - 1] = {chain[j] : j \in 1..i - 1}
    BY <2>1
  <2> QED
    BY <2>1, <2>3, <2>4
<1>6. upTo[0] = {} /\ upTo[k] = ToSet(chain)
  BY <1>1 DEF ToSet
<1>7. \A i \in 0..k : upTo[i] \in SUBSET Elements
  BY <1>1
<1>8. \A i \in 1..k : chain[i] \notin members
  BY <1>1 DEF ToSet
<1> DEFINE W == [i \in 0..k |-> {v \in Transfers(n) :
                  \E chains : Moved(chains, v, n, ideal, links, members \cup upTo[i])}]
<1> HIDE DEF upTo
<1>9. part[0] \in W[0]
  <2>1. members \cup upTo[0] = members /\ 0 \in 0..k
    BY <1>1, <1>6
  <2> QED
    BY <1>4, <2>1
<1>10. ASSUME NEW i \in 1..k, part[i - 1] \in W[i - 1] PROVE part[i] \in W[i]
  <2> DEFINE M == members \cup upTo[i - 1]
  <2> DEFINE e == chain[i]
  <2> DEFINE v == part[i - 1]
  <2>1. i \in 0..k /\ i - 1 \in 0..k
    BY <1>1
  <2>2. PICK chains : Moved(chains, v, n, ideal, links, M)
    BY <1>10, <2>1
  <2>3. M \in SUBSET Elements /\ e \in Elements /\ e \notin M /\ members \cup upTo[i] = M \cup {e}
    BY <1>1, <1>5, <1>7, <1>8, <2>1
  <2>4. v \in Transfers(n)
    BY <1>10, <2>1
  <2> HIDE DEF M, e, v
  <2>5. \E chains2 : Moved(chains2, Rehash(v, e, n, ideal), n, ideal, links, M \cup {e})
    BY <2>2, <2>3, RehashMoved
  <2>6. Rehash(v, e, n, ideal) \in Transfers(n)
    BY <2>3, <2>4, RehashType
  <2>7. part[i] = Rehash(v, e, n, ideal)
    BY <1>3 DEF v, e
  <2> QED
    BY <2>1, <2>3, <2>5, <2>6, <2>7
<1> HIDE DEF W
<1>11. \A i \in 0..k : part[i] \in W[i]
  BY <1>1, <1>9, <1>10, StagesHold
<1>12. part[k] \in W[k] /\ k \in 0..k
  BY <1>1, <1>11
<1> QED
  BY <1>4, <1>6, <1>12 DEF W

(* The chains are moved one after the other.                               *)
TransferStep(chains, k, n, ideal) ==
  [i \in 1..k |-> [v \in Transfers(n) |-> Move(v, chains[i - 1], n, ideal)]]

LEMMA NumBuckets ==
  ASSUME NEW n \in Nat, NEW t \in Tables(n)
  PROVE  Num(t) = n
<1>1. DOMAIN t.buckets = 0..n - 1
  BY DEF Tables, BucketArrays
<1>2. Cardinality(0..n - 1) = n
  <2>1. 0 \in Int /\ n - 1 \in Int
    OBVIOUS
  <2>2. Cardinality(0..n - 1) = IF 0 > n - 1 THEN 0 ELSE ((n - 1) - 0) + 1
    BY <2>1, FS_Interval
  <2> QED
    BY <2>2
<1> QED
  BY <1>1, <1>2 DEF Num

LEMMA TransferPartials ==
  ASSUME NEW k \in Nat, NEW t \in Tables(k), NEW links \in Links, NEW members \in SUBSET Elements,
         NEW chains, Spread(chains, t.buckets, k, links, members),
         NEW n \in Nat \ {0}, NEW ideal \in Nat \ {0}
  PROVE  \E part : Partials(part, k, Transfers(n), [buckets |-> Buckets(n), links |-> links, nonideal |-> 0],
                            TransferStep(chains, k, n, ideal), Transfer(t, links, n, ideal))
<1> DEFINE s == [buckets |-> Buckets(n), links |-> links, nonideal |-> 0]
<1> DEFINE seq == [i \in 1..Num(t) |-> Walk(t.buckets[i - 1].hhHead, ChainLink(links))]
<1> DEFINE V == Transfers(n)
<1> DEFINE G == TransferStep(chains, k, n, ideal)
<1>1. Num(t) = k
  BY NumBuckets
<1>2. DOMAIN seq = 1..k /\ \A i \in 1..k : seq[i] = chains[i - 1] /\ chains[i - 1] \in Seq(Elements)
  <2>1. DOMAIN seq = 1..k
    BY <1>1
  <2>2. ASSUME NEW i \in 1..k PROVE seq[i] = chains[i - 1] /\ chains[i - 1] \in Seq(Elements)
    <3>1. Hung(chains[i - 1], t.buckets[i - 1], links)
      BY DEF Spread
    <3>2. Strung(chains[i - 1], t.buckets[i - 1].hhHead, ChainBack(links), ChainLink(links))
      BY <3>1 DEF Hung
    <3>3. Walk(t.buckets[i - 1].hhHead, ChainLink(links)) = chains[i - 1]
      <4> DEFINE c == chains[i - 1]
      <4> DEFINE f == t.buckets[i - 1].hhHead
      <4> DEFINE back == ChainBack(links)
      <4> DEFINE fwd == ChainLink(links)
      <4>1. Strung(c, f, back, fwd)
        BY <3>2
      <4> HIDE DEF c, f, back, fwd
      <4>2. Walk(f, fwd) = c
        BY <4>1, WalkStrung
      <4> QED
        BY <4>2 DEF c, f, fwd
    <3>4. seq[i] = Walk(t.buckets[i - 1].hhHead, ChainLink(links))
      BY <1>1
    <3> QED
      BY <3>2, <3>3, <3>4 DEF Strung
  <2> QED
    BY <2>1, <2>2
<1>3. s \in V
  <2>1. \A b \in 0..n - 1 : EmptyBucket \in [hhHead : Pointers, count : Nat, mult : Nat]
    BY DEF EmptyBucket, Pointers
  <2>2. Buckets(n) \in BucketArrays(n)
    BY <2>1 DEF Buckets, BucketArrays
  <2> QED
    BY <2>2 DEF Transfers
<1> DEFINE Body(it) == [u \in SUBSET DOMAIN seq |->
                          IF u = {} THEN s ELSE Move(it[u \ {Max(u)}], seq[Max(u)], n, ideal)]
<1> DEFINE ch == CHOOSE it : it = Body(it)
<1>4. Transfer(t, links, n, ideal) = ch[1..k]
  <2>1. Transfer(t, links, n, ideal) = ch[DOMAIN seq]
    BY DEF Transfer, FoldLeft, MapThenFoldSet
  <2> HIDE DEF ch, seq
  <2> QED
    BY <1>2, <2>1
<1> HIDE DEF seq, s
<1>5. ASSUME NEW v \in V, NEW i \in 1..k
      PROVE  Move(v, chains[i - 1], n, ideal) \in V /\ G[i][v] = Move(v, chains[i - 1], n, ideal)
  <2> DEFINE c == chains[i - 1]
  <2>1. c \in Seq(Elements) /\ ideal \in Nat /\ Len(c) \in Nat
    BY <1>2, LenProperties
  <2>2. G[i][v] = Move(v, c, n, ideal)
    BY DEF TransferStep
  <2> HIDE DEF c
  <2>3. PICK part : Partials(part, Len(c), V, v, MoveStep(c, n, ideal), Move(v, c, n, ideal))
    BY <2>1, MovePartials
  <2>4. Move(v, c, n, ideal) \in V
    <3>1. Len(c) \in 0..Len(c)
      BY <2>1
    <3> HIDE DEF V
    <3> QED
      BY <2>3, <3>1 DEF Partials
  <2> QED
    BY <2>2, <2>4 DEF c
<1>6. G \in [1..k -> [V -> V]]
  <2> HIDE DEF V
  <2> QED
    BY <1>5 DEF TransferStep, V
<1> HIDE DEF V, G
<1>7. ASSUME NEW u \in SUBSET (1..k), u # {}
      PROVE  Max(u) \in 1..k /\ u \ {Max(u)} \in SUBSET (1..k)
  <2>1. Max(u) \in u
    BY <1>7, MaxMember, Zenon
  <2> QED
    BY <2>1
<1>8. \E it : it = Body(it)
  <2>1. PICK it : Folds(it, k, V, s, G)
    BY <1>3, <1>6, FoldExists
  <2>2. ASSUME NEW u \in SUBSET (1..k), u # {}
        PROVE  G[Max(u)][it[u \ {Max(u)}]] = Move(it[u \ {Max(u)}], seq[Max(u)], n, ideal)
    <3>1. Max(u) \in 1..k /\ it[u \ {Max(u)}] \in V
      BY <1>7, <2>1, <2>2 DEF Folds
    <3>2. seq[Max(u)] = chains[Max(u) - 1]
      BY <1>2, <3>1
    <3> QED
      BY <1>5, <3>1, <3>2
  <2>3. it = Body(it)
    BY <1>2, <2>1, <2>2, Zenon DEF Folds
  <2> QED
    BY <2>3
<1>9. ch = Body(ch)
  <2> HIDE DEF Body
  <2> QED
    BY <1>8
<1> HIDE DEF ch
<1>10. ch[{}] = s
  BY <1>9
<1>11. ASSUME NEW u \in SUBSET (1..k), u # {}, ch[u \ {Max(u)}] \in V
       PROVE  ch[u] = G[Max(u)][ch[u \ {Max(u)}]]
  <2>1. ch[u] = Move(ch[u \ {Max(u)}], seq[Max(u)], n, ideal)
    BY <1>2, <1>9, <1>11, Zenon
  <2>2. Max(u) \in 1..k
    BY <1>7, <1>11
  <2>3. seq[Max(u)] = chains[Max(u) - 1]
    BY <1>2, <2>2
  <2> QED
    BY <1>5, <1>11, <2>1, <2>2, <2>3
<1> HIDE DEF Body
<1>12. PICK part : Partials(part, k, V, s, G, ch[1..k])
  BY <1>3, <1>6, <1>10, <1>11, FoldValue
<1> QED
  BY <1>4, <1>12 DEF V, G, s

(* After all of them every element is where it belongs again.              *)
LEMMA TransferMoved ==
  ASSUME NEW k \in Nat \ {0}, NEW t \in Tables(k), NEW links \in Links, NEW members \in SUBSET Elements,
         NEW chains, Spread(chains, t.buckets, k, links, members),
         NEW n \in Nat \ {0}, NEW ideal \in Nat \ {0}
  PROVE  \E chains2 : Moved(chains2, Transfer(t, links, n, ideal), n, ideal, links, members)
<1> DEFINE s == [buckets |-> Buckets(n), links |-> links, nonideal |-> 0]
<1> DEFINE of == [e \in Elements |-> ToBucket(e, k)]
<1> DEFINE below == [i \in 0..k |-> {e \in members : of[e] < i}]
<1>1. PICK part : Partials(part, k, Transfers(n), s, TransferStep(chains, k, n, ideal),
                           Transfer(t, links, n, ideal))
  BY TransferPartials
<1>2. ASSUME NEW i \in 1..k PROVE part[i] = Move(part[i - 1], chains[i - 1], n, ideal)
  <2>1. i - 1 \in 0..k
    OBVIOUS
  <2>2. part[i - 1] \in Transfers(n) /\ part[i] = TransferStep(chains, k, n, ideal)[i][part[i - 1]]
    BY <1>1, <2>1 DEF Partials
  <2> QED
    BY <2>2 DEF TransferStep
<1>3. part[0] = s /\ part[k] = Transfer(t, links, n, ideal) /\ \A i \in 0..k : part[i] \in Transfers(n)
  BY <1>1 DEF Partials
<1>4. \A e \in members : of[e] \in 0..k - 1
  BY BucketInRange
<1>5. \A b \in 0..k - 1 : /\ chains[b] \in Seq(Elements) /\ IsInjective(chains[b])
                          /\ ToSet(chains[b]) = {e \in members : of[e] = b}
  BY DEF Spread, Hung, Strung
<1> HIDE DEF of
<1>6. /\ below[0] = {} /\ below[k] = members
      /\ \A i \in 1..k : /\ below[i] = below[i - 1] \cup {e \in members : of[e] = i - 1}
                         /\ {e \in members : of[e] = i - 1} \cap below[i - 1] = {}
      /\ \A i \in 0..k : below[i] \in SUBSET Elements
  BY <1>4
<1> DEFINE W == [i \in 0..k |-> {v \in Transfers(n) :
                  \E chains2 : Moved(chains2, v, n, ideal, links, below[i])}]
<1> HIDE DEF below
<1>7. part[0] \in W[0]
  <2> DEFINE chains2 == [b \in 0..n - 1 |-> << >>]
  <2>1. s \in Transfers(n) /\ s.buckets = Buckets(n) /\ s.links = links
    BY <1>3
  <2>2. \A b \in 0..n - 1 : s.buckets[b] = EmptyBucket /\ chains2[b] = << >>
    BY <2>1 DEF Buckets
  <2>3. << >> \in Seq(Elements) /\ DOMAIN << >> = {} /\ Len(<< >>) = 0 /\ ToSet(<< >>) = {}
    BY EmptySeq DEF ToSet
  <2>4. \A b \in 0..n - 1 : Hung(chains2[b], s.buckets[b], s.links) /\ ToSet(chains2[b]) = {}
    BY <2>2, <2>3 DEF Hung, Strung, EmptyBucket, At, IsInjective
  <2>5. Spread(chains2, s.buckets, n, s.links, {})
    <3> HIDE DEF chains2, s
    <3> QED
      BY <2>4 DEF Spread
  <2>6. \A b \in 0..n - 1 : Granted(s.buckets[b].count, s.buckets[b].mult, ideal)
    BY <2>2 DEF Granted, EmptyBucket
  <2>7. Moved(chains2, s, n, ideal, links, {})
    <3> HIDE DEF chains2, s
    <3> QED
      BY <2>1, <2>5, <2>6 DEF Moved
  <2> HIDE DEF chains2, s
  <2>8. 0 \in 0..k
    OBVIOUS
  <2> QED
    BY <1>3, <1>6, <2>1, <2>7, <2>8
<1> HIDE DEF s
<1>8. ASSUME NEW i \in 1..k, part[i - 1] \in W[i - 1] PROVE part[i] \in W[i]
  <2> DEFINE M == below[i - 1]
  <2> DEFINE v == part[i - 1]
  <2> DEFINE c == chains[i - 1]
  <2>1. i \in 0..k /\ i - 1 \in 0..k /\ i - 1 \in 0..k - 1
    OBVIOUS
  <2>2. v \in Transfers(n) /\ \E chains2 : Moved(chains2, v, n, ideal, links, M)
    BY <1>8, <2>1
  <2>3. /\ M \in SUBSET Elements /\ c \in Seq(Elements) /\ IsInjective(c)
        /\ ToSet(c) \cap M = {} /\ below[i] = M \cup ToSet(c)
    BY <1>5, <1>6, <2>1
  <2> HIDE DEF M, c, v
  <2>4. /\ Move(v, c, n, ideal) \in Transfers(n)
        /\ \E chains2 : Moved(chains2, Move(v, c, n, ideal), n, ideal, links, M \cup ToSet(c))
    BY <2>2, <2>3, MoveMoved
  <2>5. part[i] = Move(v, c, n, ideal)
    BY <1>2 DEF v, c
  <2> QED
    BY <2>1, <2>3, <2>4, <2>5
<1> HIDE DEF W
<1>9. \A i \in 0..k : part[i] \in W[i]
  BY <1>7, <1>8, StagesHold
<1>10. part[k] \in W[k] /\ k \in 0..k
  BY <1>9
<1> QED
  BY <1>3, <1>6, <1>10 DEF W

-----------------------------------------------------------------------------
(***************************************************************************)
(* HASH_ADD_TO_TABLE.  What a table is after an addition without and with  *)
(* an expansion, m the bucket of the new element.                          *)
(***************************************************************************)
Grown(t, t2, n, m) ==
  /\ t2.noexpand = t.noexpand
  /\ t.noexpand \/ t.buckets[m].count + 1 < (t.buckets[m].mult + 1) * Threshold
  /\ \A b \in 0..n - 1 :
       /\ t2.buckets[b].mult = t.buckets[b].mult
       /\ t2.buckets[b].count = IF b = m THEN t.buckets[b].count + 1 ELSE t.buckets[b].count

Expanded(t2, n) ==
  /\ t2.ideal = (t2.items + n - 1) \div n /\ t2.ideal \in Nat \ {0}
  /\ \A b \in 0..n - 1 : Granted(t2.buckets[b].count, t2.buckets[b].mult, t2.ideal)

(* The table with one element more, its links as far as they are order's.  *)
TableHas(n, chains, t, links, members, items, tail, links0) ==
  /\ n \in Nat \ {0} /\ t \in Tables(n) /\ links \in Links
  /\ Spread(chains, t.buckets, n, links, members)
  /\ t.items = items /\ t.tail = tail
  /\ OrderLink(links) = OrderLink(links0) /\ OrderBack(links) = OrderBack(links0)

LEMMA ExpandHas ==
  ASSUME NEW n \in Nat \ {0}, NEW chains, NEW t, NEW links, NEW members \in SUBSET Elements,
         NEW items \in Nat \ {0}, NEW tail, NEW links0,
         TableHas(n, chains, t, links, members, items, tail, links0)
  PROVE  /\ \E chains2 : TableHas(2 * n, chains2, Expand(t, links).tbl, Expand(t, links).links,
                                  members, items, tail, links0)
         /\ Expanded(Expand(t, links).tbl, 2 * n)
<1> DEFINE k == 2 * n
<1> DEFINE ideal == (t.items + k - 1) \div k
<1> DEFINE moved == Transfer(t, links, k, ideal)
<1> DEFINE ineff == IF moved.nonideal > t.items \div 2 THEN t.ineff + 1 ELSE 0
<1> DEFINE t2 == [t EXCEPT !.buckets = moved.buckets, !.ideal = ideal, !.ineff = ineff,
                           !.noexpand = @ \/ ineff > 1]
<1>1. /\ t \in Tables(n) /\ links \in Links /\ Spread(chains, t.buckets, n, links, members)
      /\ t.items = items /\ t.tail = tail
      /\ OrderLink(links) = OrderLink(links0) /\ OrderBack(links) = OrderBack(links0)
  BY DEF TableHas
<1>2. k \in Nat \ {0} /\ n \in Nat
  OBVIOUS
<1>3. Num(t) = n
  BY <1>1, <1>2, NumBuckets
<1>4. Expand(t, links).tbl = t2 /\ Expand(t, links).links = moved.links
  <2> HIDE DEF moved, ideal
  <2>1. Expand(t, links) = [tbl |-> t2, links |-> moved.links]
    BY <1>3 DEF Expand, moved, ideal
  <2> HIDE DEF t2
  <2> QED
    BY <2>1
<1>5. ideal \in Nat \ {0}
  <2> DEFINE a == t.items + k - 1
  <2>1. a \in Int /\ a >= k
    BY <1>1, <1>2
  <2> HIDE DEF a, k
  <2>2. a \div k \in Int /\ a % k \in 0..k - 1 /\ a = k * (a \div k) + (a % k)
    BY <1>2, <2>1, DivMod
  <2> DEFINE d == a \div k
  <2> DEFINE r == a % k
  <2> HIDE DEF d, r
  <2>3. d \in Int /\ r \in 0..k - 1 /\ a = k * d + r
    BY <2>2 DEF d, r
  <2>4. d >= 1
    <3>1. SUFFICES ASSUME d <= 0 PROVE FALSE
      BY <2>3
    <3>2. k * d <= 0
      BY <1>2, <2>3, <3>1
    <3>3. k * d \in Int
      BY <1>2, <2>3
    <3> DEFINE p == k * d
    <3> HIDE DEF p
    <3>4. p \in Int /\ p <= 0 /\ a = p + r
      BY <2>3, <3>2, <3>3 DEF p
    <3> QED
      BY <1>2, <2>1, <2>3, <3>4
  <2>5. ideal = d
    BY DEF d, a
  <2> QED
    BY <2>3, <2>4, <2>5
<1> HIDE DEF k, ideal
<1>6. PICK chains2 : Moved(chains2, moved, k, ideal, links, members)
  BY <1>1, <1>2, <1>5, TransferMoved
<1> HIDE DEF moved
<1>7. moved \in Transfers(k) /\ moved.buckets \in BucketArrays(k) /\ moved.links \in Links /\ moved.nonideal \in Nat
  BY <1>6 DEF Moved, Transfers
<1>8. t \in [tail : Pointers, items : Nat, ideal : Nat, ineff : Nat, noexpand : BOOLEAN, buckets : BucketArrays(n)]
  BY <1>1 DEF Tables
<1>9. ineff \in Nat
  BY <1>8
<1>10. (t.noexpand \/ ineff > 1) \in BOOLEAN
  OBVIOUS
<1> HIDE DEF ineff
<1>11. /\ t2 \in Tables(k) /\ t2.tail = t.tail /\ t2.items = t.items
       /\ t2.buckets = moved.buckets /\ t2.ideal = ideal
  <2> DEFINE x == (t.noexpand \/ ineff > 1)
  <2>1. t2 = [t EXCEPT !.buckets = moved.buckets, !.ideal = ideal, !.ineff = ineff, !.noexpand = x]
    OBVIOUS
  <2> HIDE DEF x, t2
  <2>2. x \in BOOLEAN
    BY <1>10 DEF x
  <2> QED
    BY <1>5, <1>7, <1>8, <1>9, <2>1, <2>2 DEF Tables
<1> HIDE DEF t2
<1>12. TableHas(k, chains2, t2, moved.links, members, items, tail, links0)
  BY <1>1, <1>2, <1>6, <1>7, <1>11 DEF TableHas, Moved
<1>13. Expanded(t2, k)
  BY <1>1, <1>5, <1>6, <1>11 DEF Expanded, Moved, ideal
<1> QED
  BY <1>4, <1>12, <1>13 DEF k

LEMMA AddToTableHas ==
  ASSUME NEW n, NEW chains, NEW t, NEW links, NEW members \in SUBSET Elements,
         NEW items \in Nat, NEW tail,
         TableHas(n, chains, t, links, members, items, tail, links),
         NEW e \in Elements, e \notin members
  PROVE  \E n2, chains2 :
           /\ TableHas(n2, chains2, AddToTable(t, links, e).tbl, AddToTable(t, links, e).links,
                       members \cup {e}, items + 1, tail, links)
           /\ \/ n2 = n /\ Grown(t, AddToTable(t, links, e).tbl, n, ToBucket(e, n))
              \/ /\ n2 = 2 * n /\ Expanded(AddToTable(t, links, e).tbl, n2) /\ ~t.noexpand
<1> DEFINE m == ToBucket(e, n)
<1> DEFINE old == t.buckets[m]
<1> DEFINE added == [t EXCEPT !.items = @ + 1, !.buckets[m].count = @ + 1, !.buckets[m].hhHead = e]
<1> DEFINE pushed == Push(links, e, old.hhHead)
<1> DEFINE grows == old.count + 1 >= (old.mult + 1) * Threshold /\ ~t.noexpand
<1>1. /\ n \in Nat \ {0} /\ t \in Tables(n) /\ links \in Links /\ Spread(chains, t.buckets, n, links, members)
      /\ t.items = items /\ t.tail = tail
  BY DEF TableHas
<1>2. Num(t) = n /\ m \in 0..n - 1
  BY <1>1, NumBuckets, BucketInRange
<1>3. AddToTable(t, links, e) = IF grows THEN Expand(added, pushed) ELSE [tbl |-> added, links |-> pushed]
  BY <1>2 DEF AddToTable
<1>4. t \in [tail : Pointers, items : Nat, ideal : Nat, ineff : Nat, noexpand : BOOLEAN, buckets : BucketArrays(n)]
  BY <1>1 DEF Tables
<1>5. t.buckets \in BucketArrays(n) /\ old \in [hhHead : Pointers, count : Nat, mult : Nat]
  BY <1>2, <1>4 DEF BucketArrays
<1> DEFINE new == [old EXCEPT !.count = old.count + 1, !.hhHead = e]
<1> DEFINE buckets2 == [t.buckets EXCEPT ![m] = new]
<1>6. new \in [hhHead : Pointers, count : Nat, mult : Nat]
      /\ new.hhHead = e /\ new.count = old.count + 1 /\ new.mult = old.mult
  <2> DEFINE c == old.count + 1
  <2>1. e \in Pointers /\ c \in Nat
    BY <1>5 DEF Pointers
  <2>2. new = [old EXCEPT !.count = c, !.hhHead = e]
    OBVIOUS
  <2> HIDE DEF old, new, c
  <2>3. new \in [hhHead : Pointers, count : Nat, mult : Nat] /\ new.hhHead = e /\ new.count = c
        /\ new.mult = old.mult
    BY <1>5, <2>1, <2>2
  <2> QED
    BY <2>3 DEF c
<1>7. buckets2 \in BucketArrays(n) /\ \A b \in 0..n - 1 : buckets2[b] = IF b = m THEN new ELSE t.buckets[b]
  <2> HIDE DEF new, m
  <2> QED
    BY <1>2, <1>5, <1>6 DEF BucketArrays
<1>8. /\ added \in Tables(n) /\ added.buckets = buckets2 /\ added.items = t.items + 1
      /\ added.tail = t.tail /\ added.noexpand = t.noexpand
  <2>1. added = [t EXCEPT !.items = t.items + 1, !.buckets = buckets2]
    <3> HIDE DEF m
    <3> QED
      BY <1>2, <1>4, <1>5 DEF BucketArrays
  <2> DEFINE i == t.items + 1
  <2>2. i \in Nat /\ added = [t EXCEPT !.items = i, !.buckets = buckets2] /\ buckets2 \in BucketArrays(n)
    BY <1>4, <1>7, <2>1
  <2> HIDE DEF added, buckets2, i
  <2>3. /\ added \in [tail : Pointers, items : Nat, ideal : Nat, ineff : Nat, noexpand : BOOLEAN,
                      buckets : BucketArrays(n)]
        /\ added.buckets = buckets2 /\ added.items = i /\ added.tail = t.tail /\ added.noexpand = t.noexpand
    BY <1>4, <2>2
  <2> QED
    BY <2>3 DEF Tables, i
<1>9. pushed \in Links /\ OrderLink(pushed) = OrderLink(links) /\ OrderBack(pushed) = OrderBack(links)
  <2>1. old.hhHead \in Pointers
    BY <1>5
  <2> HIDE DEF old
  <2> QED
    BY <1>1, <2>1, PushKeepsOrder
<1>10. \A b \in 0..n - 1 :
         IF b = ToBucket(e, n)
         THEN buckets2[b].hhHead = e /\ buckets2[b].count = t.buckets[b].count + 1
         ELSE buckets2[b] = t.buckets[b]
  <2> HIDE DEF buckets2, new
  <2> QED
    BY <1>6, <1>7
<1> DEFINE chains1 == [b \in 0..n - 1 |-> IF b = m THEN InsertAt(chains[b], 1, e) ELSE chains[b]]
<1>11. Spread(chains1, buckets2, n, pushed, members \cup {e})
  <2> DEFINE bs == t.buckets
  <2>1. bs \in BucketArrays(n) /\ Spread(chains, bs, n, links, members)
    BY <1>1, <1>5
  <2>2. \A b \in 0..n - 1 :
          IF b = ToBucket(e, n)
          THEN buckets2[b].hhHead = e /\ buckets2[b].count = bs[b].count + 1
          ELSE buckets2[b] = bs[b]
    BY <1>10
  <2>3. pushed = Push(links, e, bs[ToBucket(e, n)].hhHead)
    OBVIOUS
  <2> HIDE DEF bs, buckets2, pushed
  <2> QED
    BY <1>1, <1>7, <2>1, <2>2, <2>3, PushSpread
<1> HIDE DEF chains1, added, pushed, buckets2
<1>12. TableHas(n, chains1, added, pushed, members \cup {e}, items + 1, tail, links)
  BY <1>1, <1>8, <1>9, <1>11 DEF TableHas
<1>13. CASE grows
  <2>1. Expand(added, pushed) = AddToTable(t, links, e)
    BY <1>3, <1>13
  <2>2. items + 1 \in Nat \ {0} /\ members \cup {e} \in SUBSET Elements
    OBVIOUS
  <2>3. /\ \E chains2 : TableHas(2 * n, chains2, Expand(added, pushed).tbl, Expand(added, pushed).links,
                                 members \cup {e}, items + 1, tail, links)
        /\ Expanded(Expand(added, pushed).tbl, 2 * n)
    <3> DEFINE M == members \cup {e}
    <3> DEFINE i == items + 1
    <3> HIDE DEF M, i
    <3>1. M \in SUBSET Elements /\ i \in Nat \ {0} /\ TableHas(n, chains1, added, pushed, M, i, tail, links)
      BY <1>12, <2>2 DEF M, i
    <3>2. /\ \E chains2 : TableHas(2 * n, chains2, Expand(added, pushed).tbl, Expand(added, pushed).links,
                                   M, i, tail, links)
          /\ Expanded(Expand(added, pushed).tbl, 2 * n)
      BY <1>1, <3>1, ExpandHas
    <3> QED
      BY <3>2 DEF M, i
  <2>4. ~t.noexpand
    BY <1>13
  <2> QED
    BY <2>1, <2>3, <2>4
<1>14. CASE ~grows
  <2>1. AddToTable(t, links, e).tbl = added /\ AddToTable(t, links, e).links = pushed
    BY <1>3, <1>14
  <2>2. t.noexpand \/ t.buckets[m].count + 1 < (t.buckets[m].mult + 1) * Threshold
    <3> DEFINE c == old.count + 1
    <3> DEFINE d == (old.mult + 1) * Threshold
    <3>1. c \in Int /\ d \in Int
      BY <1>5, HashTableAssumption
    <3>2. ~(c >= d) \/ t.noexpand
      BY <1>14
    <3> HIDE DEF c, d
    <3>3. c < d \/ t.noexpand
      BY <3>1, <3>2
    <3> QED
      BY <3>3 DEF c, d
  <2>3. Grown(t, added, n, m)
    <3> HIDE DEF new, m
    <3> QED
      BY <1>6, <1>7, <1>8, <2>2 DEF Grown
  <2> QED
    BY <1>12, <2>1, <2>3
<1> QED
  BY <1>13, <1>14

-----------------------------------------------------------------------------
(***************************************************************************)
(* The room of a bucket: what its chain may hold until the table is        *)
(* expanded again.  It is what the bucket held after the last expansion or *)
(* the multiple of the threshold it was granted, whichever is more; all    *)
(* rooms together are at most three thresholds per bucket, so that the     *)
(* ideal length of the next expansion is at most two.                      *)
(***************************************************************************)
Fits(bucket, room) ==
  /\ bucket.count <= room /\ (bucket.mult + 1) * Threshold <= room
  /\ bucket.count <= (bucket.mult + 1) * (2 * Threshold)

Rooms(n, t, room) ==
  /\ \A b \in 0..n - 1 : room[b] \in Nat /\ Fits(t.buckets[b], room[b])
  /\ \E part : Sums(part, n, room) /\ part[n] <= 3 * (Threshold * n)

Roomy(n, t) == t.noexpand \/ \E room : Rooms(n, t, room)

(* The counts of the buckets add up to the number of elements.             *)
LEMMA CountsAddUp ==
  ASSUME NEW n \in Nat \ {0}, NEW chains, NEW buckets \in BucketArrays(n), NEW links,
         NEW members \in SUBSET Elements, Spread(chains, buckets, n, links, members),
         NEW part, Sums(part, n, [b \in 0..n - 1 |-> buckets[b].count])
  PROVE  part[n] = Cardinality(members)
<1> DEFINE of == [e \in Elements |-> ToBucket(e, n)]
<1> DEFINE below == [k \in 0..n |-> {e \in members : of[e] < k}]
<1> DEFINE W == [k \in 0..n |-> {Cardinality(below[k])}]
<1>1. \A e \in members : of[e] \in 0..n - 1
  BY BucketInRange
<1>2. \A b \in 0..n - 1 : /\ chains[b] \in Seq(Elements) /\ IsInjective(chains[b])
                          /\ ToSet(chains[b]) = {e \in members : of[e] = b}
                          /\ buckets[b].count = Len(chains[b])
  BY DEF Spread, Hung, Strung
<1> HIDE DEF of
<1>3. /\ below[0] = {} /\ below[n] = members
      /\ \A k \in 1..n : /\ below[k] = below[k - 1] \cup {e \in members : of[e] = k - 1}
                         /\ below[k - 1] \cap {e \in members : of[e] = k - 1} = {}
      /\ \A k \in 0..n : below[k] \in SUBSET Elements
  BY <1>1
<1> HIDE DEF below
<1>4. /\ part[0] = 0
      /\ \A k \in 1..n : part[k] = part[k - 1] + [b \in 0..n - 1 |-> buckets[b].count][k - 1]
  BY DEF Sums
<1>5. IsFiniteSet(Elements)
  BY HashTableAssumption
<1>6. part[0] \in W[0]
  <2>1. Cardinality(below[0]) = 0
    BY <1>3, FS_EmptySet
  <2>2. 0 \in 0..n
    OBVIOUS
  <2> QED
    BY <1>4, <2>1, <2>2
<1>7. ASSUME NEW k \in 1..n, part[k - 1] \in W[k - 1] PROVE part[k] \in W[k]
  <2> DEFINE S == below[k - 1]
  <2> DEFINE T == ToSet(chains[k - 1])
  <2>1. k \in 0..n /\ k - 1 \in 0..n /\ k - 1 \in 0..n - 1
    OBVIOUS
  <2>2. part[k] = part[k - 1] + Len(chains[k - 1]) /\ part[k - 1] = Cardinality(S)
    BY <1>2, <1>4, <1>7, <2>1
  <2>3. below[k] = S \cup T /\ S \cap T = {} /\ S \in SUBSET Elements
    BY <1>2, <1>3, <2>1
  <2>4. IsFiniteSet(T) /\ Cardinality(T) = Len(chains[k - 1])
    BY <1>2, <2>1, InjectiveLength
  <2>5. IsFiniteSet(S)
    <3> HIDE DEF S
    <3> QED
      BY <1>5, <2>3, FS_Subset
  <2> HIDE DEF S, T
  <2>6. Cardinality(S \cup T) = Cardinality(S) + Cardinality(T)
    <3>1. Cardinality(S \cup T) = Cardinality(S) + Cardinality(T) - Cardinality(S \cap T)
      BY <2>4, <2>5, FS_Union
    <3>2. Cardinality(S \cap T) = 0
      BY <2>3, FS_EmptySet
    <3>3. Cardinality(S) \in Nat /\ Cardinality(T) \in Nat
      BY <2>4, <2>5, FS_CardinalityType
    <3> QED
      BY <3>1, <3>2, <3>3
  <2>7. part[k] = Cardinality(below[k])
    BY <2>2, <2>3, <2>4, <2>6
  <2> QED
    BY <2>1, <2>7
<1> HIDE DEF W
<1>8. \A k \in 0..n : part[k] \in W[k]
  BY <1>6, <1>7, StagesHold
<1>9. part[n] \in W[n] /\ n \in 0..n
  BY <1>8
<1> QED
  BY <1>3, <1>9 DEF W

(* An addition that does not expand the table is within the room, and a    *)
(* deletion makes none smaller.                                            *)
LEMMA RoomyGrown ==
  ASSUME NEW n \in Nat \ {0}, NEW t \in Tables(n), NEW t2 \in Tables(n), NEW m \in 0..n - 1,
         Grown(t, t2, n, m), Roomy(n, t)
  PROVE  Roomy(n, t2)
<1>1. CASE t.noexpand
  BY <1>1 DEF Roomy, Grown
<1>2. CASE ~t.noexpand
  <2>1. PICK room : Rooms(n, t, room)
    BY <1>2 DEF Roomy
  <2>2. ASSUME NEW b \in 0..n - 1 PROVE room[b] \in Nat /\ Fits(t2.buckets[b], room[b])
    <3> DEFINE c == t.buckets[b].count
    <3> DEFINE u == (t.buckets[b].mult + 1) * Threshold
    <3> DEFINE c2 == t2.buckets[b].count
    <3>1. t.buckets[b] \in [hhHead : Pointers, count : Nat, mult : Nat]
      BY DEF Tables, BucketArrays
    <3>2. (t.buckets[b].mult + 1) * (2 * Threshold) = 2 * u /\ u \in Nat /\ c \in Nat /\ room[b] \in Nat
      <4>1. t.buckets[b].mult \in Nat /\ c \in Nat /\ room[b] \in Nat /\ Threshold \in Nat
        BY <2>1, <3>1, HashTableAssumption DEF Rooms
      <4> DEFINE x == t.buckets[b].mult
      <4> HIDE DEF x
      <4>2. x \in Nat => (x + 1) * (2 * Threshold) = 2 * ((x + 1) * Threshold) /\ (x + 1) * Threshold \in Nat
        BY <4>1, SMT
      <4> QED
        BY <4>1, <4>2 DEF x
    <3>3. c <= room[b] /\ u <= room[b] /\ c <= 2 * u
      BY <2>1, <3>2 DEF Rooms, Fits
    <3>4. t2.buckets[b].mult = t.buckets[b].mult /\ c2 = IF b = m THEN c + 1 ELSE c
      BY DEF Grown
    <3>5. b = m => c + 1 < u
      BY <1>2 DEF Grown
    <3>6. c2 <= room[b] /\ c2 <= 2 * u
      <4> HIDE DEF c, c2, u
      <4> QED
        BY <2>1, <3>2, <3>3, <3>4, <3>5 DEF Rooms
    <3>7. (t2.buckets[b].mult + 1) * Threshold = u /\ (t2.buckets[b].mult + 1) * (2 * Threshold) = 2 * u
      BY <3>2, <3>4
    <3> QED
      BY <3>2, <3>3, <3>6, <3>7 DEF Fits
  <2>3. Rooms(n, t2, room)
    BY <2>1, <2>2 DEF Rooms
  <2> QED
    BY <2>3 DEF Roomy
<1> QED
  BY <1>1, <1>2

Shrunk(t, t2, n) ==
  /\ t2.noexpand = t.noexpand
  /\ \A b \in 0..n - 1 : /\ t2.buckets[b].mult = t.buckets[b].mult
                         /\ t2.buckets[b].count <= t.buckets[b].count

LEMMA RoomyShrunk ==
  ASSUME NEW n \in Nat \ {0}, NEW t \in Tables(n), NEW t2 \in Tables(n), Shrunk(t, t2, n), Roomy(n, t)
  PROVE  Roomy(n, t2)
<1>1. CASE t.noexpand
  BY <1>1 DEF Roomy, Shrunk
<1>2. CASE ~t.noexpand
  <2>1. PICK room : Rooms(n, t, room)
    BY <1>2 DEF Roomy
  <2>2. ASSUME NEW b \in 0..n - 1 PROVE room[b] \in Nat /\ Fits(t2.buckets[b], room[b])
    <3> DEFINE c == t.buckets[b].count
    <3> DEFINE v == (t.buckets[b].mult + 1) * (2 * Threshold)
    <3> DEFINE c2 == t2.buckets[b].count
    <3>1. /\ t.buckets[b] \in [hhHead : Pointers, count : Nat, mult : Nat]
          /\ t2.buckets[b] \in [hhHead : Pointers, count : Nat, mult : Nat]
      BY DEF Tables, BucketArrays
    <3>2. c \in Nat /\ c2 \in Nat /\ room[b] \in Nat /\ v \in Nat
      <4>1. t.buckets[b].mult \in Nat /\ Threshold \in Nat
        BY <3>1, HashTableAssumption
      <4> DEFINE x == t.buckets[b].mult
      <4> HIDE DEF x
      <4>2. x \in Nat => (x + 1) * (2 * Threshold) \in Nat
        BY <4>1, SMT
      <4> QED
        BY <2>1, <3>1, <4>1, <4>2 DEF Rooms, x
    <3>3. c <= room[b] /\ (t.buckets[b].mult + 1) * Threshold <= room[b] /\ c <= v
      BY <2>1 DEF Rooms, Fits
    <3>4. t2.buckets[b].mult = t.buckets[b].mult /\ c2 <= c
      BY DEF Shrunk
    <3>5. c2 <= room[b] /\ c2 <= v
      <4> HIDE DEF c, c2, v
      <4> QED
        BY <3>2, <3>3, <3>4
    <3> QED
      BY <3>2, <3>3, <3>4, <3>5 DEF Fits
  <2>3. Rooms(n, t2, room)
    BY <2>1, <2>2 DEF Rooms
  <2> QED
    BY <2>3 DEF Roomy
<1> QED
  BY <1>1, <1>2

(* A table just made has a threshold for every bucket.                     *)
LEMMA RoomyFresh ==
  ASSUME NEW n \in Nat \ {0}, NEW t, \A b \in 0..n - 1 : t.buckets[b].count = 0 /\ t.buckets[b].mult = 0
  PROVE  Roomy(n, t)
<1> DEFINE room == [b \in 0..n - 1 |-> Threshold]
<1>1. Threshold \in Nat /\ n \in Nat
  BY HashTableAssumption
<1>2. \A b \in 0..n - 1 : room[b] \in Nat /\ room[b] = Threshold
  BY <1>1
<1> HIDE DEF room
<1>3. PICK part : Sums(part, n, room)
  BY <1>1, <1>2, SumsExist
<1>4. 1 * part[n] <= Threshold * n + 0 * part[n] /\ part[n] \in Nat
  <2>1. \A b \in 0..n - 1 : room[b] \in Nat /\ room[b] \in Nat /\ 1 * room[b] <= Threshold + 0 * room[b]
    BY <1>1, <1>2
  <2>2. 1 \in Nat /\ 0 \in Nat
    OBVIOUS
  <2> QED
    BY <1>1, <1>3, <2>1, <2>2, SumsCompare
<1>5. part[n] <= 3 * (Threshold * n)
  <2> DEFINE x == Threshold * n
  <2>1. x \in Nat
    BY <1>1, SMT
  <2> HIDE DEF x
  <2>2. 1 * part[n] = part[n] /\ 0 * part[n] = 0
    BY <1>4
  <2>3. part[n] <= x + 0
    BY <1>4, <2>2 DEF x
  <2> QED
    BY <1>4, <2>1, <2>3 DEF x
<1>6. \A b \in 0..n - 1 : Fits(t.buckets[b], room[b])
  <2>1. (0 + 1) * Threshold = Threshold /\ (0 + 1) * (2 * Threshold) = 2 * Threshold
    BY <1>1
  <2> QED
    BY <1>1, <1>2, <2>1 DEF Fits
<1>7. Rooms(n, t, room)
  BY <1>2, <1>3, <1>5, <1>6 DEF Rooms
<1> QED
  BY <1>7 DEF Roomy

(* What a bucket needs after an expansion, ideal at most two thresholds.   *)
Needed(count, mult) ==
  IF count <= (mult + 1) * Threshold THEN (mult + 1) * Threshold ELSE count

LEMMA NeededBound ==
  ASSUME NEW count \in Nat, NEW mult \in Nat, NEW d \in Nat \ {0}, d <= 2 * Threshold, Granted(count, mult, d)
  PROVE  /\ Needed(count, mult) \in Nat /\ count <= Needed(count, mult)
         /\ (mult + 1) * Threshold <= Needed(count, mult)
         /\ count <= (mult + 1) * (2 * Threshold)
         /\ d * Needed(count, mult) <= d * Threshold + (2 * Threshold) * count
<1> DEFINE T == Threshold
<1>1. T \in Nat \ {0} /\ d <= 2 * T
  BY HashTableAssumption
<1> DEFINE u == (mult + 1) * T
<1>2. u \in Nat /\ (mult + 1) * (2 * T) = 2 * u
  BY <1>1, SMT
<1>3. Needed(count, mult) = IF count <= u THEN u ELSE count
  BY DEF Needed
<1>4. d * count <= (2 * T) * count
  <2>1. d \in Int /\ 2 * T \in Int
    BY <1>1
  <2> QED
    BY <1>1, <2>1, ProductMonotone
<1>5. count <= (mult + 1) * (2 * T)
  <2>1. CASE count <= d /\ mult = 0
    <3>1. (0 + 1) * (2 * T) = 2 * T
      BY <1>1
    <3> QED
      BY <1>1, <2>1, <3>1
  <2>2. CASE count <= (mult + 1) * d
    <3>1. (mult + 1) * d <= (mult + 1) * (2 * T)
      <4>1. mult + 1 \in Nat /\ d \in Int /\ 2 * T \in Int
        BY <1>1
      <4> QED
        BY <1>1, <4>1, ProductMonotone
    <3>2. (mult + 1) * d \in Int /\ (mult + 1) * (2 * T) \in Int
      BY <1>1, SMT
    <3> QED
      BY <2>2, <3>1, <3>2
  <2> QED
    BY <2>1, <2>2 DEF Granted
<1>6. d * u <= d * T + (2 * T) * count
  <2>1. CASE count <= d /\ mult = 0
    <3>1. u = T
      BY <1>1, <2>1
    <3>2. (2 * T) * count \in Nat /\ d * T \in Nat
      BY <1>1, SMT
    <3> QED
      BY <3>1, <3>2
  <2>2. CASE mult >= 1 /\ count > d /\ (mult - 1) * d < count
    <3> DEFINE x == (mult - 1) * d
    <3>1. d * u = T * (x + 2 * d) /\ x \in Int
      BY <1>1, SMT
    <3>2. x + 2 * d <= count + (count + d)
      <4> HIDE DEF x
      <4>1. x <= count
        BY <2>2, <3>1 DEF x
      <4> QED
        BY <2>2, <3>1, <4>1
    <3> DEFINE y == x + 2 * d
    <3> DEFINE z == count + (count + d)
    <3>3. y \in Int /\ z \in Int /\ y <= z
      BY <3>1, <3>2
    <3>4. T * z = d * T + (2 * T) * count
      BY <1>1, SMT
    <3> HIDE DEF y, z
    <3>5. T * y <= T * z
      BY <1>1, <3>3, ProductMonotone
    <3>6. d * u = T * y
      BY <3>1 DEF y
    <3> HIDE DEF u
    <3> QED
      BY <3>4, <3>5, <3>6
  <2> QED
    BY <2>1, <2>2 DEF Granted
<1>7. d * count <= d * T + (2 * T) * count
  <2>1. d * count \in Nat /\ d * T \in Nat /\ (2 * T) * count \in Nat
    BY <1>1, SMT
  <2> QED
    BY <1>4, <2>1
<1> HIDE DEF u
<1>8. d * Needed(count, mult) <= d * T + (2 * T) * count
  BY <1>3, <1>6, <1>7
<1>9. Needed(count, mult) \in Nat /\ count <= Needed(count, mult) /\ u <= Needed(count, mult)
  BY <1>2, <1>3
<1> QED
  BY <1>5, <1>8, <1>9 DEF u

LEMMA RoomyExpanded ==
  ASSUME NEW n \in Nat \ {0}, NEW chains, NEW t \in Tables(n), NEW links, NEW members \in SUBSET Elements,
         Spread(chains, t.buckets, n, links, members), Roomy(n, t), ~t.noexpand,
         NEW chains2, NEW links2, NEW members2 \in SUBSET Elements, NEW t2 \in Tables(2 * n),
         Spread(chains2, t2.buckets, 2 * n, links2, members2),
         Cardinality(members2) = Cardinality(members) + 1,
         t2.items = Cardinality(members2), Expanded(t2, 2 * n)
  PROVE  Roomy(2 * n, t2)
<1> DEFINE T == Threshold
<1> DEFINE k == 2 * n
<1> DEFINE d == t2.ideal
<1> DEFINE items == t2.items
<1> DEFINE count == [b \in 0..n - 1 |-> t.buckets[b].count]
<1> DEFINE count2 == [b \in 0..k - 1 |-> t2.buckets[b].count]
<1> DEFINE room2 == [b \in 0..k - 1 |-> Needed(t2.buckets[b].count, t2.buckets[b].mult)]
<1>1. T \in Nat \ {0} /\ k \in Nat \ {0} /\ n \in Nat /\ k = 2 * n
  BY HashTableAssumption
<1>2. /\ t.buckets \in BucketArrays(n) /\ t2.buckets \in BucketArrays(k)
      /\ \A b \in 0..n - 1 : count[b] = t.buckets[b].count /\ count[b] \in Nat
      /\ \A b \in 0..k - 1 : count2[b] = t2.buckets[b].count /\ count2[b] \in Nat /\ t2.buckets[b].mult \in Nat
  BY DEF Tables, BucketArrays
<1>3. d = (items + k - 1) \div k /\ d \in Nat \ {0}
      /\ \A b \in 0..k - 1 : Granted(t2.buckets[b].count, t2.buckets[b].mult, d)
  BY DEF Expanded
<1>4. PICK room, whole : /\ Sums(whole, n, room) /\ whole[n] <= 3 * (T * n)
                         /\ \A b \in 0..n - 1 : room[b] \in Nat /\ Fits(t.buckets[b], room[b])
  <2>1. PICK room : Rooms(n, t, room)
    BY DEF Roomy
  <2> QED
    BY <2>1 DEF Rooms
<1>5. PICK part : Sums(part, n, count)
  <2> HIDE DEF count
  <2> QED
    BY <1>1, <1>2, SumsExist
<1>6. part[n] = Cardinality(members)
  BY <1>2, <1>5, CountsAddUp
<1>7. PICK part2 : Sums(part2, k, count2)
  <2> HIDE DEF count2, k
  <2> QED
    BY <1>1, <1>2, SumsExist
<1>8. part2[k] = items
  <2> DEFINE bs == t2.buckets
  <2>1. bs \in BucketArrays(k) /\ Spread(chains2, bs, k, links2, members2)
        /\ Sums(part2, k, [b \in 0..k - 1 |-> bs[b].count])
    BY <1>2, <1>7
  <2> HIDE DEF bs, k
  <2>2. part2[k] = Cardinality(members2)
    BY <1>1, <2>1, CountsAddUp
  <2> QED
    BY <2>2
<1> HIDE DEF k, count, count2, T, d, items
<1>9. part[n] \in Nat /\ whole[n] \in Nat /\ 1 * part[n] <= 0 * n + 1 * whole[n]
  <2>1. \A b \in 0..n - 1 : count[b] \in Nat /\ room[b] \in Nat /\ 1 * count[b] <= 0 + 1 * room[b]
    <3> SUFFICES ASSUME NEW b \in 0..n - 1
                 PROVE  count[b] \in Nat /\ room[b] \in Nat /\ 1 * count[b] <= 0 + 1 * room[b]
      OBVIOUS
    <3>1. count[b] \in Nat /\ room[b] \in Nat /\ count[b] <= room[b]
      BY <1>2, <1>4 DEF Fits
    <3> QED
      BY <3>1
  <2>2. 1 \in Nat /\ 0 \in Nat
    OBVIOUS
  <2> QED
    BY <1>1, <1>4, <1>5, <2>1, <2>2, SumsCompare
<1>10. items \in Nat /\ items = part[n] + 1
  BY <1>6, <1>9 DEF items
<1>11. items <= 3 * (T * n) + 1
  <2>1. 1 * part[n] = part[n] /\ 1 * whole[n] = whole[n] /\ 0 * n = 0
    BY <1>1, <1>9
  <2>2. T * n \in Nat
    BY <1>1, SMT
  <2>3. part[n] <= whole[n]
    BY <1>9, <2>1
  <2> QED
    BY <1>4, <1>9, <1>10, <2>2, <2>3
<1>12. d <= 2 * T /\ items <= d * k
  <2> DEFINE r == (items + k - 1) % k
  <2> DEFINE p == k * d
  <2>1. items + k - 1 \in Int
    BY <1>1, <1>10
  <2>2. items + k - 1 = k * d + r /\ r \in 0..k - 1
    <3> DEFINE a == items + k - 1
    <3> HIDE DEF a
    <3>1. a = k * (a \div k) + (a % k) /\ a % k \in 0..k - 1
      BY <1>1, <2>1, DivMod DEF a
    <3> QED
      BY <1>3, <3>1 DEF a
  <2>3. p \in Int /\ d * k = p
    BY <1>1, <1>3, SMT
  <2> HIDE DEF r, p
  <2>4. items + k - 1 = p + r
    BY <2>2 DEF p
  <2>5. items <= p
    BY <1>1, <1>10, <2>2, <2>3, <2>4
  <2>6. p <= items + k - 1
    BY <1>1, <1>10, <2>2, <2>3, <2>4
  <2>7. d <= 2 * T
    <3> DEFINE w == T * n
    <3>1. w \in Nat /\ w >= 1
      <4>1. w \in Nat
        BY <1>1, SMT
      <4>2. 1 * n <= T * n
        <5>1. 1 \in Int /\ T \in Int /\ 1 <= T
          BY <1>1
        <5> QED
          BY <1>1, <5>1, ProductMonotone
      <4> QED
        BY <1>1, <4>1, <4>2
    <3>2. k * (2 * T) = 4 * w
      BY <1>1, SMT
    <3> HIDE DEF w
    <3>3. items <= 3 * w + 1
      BY <1>11 DEF w
    <3>4. items <= 4 * w
      BY <1>10, <3>1, <3>3
    <3>5. k * (2 * T + 1) = 4 * w + k
      <4>1. k * (2 * T + 1) = k * (2 * T) + k
        BY <1>1, SMT
      <4> QED
        BY <3>2, <4>1
    <3>6. SUFFICES ASSUME 2 * T + 1 <= d PROVE FALSE
      BY <1>1, <1>3
    <3>7. k * (2 * T + 1) <= k * d
      <4>1. 2 * T + 1 \in Int /\ d \in Int /\ k \in Nat
        BY <1>1, <1>3
      <4> DEFINE z == 2 * T + 1
      <4> HIDE DEF z
      <4>2. z <= d /\ z \in Int
        BY <3>6, <4>1 DEF z
      <4>3. k * z <= k * d
        BY <4>1, <4>2, ProductMonotone
      <4> QED
        BY <4>3 DEF z
    <3>8. 4 * w + k <= p
      BY <3>5, <3>7 DEF p
    <3> QED
      BY <1>1, <1>10, <2>3, <2>6, <3>1, <3>4, <3>8
  <2> QED
    BY <2>3, <2>5, <2>7
<1>13. ASSUME NEW b \in 0..k - 1
       PROVE  /\ room2[b] \in Nat /\ Fits(t2.buckets[b], room2[b])
              /\ d * room2[b] <= d * T + (2 * T) * count2[b]
  <2> DEFINE c == t2.buckets[b].count
  <2> DEFINE x == t2.buckets[b].mult
  <2>1. c \in Nat /\ x \in Nat /\ Granted(c, x, d) /\ count2[b] = c
    BY <1>2, <1>3
  <2>2. room2[b] = Needed(c, x)
    OBVIOUS
  <2> HIDE DEF c, x, room2
  <2>3. /\ Needed(c, x) \in Nat /\ c <= Needed(c, x)
        /\ (x + 1) * Threshold <= Needed(c, x)
        /\ c <= (x + 1) * (2 * Threshold)
        /\ d * Needed(c, x) <= d * Threshold + (2 * Threshold) * c
    <3>1. d \in Nat \ {0} /\ d <= 2 * Threshold
      BY <1>3, <1>12 DEF T
    <3> QED
      BY <2>1, <3>1, NeededBound
  <2> QED
    BY <2>1, <2>2, <2>3 DEF Fits, c, x, T
<1> HIDE DEF room2
<1>14. PICK whole2 : Sums(whole2, k, room2)
  BY <1>1, <1>13, SumsExist
<1>15. /\ whole2[k] \in Nat /\ part2[k] \in Nat
       /\ d * whole2[k] <= (d * T) * k + (2 * T) * part2[k]
  <2>1. d \in Nat /\ d * T \in Nat /\ 2 * T \in Nat
    BY <1>1, <1>3, SMT
  <2> DEFINE y == d * T
  <2> DEFINE z == 2 * T
  <2> HIDE DEF y, z
  <2>2. y \in Nat /\ z \in Nat
    BY <2>1 DEF y, z
  <2>3. \A b \in 0..k - 1 : room2[b] \in Nat /\ count2[b] \in Nat /\ d * room2[b] <= y + z * count2[b]
    BY <1>2, <1>13 DEF y, z
  <2>4. whole2[k] \in Nat /\ part2[k] \in Nat /\ d * whole2[k] <= y * k + z * part2[k]
    BY <1>1, <1>7, <1>14, <2>1, <2>2, <2>3, SumsCompare
  <2> QED
    BY <2>4 DEF y, z
<1>16. whole2[k] <= 3 * (T * k)
  <2> DEFINE w == T * k
  <2>1. (2 * T) * items <= (2 * T) * (d * k)
    <3> DEFINE y == d * k
    <3> DEFINE z == 2 * T
    <3>1. y \in Int /\ z \in Nat /\ items \in Int /\ items <= y
      BY <1>1, <1>3, <1>10, <1>12, SMT
    <3> HIDE DEF y, z
    <3>2. z * items <= z * y
      BY <3>1, ProductMonotone
    <3> QED
      BY <3>2 DEF y, z
  <2>2. (2 * T) * (d * k) = d * (2 * w) /\ (d * T) * k = d * w /\ d * (3 * w) = d * w + d * (2 * w)
        /\ w \in Nat /\ d * w \in Int /\ d * (2 * w) \in Int /\ (2 * T) * items \in Int
    BY <1>1, <1>3, <1>10, SMT
  <2>3. d * whole2[k] \in Int
    BY <1>3, <1>15, SMT
  <2> HIDE DEF w
  <2>4. d * whole2[k] <= d * (3 * w)
    BY <1>8, <1>15, <2>1, <2>2, <2>3
  <2> DEFINE v == 3 * w
  <2>5. v \in Int
    BY <2>2
  <2> HIDE DEF v
  <2>6. d * whole2[k] <= d * v
    BY <2>4 DEF v
  <2>7. whole2[k] \in Int
    BY <1>15
  <2>8. whole2[k] <= v
    BY <1>3, <2>5, <2>6, <2>7, ProductCancel
  <2> QED
    BY <2>8 DEF v, w
<1>17. Rooms(k, t2, room2)
  BY <1>13, <1>14, <1>16 DEF Rooms, T
<1> QED
  BY <1>17 DEF Roomy, k

-----------------------------------------------------------------------------
(***************************************************************************)
(* A table that holds the elements of a list, one after the other in       *)
(* application order, with all its links, counts and rooms as they should  *)
(* be.  Every macro takes one such table to another.                       *)
(***************************************************************************)
After(first, r) == [head |-> first, tbl |-> r.tbl, links |-> r.links]

KeysDiffer(S) == \A d, e \in S : Key[d] = Key[e] => d = e

Laid(order, chains, n, s) ==
  /\ s.links \in Links /\ order \in Seq(Elements)
  /\ order = << >> => s.head = NoElem /\ s.tbl = FreedTable
  /\ order # << >> =>
       /\ Listed(order, s.head, s.tbl.tail, s.links)
       /\ TableHas(n, chains, s.tbl, s.links, ToSet(order), Len(order), s.tbl.tail, s.links)
       /\ KeysDiffer(ToSet(order))
       /\ Roomy(n, s.tbl)

Holds(s, order) == \E chains, n : Laid(order, chains, n, s)

LEMMA SpreadKept ==
  ASSUME NEW chains, NEW buckets, NEW n, NEW links, NEW members, Spread(chains, buckets, n, links, members),
         NEW links2, ChainBack(links2) = ChainBack(links), ChainLink(links2) = ChainLink(links)
  PROVE  Spread(chains, buckets, n, links2, members)
  BY DEF Spread, Hung

(* The element is in the application order already; now its chain gets it. *)
Joining(n, chains, t, links, members, items, tail, e, order, first) ==
  /\ members \in SUBSET Elements /\ items \in Nat /\ Cardinality(members) = items
  /\ TableHas(n, chains, t, links, members, items, tail, links) /\ Roomy(n, t)
  /\ e \in Elements /\ e \notin members
  /\ Listed(order, first, tail, links) /\ order # << >>
  /\ ToSet(order) = members \cup {e} /\ KeysDiffer(ToSet(order))

LEMMA AddToTableHolds ==
  ASSUME NEW t, NEW links, NEW e, NEW order, NEW first,
         NEW n, NEW chains, NEW members, NEW items, NEW tail,
         Joining(n, chains, t, links, members, items, tail, e, order, first)
  PROVE  Holds(After(first, AddToTable(t, links, e)), order)
<1> DEFINE r == AddToTable(t, links, e)
<1> DEFINE s == [head |-> first, tbl |-> r.tbl, links |-> r.links]
<1>0. /\ members \in SUBSET Elements /\ items \in Nat /\ Cardinality(members) = items
      /\ TableHas(n, chains, t, links, members, items, tail, links) /\ Roomy(n, t)
      /\ e \in Elements /\ e \notin members
      /\ Listed(order, first, tail, links) /\ order # << >>
      /\ ToSet(order) = members \cup {e} /\ KeysDiffer(ToSet(order))
  BY DEF Joining
<1>1. /\ n \in Nat \ {0} /\ t \in Tables(n) /\ links \in Links /\ Spread(chains, t.buckets, n, links, members)
  BY <1>0 DEF TableHas
<1>2. order \in Seq(Elements) /\ IsInjective(order)
  BY <1>0 DEF Listed, Strung
<1>3. IsFiniteSet(members)
  BY <1>0, HashTableAssumption, FS_Subset
<1>4. Cardinality(members \cup {e}) = items + 1 /\ Len(order) = items + 1
  <2>1. Cardinality(members \cup {e}) = Cardinality(members) + 1
    BY <1>0, <1>3, FS_AddElement
  <2>2. Cardinality(ToSet(order)) = Len(order)
    BY <1>2, InjectiveLength
  <2> QED
    BY <1>0, <2>1, <2>2
<1>5. PICK n2, chains2 :
           /\ TableHas(n2, chains2, r.tbl, r.links, members \cup {e}, items + 1, tail, links)
           /\ \/ n2 = n /\ Grown(t, r.tbl, n, ToBucket(e, n))
              \/ /\ n2 = 2 * n /\ Expanded(r.tbl, n2) /\ ~t.noexpand
  BY <1>0, AddToTableHas
<1> HIDE DEF r
<1>6. /\ n2 \in Nat \ {0} /\ r.tbl \in Tables(n2) /\ r.links \in Links
      /\ Spread(chains2, r.tbl.buckets, n2, r.links, members \cup {e})
      /\ r.tbl.items = items + 1 /\ r.tbl.tail = tail
      /\ OrderLink(r.links) = OrderLink(links) /\ OrderBack(r.links) = OrderBack(links)
  BY <1>5 DEF TableHas
<1>7. Listed(order, first, r.tbl.tail, r.links)
  BY <1>0, <1>6 DEF Listed
<1>8. TableHas(n2, chains2, r.tbl, r.links, ToSet(order), Len(order), r.tbl.tail, r.links)
  BY <1>0, <1>4, <1>6 DEF TableHas
<1>9. Roomy(n2, r.tbl)
  <2>1. CASE n2 = n /\ Grown(t, r.tbl, n, ToBucket(e, n))
    <3> DEFINE m == ToBucket(e, n)
    <3>1. m \in 0..n - 1 /\ Grown(t, r.tbl, n, m)
      BY <1>0, <1>1, <2>1, BucketInRange
    <3> HIDE DEF m
    <3>2. r.tbl \in Tables(n)
      BY <1>6, <2>1
    <3> DEFINE t2 == r.tbl
    <3> HIDE DEF t2
    <3>3. Roomy(n, t2)
      <4>1. t2 \in Tables(n) /\ Grown(t, t2, n, m)
        BY <3>1, <3>2 DEF t2
      <4> QED
        BY <1>0, <1>1, <3>1, <4>1, RoomyGrown
    <3> QED
      BY <2>1, <3>3 DEF t2
  <2>2. CASE n2 = 2 * n /\ Expanded(r.tbl, n2) /\ ~t.noexpand
    <3> DEFINE t2 == r.tbl
    <3> DEFINE links2 == r.links
    <3> DEFINE members2 == members \cup {e}
    <3>1. /\ members2 \in SUBSET Elements /\ t2 \in Tables(2 * n)
          /\ Spread(chains2, t2.buckets, 2 * n, links2, members2)
          /\ Cardinality(members2) = Cardinality(members) + 1
          /\ t2.items = Cardinality(members2) /\ Expanded(t2, 2 * n)
      BY <1>0, <1>4, <1>6, <2>2
    <3> HIDE DEF t2, links2, members2
    <3>2. Roomy(2 * n, t2)
      BY <1>0, <1>1, <2>2, <3>1, RoomyExpanded
    <3> QED
      BY <2>2, <3>2 DEF t2
  <2> QED
    BY <1>5, <2>1, <2>2
<1>10. s.head = first /\ s.tbl = r.tbl /\ s.links = r.links
  OBVIOUS
<1> HIDE DEF s
<1>11. Laid(order, chains2, n2, s)
  BY <1>0, <1>2, <1>6, <1>7, <1>8, <1>9, <1>10 DEF Laid
<1> QED
  BY <1>11 DEF Holds, After, s, r

LEMMA OrderCardinality ==
  ASSUME NEW order, NEW chains, NEW n, NEW s, Laid(order, chains, n, s), order # << >>
  PROVE  /\ IsInjective(order) /\ Len(order) \in Nat \ {0} /\ DOMAIN order = 1..Len(order)
         /\ ToSet(order) \in SUBSET Elements /\ Cardinality(ToSet(order)) = Len(order)
         /\ \A i \in DOMAIN order : order[i] \in Elements /\ order[i] # NoElem
<1>1. order \in Seq(Elements) /\ IsInjective(order)
  BY DEF Laid, Listed, Strung
<1>2. Len(order) \in Nat \ {0} /\ DOMAIN order = 1..Len(order)
  BY <1>1, LenProperties, EmptySeq
<1>3. \A i \in DOMAIN order : order[i] \in Elements /\ order[i] # NoElem
  BY <1>1, <1>2, ListLength
<1>4. Cardinality(ToSet(order)) = Len(order)
  BY <1>1, InjectiveLength
<1> QED
  BY <1>1, <1>2, <1>3, <1>4 DEF ToSet

(* HASH_MAKE_TABLE: one element, and no bucket has it yet.                 *)
LEMMA MakeTableHas ==
  ASSUME NEW links \in Links, NEW e \in Elements
  PROVE  \E chains :
           /\ TableHas(Initial, chains, MakeTable(links, e).tbl, MakeTable(links, e).links, {}, 0, e,
                       MakeTable(links, e).links)
           /\ Listed(<<e>>, e, e, MakeTable(links, e).links)
           /\ MakeTable(links, e).tbl.tail = e
           /\ Roomy(Initial, MakeTable(links, e).tbl)
<1> DEFINE Rec == [prev : Pointers, next : Pointers, hhPrev : Pointers, hhNext : Pointers]
<1> DEFINE t == [FreedTable EXCEPT !.tail = e, !.buckets = Buckets(Initial)]
<1> DEFINE links2 == [links EXCEPT ![e].prev = NoElem, ![e].next = NoElem]
<1> DEFINE chains == [b \in 0..Initial - 1 |-> << >>]
<1>1. Initial \in Nat \ {0}
  <2>1. PICK i \in 0..5 : Initial = 2^i
    BY HashTableAssumption
  <2> QED
    BY <2>1, PowerOfTwo
<1>2. MakeTable(links, e).tbl = t /\ MakeTable(links, e).links = links2
  BY DEF MakeTable
<1>3. e \in Pointers /\ NoElem \in Pointers
  BY DEF Pointers
<1>4. \A b \in 0..Initial - 1 : Buckets(Initial)[b] = EmptyBucket
  BY DEF Buckets
<1>5. Buckets(Initial) \in BucketArrays(Initial)
  <2>1. EmptyBucket \in [hhHead : Pointers, count : Nat, mult : Nat]
    BY <1>3 DEF EmptyBucket
  <2> QED
    BY <2>1 DEF Buckets, BucketArrays
<1>6. t \in Tables(Initial) /\ t.tail = e /\ t.items = 0 /\ t.buckets = Buckets(Initial)
  BY <1>3, <1>5 DEF Tables, FreedTable
<1>7. ASSUME NEW x \in Elements
      PROVE  links2[x] \in Rec /\ (x = e => links2[x].prev = NoElem /\ links2[x].next = NoElem)
  <2>1. links[x] \in Rec
    BY DEF Links
  <2>2. links2[x] = IF x = e THEN [links[x] EXCEPT !.prev = NoElem, !.next = NoElem] ELSE links[x]
    BY DEF Links
  <2> HIDE DEF links2
  <2> QED
    BY <1>3, <2>1, <2>2
<1>8. links2 \in Links
  <2>1. links2 = [x \in Elements |-> links2[x]]
    BY DEF Links
  <2> HIDE DEF links2
  <2> QED
    BY <1>7, <2>1 DEF Links
<1> HIDE DEF t, links2
<1>9. Spread(chains, t.buckets, Initial, links2, {})
  <2>1. << >> \in Seq(Elements) /\ DOMAIN << >> = {} /\ Len(<< >>) = 0 /\ ToSet(<< >>) = {}
    BY EmptySeq DEF ToSet
  <2>2. \A b \in 0..Initial - 1 : t.buckets[b] = EmptyBucket /\ chains[b] = << >>
    BY <1>4, <1>6
  <2> HIDE DEF chains
  <2>3. Strung(<< >>, NoElem, ChainBack(links2), ChainLink(links2))
    BY <2>1 DEF Strung, At, IsInjective
  <2>4. \A b \in 0..Initial - 1 : Hung(chains[b], t.buckets[b], links2) /\ ToSet(chains[b]) = {}
    BY <2>1, <2>2, <2>3 DEF Hung, EmptyBucket
  <2> QED
    BY <2>4 DEF Spread
<1> HIDE DEF chains
<1>10. TableHas(Initial, chains, t, links2, {}, 0, e, links2)
  BY <1>1, <1>6, <1>8, <1>9 DEF TableHas
<1>11. Listed(<<e>>, e, e, links2)
  <2>1. <<e>> \in Seq(Elements) /\ DOMAIN <<e>> = {1} /\ Len(<<e>>) = 1 /\ <<e>>[1] = e
    OBVIOUS
  <2>2. OrderBack(links2)[e] = NoElem /\ OrderLink(links2)[e] = NoElem
    BY <1>7 DEF OrderBack, OrderLink
  <2>3. At(<<e>>, 0) = NoElem /\ At(<<e>>, 2) = NoElem /\ At(<<e>>, 1) = e
    BY <2>1 DEF At
  <2>4. Strung(<<e>>, e, OrderBack(links2), OrderLink(links2))
    <3> DEFINE back == OrderBack(links2)
    <3> DEFINE fwd == OrderLink(links2)
    <3> HIDE DEF back, fwd
    <3>1. back[e] = NoElem /\ fwd[e] = NoElem
      BY <2>2 DEF back, fwd
    <3>2. \A i \in DOMAIN <<e>> : back[<<e>>[i]] = At(<<e>>, i - 1) /\ fwd[<<e>>[i]] = At(<<e>>, i + 1)
      BY <2>1, <2>3, <3>1
    <3>3. IsInjective(<<e>>)
      BY <2>1 DEF IsInjective
    <3> QED
      BY <2>1, <2>3, <3>2, <3>3 DEF Strung, back, fwd
  <2> QED
    BY <2>1, <2>3, <2>4 DEF Listed
<1>12. Roomy(Initial, t)
  <2>1. \A b \in 0..Initial - 1 : t.buckets[b].count = 0 /\ t.buckets[b].mult = 0
    BY <1>4, <1>6 DEF EmptyBucket
  <2> QED
    BY <1>1, <2>1, RoomyFresh
<1> QED
  BY <1>2, <1>6, <1>10, <1>11, <1>12

(* HASH_ADD_KEYPTR, of an element whose key no other one has.              *)
LEMMA AddedHolds ==
  ASSUME NEW s, NEW order, Holds(s, order), NEW e \in Elements, e \notin ToSet(order),
         \A d \in ToSet(order) : Key[d] # Key[e]
  PROVE  Holds(After(IF s.head = NoElem THEN e ELSE s.head, Added(s.head, s.tbl, s.links, e)),
               Append(order, e))
<1>1. PICK chains, n : Laid(order, chains, n, s)
  BY DEF Holds
<1>2. s.links \in Links /\ order \in Seq(Elements)
  BY <1>1 DEF Laid
<1>3. /\ Append(order, e) \in Seq(Elements) /\ ToSet(Append(order, e)) = ToSet(order) \cup {e}
      /\ Append(order, e) # << >>
  <2>1. Append(order, e) \in Seq(Elements) /\ ToSet(Append(order, e)) = ToSet(order) \cup {e}
    BY <1>2, AppendSet
  <2>2. Len(Append(order, e)) = Len(order) + 1 /\ Len(order) \in Nat
    BY <1>2, AppendProperties, LenProperties
  <2>3. Len(<< >>) = 0
    BY EmptySeq
  <2> QED
    BY <2>1, <2>2, <2>3
<1>4. CASE order = << >>
  <2> DEFINE r == MakeTable(s.links, e)
  <2>1. s.head = NoElem
    BY <1>1, <1>4 DEF Laid
  <2>2. Added(s.head, s.tbl, s.links, e) = AddToTable(r.tbl, r.links, e)
    BY <2>1 DEF Added
  <2>3. PICK chains2 : /\ TableHas(Initial, chains2, r.tbl, r.links, {}, 0, e, r.links)
                       /\ Listed(<<e>>, e, e, r.links) /\ r.tbl.tail = e
                       /\ Roomy(Initial, r.tbl)
    <3> DEFINE ls == s.links
    <3>1. ls \in Links
      BY <1>2
    <3> HIDE DEF ls
    <3>2. \E chains2 :
           /\ TableHas(Initial, chains2, MakeTable(ls, e).tbl, MakeTable(ls, e).links, {}, 0, e,
                       MakeTable(ls, e).links)
           /\ Listed(<<e>>, e, e, MakeTable(ls, e).links)
           /\ MakeTable(ls, e).tbl.tail = e
           /\ Roomy(Initial, MakeTable(ls, e).tbl)
      BY <3>1, MakeTableHas
    <3> QED
      BY <3>2 DEF ls
  <2>4. Append(order, e) = <<e>> /\ ToSet(<<e>>) = {} \cup {e} /\ <<e>> # << >>
    BY <1>4, <1>3 DEF ToSet
  <2>5. Cardinality({}) = 0
    BY FS_EmptySet
  <2> DEFINE t == r.tbl
  <2> DEFINE links == r.links
  <2>6. TableHas(Initial, chains2, t, links, {}, 0, t.tail, links) /\ Listed(<<e>>, e, t.tail, links)
        /\ Roomy(Initial, t)
    BY <2>3
  <2> DEFINE tail == t.tail
  <2> HIDE DEF r, t, links
  <2>7. Holds(After(e, AddToTable(t, links, e)), <<e>>)
    <3> DEFINE M == {}
    <3> DEFINE one == <<e>>
    <3>1. /\ M \in SUBSET Elements /\ 0 \in Nat /\ Cardinality(M) = 0 /\ e \notin M
          /\ one # << >> /\ ToSet(one) = M \cup {e}
          /\ KeysDiffer(ToSet(one))
      BY <2>4, <2>5 DEF KeysDiffer
    <3>2. TableHas(Initial, chains2, t, links, M, 0, tail, links) /\ Listed(one, e, tail, links)
          /\ Roomy(Initial, t)
      BY <2>6
    <3> HIDE DEF M, one, tail
    <3>3. Joining(Initial, chains2, t, links, M, 0, tail, e, one, e)
      BY <3>1, <3>2 DEF Joining
    <3>4. Holds(After(e, AddToTable(t, links, e)), one)
      BY <3>3, AddToTableHolds
    <3> QED
      BY <3>4 DEF one
  <2> QED
    BY <2>1, <2>2, <2>4, <2>7 DEF After, t, links
<1>5. CASE order # << >>
  <2> DEFINE a == AppendList(s.tbl, s.links, e)
  <2> DEFINE t0 == s.tbl
  <2> DEFINE links0 == s.links
  <2> DEFINE t == a.tbl
  <2> DEFINE links == a.links
  <2> DEFINE members == ToSet(order)
  <2> DEFINE items == Len(order)
  <2>1. /\ Listed(order, s.head, t0.tail, links0)
        /\ TableHas(n, chains, t0, links0, members, items, t0.tail, links0)
        /\ KeysDiffer(ToSet(order))
        /\ Roomy(n, t0)
    BY <1>1, <1>5 DEF Laid
  <2>2. n \in Nat /\ n \in Nat \ {0} /\ t0 \in Tables(n) /\ links0 \in Links
        /\ Spread(chains, t0.buckets, n, links0, members) /\ t0.items = items
    BY <2>1 DEF TableHas
  <2>3. s.head # NoElem /\ s.head = At(order, 1)
    <3>1. s.head = At(order, 1)
      BY <2>1 DEF Listed, Strung
    <3>2. 1 \in DOMAIN order /\ order[1] # NoElem
      BY <1>1, <1>5, OrderCardinality
    <3> QED
      BY <3>1, <3>2 DEF At
  <2>4. Added(s.head, s.tbl, s.links, e) = AddToTable(t, links, e)
    BY <2>3 DEF Added
  <2>5. /\ t = [t0 EXCEPT !.tail = e] /\ links \in Links
        /\ Listed(Append(order, e), s.head, e, links)
        /\ ChainBack(links) = ChainBack(links0) /\ ChainLink(links) = ChainLink(links0)
    <3> DEFINE first == s.head
    <3> DEFINE tail == t0.tail
    <3>1. Listed(order, first, tail, links0) /\ tail = t0.tail
      BY <2>1
    <3> HIDE DEF t0, links0, first, tail
    <3>2. Following(links0, order, first, tail, e)
      BY <1>5, <2>2, <3>1 DEF Following
    <3>3. /\ AppendList(t0, links0, e).tbl = [t0 EXCEPT !.tail = e]
          /\ Followed(AppendList(t0, links0, e).links, links0, Append(order, e), first, e)
      BY <3>1, <3>2, AppendListed
    <3> QED
      BY <3>3 DEF Followed, t0, links0, first
  <2>6. /\ members \in SUBSET Elements /\ items \in Nat /\ Cardinality(members) = items
    BY <1>1, <1>5, OrderCardinality
  <2> HIDE DEF t, links, t0, links0, a
  <2>7. t \in Tables(n) /\ t.tail = e /\ t.items = items /\ t.buckets = t0.buckets /\ t.noexpand = t0.noexpand
    <3>1. e \in Pointers
      BY DEF Pointers
    <3> QED
      BY <2>2, <2>5, <3>1 DEF Tables
  <2>8. Roomy(n, t)
    BY <2>1, <2>7 DEF Roomy, Rooms
  <2>9. TableHas(n, chains, t, links, members, items, t.tail, links)
    <3>1. Spread(chains, t.buckets, n, links, members)
      <4> DEFINE bs == t0.buckets
      <4>1. Spread(chains, bs, n, links0, members)
        BY <2>2
      <4> HIDE DEF bs, members
      <4>2. Spread(chains, bs, n, links, members)
        BY <2>5, <4>1, SpreadKept
      <4> QED
        BY <2>7, <4>2 DEF bs, members
    <3> QED
      BY <2>2, <2>5, <2>7, <3>1 DEF TableHas
  <2>10. KeysDiffer(ToSet(Append(order, e)))
    BY <1>3, <2>1 DEF KeysDiffer
  <2>11. Listed(Append(order, e), s.head, t.tail, links)
    BY <2>5, <2>7
  <2> DEFINE order2 == Append(order, e)
  <2> DEFINE first == s.head
  <2>12. /\ ToSet(order2) = members \cup {e} /\ order2 # << >> /\ e \notin members
         /\ KeysDiffer(ToSet(order2))
         /\ Listed(order2, first, t.tail, links)
    BY <1>3, <2>10, <2>11
  <2> DEFINE tail == t.tail
  <2>13. TableHas(n, chains, t, links, members, items, tail, links) /\ Listed(order2, first, tail, links)
    BY <2>9, <2>12
  <2> HIDE DEF members, items, order2, first, tail
  <2>14. Joining(n, chains, t, links, members, items, tail, e, order2, first)
    BY <2>6, <2>8, <2>12, <2>13 DEF Joining
  <2>15. Holds(After(first, AddToTable(t, links, e)), order2)
    BY <2>14, AddToTableHolds
  <2> QED
    BY <2>3, <2>4, <2>15 DEF After, order2, first
<1> QED
  BY <1>4, <1>5

(* HASH_ADD_INORDER, at the place p.                                       *)
LEMMA InOrderHolds ==
  ASSUME NEW s, NEW order, Holds(s, order), NEW e \in Elements, e \notin ToSet(order),
         \A d \in ToSet(order) : Key[d] # Key[e], NEW p \in DOMAIN order
  PROVE  LET i == InsertBefore(s.tbl, s.links, order[p], e)
         IN Holds(After(IF s.head = order[p] THEN e ELSE s.head, AddToTable(i.tbl, i.links, e)),
                  InsertAt(order, p, e))
<1> DEFINE a == InsertBefore(s.tbl, s.links, order[p], e)
<1> DEFINE t == s.tbl
<1> DEFINE links0 == s.links
<1> DEFINE links == a.links
<1> DEFINE members == ToSet(order)
<1> DEFINE items == Len(order)
<1> DEFINE first == IF s.head = order[p] THEN e ELSE s.head
<1> DEFINE order2 == InsertAt(order, p, e)
<1>1. PICK chains, n : Laid(order, chains, n, s)
  BY DEF Holds
<1>2. order \in Seq(Elements) /\ order # << >>
  <2>1. DOMAIN << >> = {}
    OBVIOUS
  <2> QED
    BY <1>1, <2>1 DEF Laid
<1>3. /\ Listed(order, s.head, t.tail, links0)
      /\ TableHas(n, chains, t, links0, members, items, t.tail, links0)
      /\ KeysDiffer(ToSet(order))
      /\ Roomy(n, t)
  BY <1>1, <1>2 DEF Laid
<1>4. /\ members \in SUBSET Elements /\ items \in Nat /\ Cardinality(members) = items
      /\ DOMAIN order = 1..Len(order)
  BY <1>1, <1>2, OrderCardinality
<1>5. /\ n \in Nat \ {0} /\ t \in Tables(n) /\ links0 \in Links
      /\ Spread(chains, t.buckets, n, links0, members) /\ t.items = items
  BY <1>3 DEF TableHas
<1>6. /\ a.tbl = t /\ links \in Links /\ Listed(order2, first, t.tail, links)
      /\ ChainBack(links) = ChainBack(links0) /\ ChainLink(links) = ChainLink(links0)
  <2> DEFINE h == s.head
  <2> DEFINE tail == t.tail
  <2>1. Listed(order, h, tail, links0)
    BY <1>3
  <2> HIDE DEF t, links0, h, tail
  <2>2. /\ InsertBefore(t, links0, order[p], e).tbl = t
        /\ InsertBefore(t, links0, order[p], e).links \in Links
        /\ Listed(InsertAt(order, p, e), IF h = order[p] THEN e ELSE h, tail,
                  InsertBefore(t, links0, order[p], e).links)
        /\ ChainBack(InsertBefore(t, links0, order[p], e).links) = ChainBack(links0)
        /\ ChainLink(InsertBefore(t, links0, order[p], e).links) = ChainLink(links0)
    BY <1>5, <2>1, InsertListed
  <2> QED
    BY <2>2 DEF t, links0, h, tail
<1>7. order2 \in Seq(Elements) /\ ToSet(order2) = members \cup {e} /\ order2 # << >>
  <2>1. p \in 1..Len(order) + 1
    BY <1>4
  <2>2. ToSet(order2) = members \cup {e} /\ order2 \in Seq(Elements)
    BY <1>2, <2>1, InsertSet
  <2>3. ToSet(<< >>) = {}
    BY DEF ToSet
  <2> HIDE DEF order2
  <2> QED
    BY <2>2, <2>3
<1>8. TableHas(n, chains, t, links, members, items, t.tail, links)
  <2> DEFINE bs == t.buckets
  <2>1. Spread(chains, bs, n, links0, members)
    BY <1>5
  <2> HIDE DEF bs, links0, links
  <2>2. Spread(chains, bs, n, links, members)
    BY <1>6, <2>1, SpreadKept
  <2> QED
    BY <1>5, <1>6, <2>2 DEF TableHas, bs
<1>9. KeysDiffer(ToSet(order2))
  BY <1>3, <1>7 DEF KeysDiffer
<1> DEFINE tail == t.tail
<1>10. TableHas(n, chains, t, links, members, items, tail, links) /\ Listed(order2, first, tail, links)
  BY <1>6, <1>8
<1> HIDE DEF t, links0, links, members, items, order2, first, tail
<1>11. Holds(After(first, AddToTable(t, links, e)), order2)
  <2>1. Roomy(n, t) /\ e \notin members
    BY <1>3 DEF members
  <2>2. Joining(n, chains, t, links, members, items, tail, e, order2, first)
    BY <1>4, <1>7, <1>9, <1>10, <2>1 DEF Joining
  <2> QED
    BY <2>2, AddToTableHolds
<1> QED
  BY <1>6, <1>11 DEF After, t, links, order2, first

(* HASH_DELETE of the element at the place p, with others left: the        *)
(* application order is closed over it.                                    *)
Leaving(links, order, first, tail, p) ==
  /\ links \in Links /\ Listed(order, first, tail, links)
  /\ p \in DOMAIN order /\ Len(order) # 1

LEMMA DeletedListed ==
  ASSUME NEW links, NEW order, NEW first, NEW tail, NEW p, Leaving(links, order, first, tail, p),
         NEW e, e = order[p]
  PROVE  /\ ~(links[e].prev = NoElem /\ links[e].next = NoElem)
         /\ Listed(RemoveAt(order, p), IF links[e].prev = NoElem THEN links[e].next ELSE first,
                   IF tail = e THEN links[e].prev ELSE tail, DeletedLinks(links, e))
<1> DEFINE links2 == DeletedLinks(links, e)
<1> DEFINE back == OrderBack(links)
<1> DEFINE fwd == OrderLink(links)
<1> DEFINE back2 == OrderBack(links2)
<1> DEFINE fwd2 == OrderLink(links2)
<1> DEFINE k == Len(order)
<1> DEFINE start == IF links[e].prev = NoElem THEN links[e].next ELSE first
<1> DEFINE end == IF tail = e THEN links[e].prev ELSE tail
<1> DEFINE t == RemoveAt(order, p)
<1>1. links \in Links /\ Listed(order, first, tail, links) /\ p \in DOMAIN order /\ k # 1
  BY DEF Leaving
<1>2. Strung(order, first, back, fwd) /\ tail = At(order, k)
  BY <1>1 DEF Listed
<1>3. /\ order \in Seq(Elements) /\ IsInjective(order) /\ first = At(order, 1)
      /\ \A i \in DOMAIN order : back[order[i]] = At(order, i - 1) /\ fwd[order[i]] = At(order, i + 1)
  BY <1>2 DEF Strung
<1>4. k \in Nat /\ DOMAIN order = 1..k /\ \A i \in DOMAIN order : order[i] \in Elements /\ order[i] # NoElem
  BY <1>3, ListLength
<1> HIDE DEF k
<1>5. p \in 1..k /\ k > 1 /\ e \in Elements /\ e # NoElem
  BY <1>1, <1>4
<1>6. back[e] = links[e].prev /\ fwd[e] = links[e].next
  BY <1>5 DEF OrderBack, OrderLink
<1>7. links[e].prev = At(order, p - 1) /\ links[e].next = At(order, p + 1)
  BY <1>1, <1>3, <1>6
<1>8. (links[e].prev = NoElem <=> p = 1) /\ (links[e].next = NoElem <=> p = k)
  BY <1>4, <1>5, <1>7 DEF At
<1>9. /\ links2 \in Links
      /\ \A x \in Elements : x # e =>
           /\ links2[x].next = IF x = links[e].prev THEN links[e].next ELSE links[x].next
           /\ links2[x].prev = IF x = links[e].next THEN links[e].prev ELSE links[x].prev
  BY <1>1, <1>5, DeletedLinksValues
<1>10. \A x \in Elements : x # e =>
           /\ fwd2[x] = IF x = links[e].prev THEN fwd[e] ELSE fwd[x]
           /\ back2[x] = IF x = links[e].next THEN back[e] ELSE back[x]
  BY <1>5, <1>9 DEF OrderBack, OrderLink
<1> HIDE DEF links2, back, fwd, back2, fwd2
<1>11. ASSUME NEW i \in DOMAIN order, i # p
       PROVE  /\ back2[order[i]] = IF i = p + 1 THEN back[order[p]] ELSE back[order[i]]
              /\ fwd2[order[i]] = IF i = p - 1 THEN fwd[order[p]] ELSE fwd[order[i]]
  <2>1. i \in 1..k /\ order[i] \in Elements /\ order[i] # e /\ order[i] # NoElem
    BY <1>1, <1>3, <1>4, <1>11 DEF IsInjective
  <2>2. order[i] = links[e].next <=> i = p + 1
    BY <1>1, <1>3, <1>4, <1>5, <1>7, <2>1 DEF IsInjective, At
  <2>3. order[i] = links[e].prev <=> i = p - 1
    BY <1>1, <1>3, <1>4, <1>5, <1>7, <2>1 DEF IsInjective, At
  <2> QED
    BY <1>10, <2>1, <2>2, <2>3
<1>12. start = IF p = 1 THEN fwd[order[p]] ELSE first
  BY <1>6, <1>8
<1> HIDE DEF start
<1>13. Strung(t, start, back2, fwd2)
  <2>1. /\ \A i \in DOMAIN order : i # p => back2[order[i]] = IF i = p + 1 THEN back[order[p]] ELSE back[order[i]]
        /\ \A i \in DOMAIN order : i # p => fwd2[order[i]] = IF i = p - 1 THEN fwd[order[p]] ELSE fwd[order[i]]
    BY <1>11
  <2> QED
    BY <1>1, <1>2, <1>12, <2>1, RemoveStrung
<1>14. end = At(t, Len(t))
  <2>1. /\ Len(t) = k - 1 /\ \A j \in 1..k - 1 : t[j] = IF j < p THEN order[j] ELSE order[j + 1]
        /\ t \in Seq(Elements)
    BY <1>3, <1>5, RemoveAtProperties DEF k
  <2>2. DOMAIN t = 1..k - 1
    BY <2>1, LenProperties
  <2> HIDE DEF t
  <2>3. At(t, Len(t)) = IF p = k THEN order[k - 1] ELSE order[k]
    BY <1>4, <1>5, <2>1, <2>2 DEF At
  <2>4. tail = order[k] /\ (tail = e <=> p = k)
    BY <1>1, <1>2, <1>3, <1>4, <1>5 DEF At, IsInjective
  <2>5. p = k => links[e].prev = order[k - 1]
    BY <1>4, <1>5, <1>7 DEF At
  <2> QED
    BY <2>3, <2>4, <2>5
<1>15. Listed(t, start, end, links2)
  BY <1>13, <1>14 DEF Listed, back2, fwd2
<1> QED
  BY <1>5, <1>8, <1>15 DEF start, links2

(* The table HASH_DELETE leaves: one element fewer, in bucket m.           *)
DeletedTable(t, links, e, m) ==
  [t EXCEPT !.tail = IF @ = e THEN links[e].prev ELSE @,
            !.buckets[m].count = @ - 1,
            !.buckets[m].hhHead = IF @ = e THEN links[e].hhNext ELSE @,
            !.items = @ - 1]

LEMMA DeletedTableHas ==
  ASSUME NEW n \in Nat \ {0}, NEW t \in Tables(n), NEW links \in Links, NEW e \in Elements,
         NEW m \in 0..n - 1, t.items # 0, t.buckets[m].count # 0
  PROVE  /\ DeletedTable(t, links, e, m) \in Tables(n)
         /\ DeletedTable(t, links, e, m).items = t.items - 1
         /\ DeletedTable(t, links, e, m).tail = IF t.tail = e THEN links[e].prev ELSE t.tail
         /\ DeletedTable(t, links, e, m).buckets \in BucketArrays(n)
         /\ Shrunk(t, DeletedTable(t, links, e, m), n)
         /\ \A b \in 0..n - 1 :
              IF b = m
              THEN /\ DeletedTable(t, links, e, m).buckets[b].hhHead =
                        IF t.buckets[b].hhHead = e THEN links[e].hhNext ELSE t.buckets[b].hhHead
                   /\ DeletedTable(t, links, e, m).buckets[b].count = t.buckets[b].count - 1
              ELSE DeletedTable(t, links, e, m).buckets[b] = t.buckets[b]
<1> DEFINE old == t.buckets[m]
<1> DEFINE before == IF t.tail = e THEN links[e].prev ELSE t.tail
<1> DEFINE front == IF old.hhHead = e THEN links[e].hhNext ELSE old.hhHead
<1> DEFINE new == [old EXCEPT !.count = old.count - 1, !.hhHead = front]
<1> DEFINE buckets2 == [t.buckets EXCEPT ![m] = new]
<1> DEFINE t2 == DeletedTable(t, links, e, m)
<1>1. t \in [tail : Pointers, items : Nat, ideal : Nat, ineff : Nat, noexpand : BOOLEAN, buckets : BucketArrays(n)]
  BY DEF Tables
<1>2. t.buckets \in BucketArrays(n) /\ old \in [hhHead : Pointers, count : Nat, mult : Nat]
  BY <1>1 DEF BucketArrays
<1>3. links[e] \in [prev : Pointers, next : Pointers, hhPrev : Pointers, hhNext : Pointers]
  BY DEF Links
<1>4. front \in Pointers /\ before \in Pointers
  BY <1>1, <1>2, <1>3
<1>5. /\ new \in [hhHead : Pointers, count : Nat, mult : Nat]
      /\ new.hhHead = front /\ new.count = old.count - 1 /\ new.mult = old.mult
  <2> DEFINE c == old.count - 1
  <2>1. c \in Nat
    BY <1>2
  <2>2. new = [old EXCEPT !.count = c, !.hhHead = front]
    OBVIOUS
  <2> HIDE DEF old, new, c, front
  <2>3. new \in [hhHead : Pointers, count : Nat, mult : Nat] /\ new.hhHead = front /\ new.count = c
        /\ new.mult = old.mult
    BY <1>2, <1>4, <2>1, <2>2
  <2> QED
    BY <2>3 DEF c
<1>6. buckets2 \in BucketArrays(n) /\ \A b \in 0..n - 1 : buckets2[b] = IF b = m THEN new ELSE t.buckets[b]
  <2> HIDE DEF new
  <2> QED
    BY <1>2, <1>5 DEF BucketArrays
<1>7. /\ t2 \in Tables(n) /\ t2.buckets = buckets2 /\ t2.items = t.items - 1
      /\ t2.tail = before /\ t2.noexpand = t.noexpand
  <2>1. t2 = [t EXCEPT !.tail = before, !.items = t.items - 1, !.buckets = buckets2]
    BY <1>1, <1>2 DEF BucketArrays, DeletedTable
  <2> DEFINE i == t.items - 1
  <2>2. i \in Nat /\ t2 = [t EXCEPT !.tail = before, !.items = i, !.buckets = buckets2]
    BY <1>1, <2>1
  <2> HIDE DEF t2, buckets2, i, before
  <2>3. /\ t2 \in [tail : Pointers, items : Nat, ideal : Nat, ineff : Nat, noexpand : BOOLEAN,
                   buckets : BucketArrays(n)]
        /\ t2.buckets = buckets2 /\ t2.items = i /\ t2.tail = before /\ t2.noexpand = t.noexpand
    BY <1>1, <1>4, <1>6, <2>2
  <2> QED
    BY <2>3 DEF Tables, i
<1> HIDE DEF t2, buckets2, new
<1>8. Shrunk(t, t2, n)
  <2>1. ASSUME NEW b \in 0..n - 1
        PROVE  t2.buckets[b].mult = t.buckets[b].mult /\ t2.buckets[b].count <= t.buckets[b].count
    <3>1. CASE b = m
      BY <1>2, <1>5, <1>6, <1>7, <3>1
    <3>2. CASE b # m
      <4>1. t2.buckets[b] = t.buckets[b]
        BY <1>6, <1>7, <3>2
      <4>2. t.buckets[b].count \in Nat
        BY <1>2 DEF BucketArrays
      <4> QED
        BY <4>1, <4>2
    <3> QED
      BY <3>1, <3>2
  <2> QED
    BY <1>7, <2>1 DEF Shrunk
<1>9. \A b \in 0..n - 1 :
        IF b = m
        THEN /\ t2.buckets[b].hhHead = IF t.buckets[b].hhHead = e THEN links[e].hhNext ELSE t.buckets[b].hhHead
             /\ t2.buckets[b].count = t.buckets[b].count - 1
        ELSE t2.buckets[b] = t.buckets[b]
  BY <1>5, <1>6, <1>7
<1> QED
  BY <1>6, <1>7, <1>8, <1>9 DEF t2

(* HASH_DELETE *)
LEMMA DeletedHolds ==
  ASSUME NEW s, NEW order, Holds(s, order), NEW p \in DOMAIN order
  PROVE  Holds(Deleted(s, order[p]), RemoveAt(order, p))
<1> DEFINE e == order[p]
<1> DEFINE t == s.tbl
<1> DEFINE links == s.links
<1> DEFINE first == s.head
<1> DEFINE tail == t.tail
<1> DEFINE members == ToSet(order)
<1> DEFINE order2 == RemoveAt(order, p)
<1>1. PICK chains, n : Laid(order, chains, n, s)
  BY DEF Holds
<1>2. order \in Seq(Elements) /\ order # << >> /\ links \in Links
  <2>1. DOMAIN << >> = {}
    OBVIOUS
  <2> QED
    BY <1>1, <2>1 DEF Laid
<1>3. /\ Listed(order, first, tail, links)
      /\ TableHas(n, chains, t, links, members, Len(order), tail, links)
      /\ KeysDiffer(members) /\ Roomy(n, t)
  BY <1>1, <1>2 DEF Laid
<1>4. /\ members \in SUBSET Elements /\ Len(order) \in Nat \ {0} /\ Cardinality(members) = Len(order)
      /\ DOMAIN order = 1..Len(order) /\ IsInjective(order) /\ e \in Elements /\ e # NoElem
  BY <1>1, <1>2, OrderCardinality
<1>5. /\ n \in Nat \ {0} /\ t \in Tables(n)
      /\ Spread(chains, t.buckets, n, links, members) /\ t.items = Len(order)
  BY <1>3 DEF TableHas
<1>6. /\ order2 \in Seq(Elements) /\ ToSet(order2) = members \ {e} /\ IsInjective(order2)
      /\ Len(order2) = Len(order) - 1
  BY <1>2, <1>4, RemoveSet, RemoveAtProperties
<1>7. e \in members
  BY DEF ToSet
<1>8. CASE Len(order) = 1
  <2>1. Strung(order, first, OrderBack(links), OrderLink(links))
    BY <1>3 DEF Listed
  <2>2. p = 1 /\ OrderBack(links)[e] = At(order, 0) /\ OrderLink(links)[e] = At(order, 2)
    BY <1>4, <1>8, <2>1 DEF Strung
  <2>3. links[e].prev = NoElem /\ links[e].next = NoElem
    BY <1>4, <1>8, <2>2 DEF At, OrderBack, OrderLink
  <2>4. Deleted(s, e) = [head |-> NoElem, tbl |-> FreedTable, links |-> Forget(links, {e})]
    BY <2>3 DEF Deleted
  <2>5. Forget(links, {e}) \in Links
    BY <1>2 DEF Forget, Links, NoLinks, Pointers
  <2>6. order2 = << >>
    BY <1>6, <1>8, EmptySeq
  <2> DEFINE s2 == Deleted(s, e)
  <2>7. s2.head = NoElem /\ s2.tbl = FreedTable /\ s2.links \in Links
    BY <2>4, <2>5
  <2> HIDE DEF s2, order2
  <2>8. Laid(order2, chains, n, s2)
    BY <1>6, <2>6, <2>7 DEF Laid
  <2> QED
    BY <2>8 DEF Holds, s2, order2
<1>9. CASE Len(order) # 1
  <2> DEFINE m == ToBucket(e, n)
  <2> DEFINE t2 == DeletedTable(t, links, e, m)
  <2> DEFINE links2 == DeletedLinks(links, e)
  <2> DEFINE first2 == IF links[e].prev = NoElem THEN links[e].next ELSE first
  <2> DEFINE tail2 == IF tail = e THEN links[e].prev ELSE tail
  <2>1. /\ ~(links[e].prev = NoElem /\ links[e].next = NoElem)
        /\ Listed(order2, first2, tail2, links2)
    <3> DEFINE ls == links
    <3> DEFINE fs == first
    <3> DEFINE tl == tail
    <3> HIDE DEF links, first, tail
    <3>1. Leaving(links, order, first, tail, p) /\ e = order[p]
      BY <1>2, <1>3, <1>9 DEF Leaving
    <3> HIDE DEF e
    <3>2. /\ ~(links[e].prev = NoElem /\ links[e].next = NoElem)
          /\ Listed(RemoveAt(order, p), IF links[e].prev = NoElem THEN links[e].next ELSE first,
                    IF tail = e THEN links[e].prev ELSE tail, DeletedLinks(links, e))
      BY <3>1, DeletedListed
    <3> QED
      BY <3>2
  <2>2. Num(t) = n /\ m \in 0..n - 1
    BY <1>4, <1>5, NumBuckets, BucketInRange
  <2>3. Deleted(s, e) = [head |-> first2, tbl |-> t2, links |-> links2]
    <3> HIDE DEF m, e
    <3>1. ToBucket(e, Num(t)) = m
      BY <2>2 DEF m
    <3> QED
      BY <2>1, <3>1 DEF Deleted, DeletedTable, DeletedLinks
  <2>4. t.buckets[m].count # 0
    <3>1. ToSet(chains[m]) = {x \in members : ToBucket(x, n) = m}
          /\ t.buckets[m].count = Len(chains[m]) /\ chains[m] \in Seq(Elements)
      BY <1>5, <2>2 DEF Spread, Hung, Strung
    <3>2. e \in ToSet(chains[m])
      BY <1>7, <3>1
    <3>3. chains[m] # << >>
      BY <3>2 DEF ToSet
    <3> QED
      BY <3>1, <3>3, EmptySeq
  <2>5. /\ t2 \in Tables(n) /\ t2.items = t.items - 1 /\ t2.tail = tail2 /\ t2.buckets \in BucketArrays(n)
        /\ Shrunk(t, t2, n)
        /\ \A b \in 0..n - 1 :
              IF b = m
              THEN /\ t2.buckets[b].hhHead =
                        IF t.buckets[b].hhHead = e THEN links[e].hhNext ELSE t.buckets[b].hhHead
                   /\ t2.buckets[b].count = t.buckets[b].count - 1
              ELSE t2.buckets[b] = t.buckets[b]
    <3>1. n \in Nat \ {0} /\ t \in Tables(n) /\ links \in Links /\ e \in Elements /\ m \in 0..n - 1
          /\ t.items # 0 /\ t.buckets[m].count # 0
      BY <1>2, <1>4, <1>5, <2>2, <2>4
    <3> HIDE DEF e, t, links, m
    <3> QED
      BY <3>1, DeletedTableHas
  <2>6. /\ links2 \in Links
        /\ \A x \in Elements : x # e =>
            /\ links2[x].hhNext = IF x = links[e].hhPrev THEN links[e].hhNext ELSE links[x].hhNext
            /\ links2[x].hhPrev = IF x = links[e].hhNext THEN links[e].hhPrev ELSE links[x].hhPrev
    <3> HIDE DEF e, links
    <3> QED
      BY <1>2, <1>4, DeletedLinksValues
  <2>7. PICK chains2 : Spread(chains2, t2.buckets, n, links2, members \ {e})
    <3> DEFINE bs == t.buckets
    <3> DEFINE bs2 == t2.buckets
    <3> HIDE DEF t, t2, links, links2, members, e
    <3>1. bs \in BucketArrays(n)
      BY <1>5 DEF Tables
    <3>2. Closing(n, chains, bs, links, members, e, bs2, links2)
      BY <1>2, <1>4, <1>5, <1>7, <2>5, <2>6, <3>1 DEF Closing
    <3> HIDE DEF bs, bs2
    <3> QED
      BY <3>2, RemoveSpread DEF bs2
  <2>8. Roomy(n, t2)
    <3> HIDE DEF t2, t
    <3> QED
      BY <1>3, <1>5, <2>5, RoomyShrunk
  <2> DEFINE s2 == Deleted(s, e)
  <2>9. s2.head = first2 /\ s2.tbl = t2 /\ s2.links = links2
    BY <2>3
  <2> HIDE DEF s2, t2, links2, first2, tail2, t, links, order2, members, e
  <2>10. Listed(order2, s2.head, s2.tbl.tail, s2.links)
    BY <2>1, <2>5, <2>9
  <2>11. TableHas(n, chains2, s2.tbl, s2.links, ToSet(order2), Len(order2), s2.tbl.tail, s2.links)
    BY <1>5, <1>6, <2>5, <2>6, <2>7, <2>9 DEF TableHas
  <2>12. KeysDiffer(ToSet(order2))
    BY <1>3, <1>6 DEF KeysDiffer
  <2>13. order2 # << >>
    BY <1>4, <1>6, <1>9, EmptySeq
  <2>14. Laid(order2, chains2, n, s2)
    BY <1>6, <2>6, <2>8, <2>9, <2>10, <2>11, <2>12, <2>13 DEF Laid
  <2> QED
    BY <2>14 DEF Holds, s2, order2, e
<1> QED
  BY <1>8, <1>9

-----------------------------------------------------------------------------
(***************************************************************************)
(* The variables hold a list: the inductive invariant.  What iterating,    *)
(* walking a chain and looking a key up give under it.                     *)
(***************************************************************************)
HTInv == \E order : Holds(Here, order)

LEMMA HereFields == Here.head = head /\ Here.tbl = tbl /\ Here.links = hh
  BY DEF Here

LEMMA EmptyStrung ==
  ASSUME NEW back, NEW fwd
  PROVE  Strung(<< >>, NoElem, back, fwd)
<1>1. << >> \in Seq(Elements) /\ DOMAIN << >> = {}
  BY EmptySeq
<1> QED
  BY <1>1 DEF Strung, At, IsInjective

LEMMA HoldsOrder ==
  ASSUME NEW order, Holds(Here, order)
  PROVE  AppOrder = order /\ order \in Seq(Elements) /\ IsInjective(order) /\ KeysDiffer(ToSet(order))
         /\ (head = NoElem <=> order = << >>)
<1>1. PICK chains, n : Laid(order, chains, n, Here)
  BY DEF Holds
<1>2. order \in Seq(Elements)
  BY <1>1 DEF Laid
<1>3. CASE order = << >>
  <2>1. head = NoElem
    BY <1>1, <1>3, HereFields DEF Laid
  <2>2. Strung(order, head, OrderBack(hh), OrderLink(hh))
    BY <1>3, <2>1, EmptyStrung
  <2>3. AppOrder = order
    BY <2>2, WalkStrung DEF AppOrder
  <2>4. IsInjective(order)
    BY <2>2 DEF Strung
  <2>5. ToSet(order) = {}
    BY <1>3 DEF ToSet
  <2> QED
    BY <1>2, <1>3, <2>1, <2>3, <2>4, <2>5 DEF KeysDiffer
<1>4. CASE order # << >>
  <2>1. Listed(order, head, tbl.tail, hh) /\ KeysDiffer(ToSet(order))
    BY <1>1, <1>4, HereFields DEF Laid
  <2>2. Strung(order, head, OrderBack(hh), OrderLink(hh))
    BY <2>1 DEF Listed
  <2>3. AppOrder = order
    BY <2>2, WalkStrung DEF AppOrder
  <2>4. IsInjective(order) /\ head = At(order, 1)
    BY <2>2 DEF Strung
  <2>5. 1 \in DOMAIN order /\ order[1] # NoElem
    BY <1>1, <1>4, OrderCardinality
  <2>6. head # NoElem
    BY <2>4, <2>5 DEF At
  <2> QED
    BY <1>2, <1>4, <2>1, <2>3, <2>4, <2>6
<1> QED
  BY <1>3, <1>4

(* Which chains the walks find, and what is in them.                       *)
Chained(order, chains, n) ==
  /\ n \in Nat \ {0} /\ Num(tbl) = n /\ DOMAIN tbl.buckets = 0..n - 1
  /\ \A b \in 0..n - 1 :
       /\ Chain(b) = chains[b] /\ chains[b] \in Seq(Elements) /\ IsInjective(chains[b])
       /\ ToSet(chains[b]) = {e \in ToSet(order) : ToBucket(e, n) = b}
       /\ tbl.buckets[b].count = Len(chains[b])
       /\ \A i \in DOMAIN chains[b] : hh[chains[b][i]].hhPrev = At(chains[b], i - 1)

LEMMA HoldsChains ==
  ASSUME NEW order, NEW chains, NEW n, Laid(order, chains, n, Here), order # << >>
  PROVE  Chained(order, chains, n)
<1>1. TableHas(n, chains, tbl, hh, ToSet(order), Len(order), tbl.tail, hh)
  BY HereFields DEF Laid
<1>2. n \in Nat \ {0} /\ tbl \in Tables(n) /\ Spread(chains, tbl.buckets, n, hh, ToSet(order))
  BY <1>1 DEF TableHas
<1>3. Num(tbl) = n
  BY <1>2, NumBuckets
<1>4. DOMAIN tbl.buckets = 0..n - 1
  BY <1>2 DEF Tables, BucketArrays
<1>5. ASSUME NEW b \in 0..n - 1
      PROVE  /\ Chain(b) = chains[b] /\ chains[b] \in Seq(Elements) /\ IsInjective(chains[b])
             /\ ToSet(chains[b]) = {e \in ToSet(order) : ToBucket(e, n) = b}
             /\ tbl.buckets[b].count = Len(chains[b])
             /\ \A i \in DOMAIN chains[b] : hh[chains[b][i]].hhPrev = At(chains[b], i - 1)
  <2> DEFINE list == chains[b]
  <2>1. Hung(list, tbl.buckets[b], hh) /\ ToSet(list) = {e \in ToSet(order) : ToBucket(e, n) = b}
    BY <1>2 DEF Spread
  <2>2. Strung(list, tbl.buckets[b].hhHead, ChainBack(hh), ChainLink(hh)) /\ tbl.buckets[b].count = Len(list)
    BY <2>1 DEF Hung
  <2> HIDE DEF list
  <2>3. Chain(b) = list
    BY <2>2, WalkStrung DEF Chain
  <2>4. /\ list \in Seq(Elements) /\ IsInjective(list)
        /\ \A i \in DOMAIN list : ChainBack(hh)[list[i]] = At(list, i - 1)
    BY <2>2 DEF Strung
  <2>5. \A i \in DOMAIN list : list[i] \in Elements
    BY <2>4, ListLength
  <2>6. \A i \in DOMAIN list : hh[list[i]].hhPrev = At(list, i - 1)
    BY <2>4, <2>5 DEF ChainBack
  <2> QED
    BY <2>1, <2>2, <2>3, <2>4, <2>6 DEF list
<1> QED
  BY <1>2, <1>3, <1>4, <1>5 DEF Chained

(* HASH_FIND gives the element of the list with the key, or none.          *)
LEMMA FindHolds ==
  ASSUME NEW order, Holds(Here, order), NEW e \in Elements
  PROVE  /\ (\A d \in ToSet(order) : Key[d] # Key[e]) => Find(Key[e]) = NoElem
         /\ \A d \in ToSet(order) : Key[d] = Key[e] => Find(Key[e]) = d
<1> DEFINE k == Key[e]
<1>1. PICK chains, n : Laid(order, chains, n, Here)
  BY DEF Holds
<1>2. /\ order \in Seq(Elements) /\ KeysDiffer(ToSet(order))
      /\ (head = NoElem <=> order = << >>)
  BY HoldsOrder
<1>3. CASE order = << >>
  <2>1. Find(k) = NoElem
    BY <1>2, <1>3 DEF Find
  <2>2. ToSet(order) = {}
    BY <1>3 DEF ToSet
  <2> QED
    BY <2>1, <2>2
<1>4. CASE order # << >>
  <2> DEFINE b == Hash[k] % n
  <2> DEFINE chain == Chain(b)
  <2> DEFINE hits == {i \in DOMAIN chain : Key[chain[i]] = k}
  <2>1. Chained(order, chains, n)
    BY <1>1, <1>4, HoldsChains
  <2>2. n \in Nat \ {0} /\ Num(tbl) = n
    BY <2>1 DEF Chained
  <2>3. Find(k) = IF hits = {} THEN NoElem ELSE chain[CHOOSE i \in hits : \A j \in hits : i <= j]
    BY <1>2, <1>4, <2>2 DEF Find
  <2>4. b = ToBucket(e, n) /\ b \in 0..n - 1
    <3>1. b = ToBucket(e, n)
      BY DEF ToBucket
    <3> HIDE DEF b
    <3> QED
      BY <2>2, <3>1, BucketInRange
  <2> HIDE DEF b
  <2>5. chain \in Seq(Elements) /\ ToSet(chain) = {d \in ToSet(order) : ToBucket(d, n) = b}
    BY <2>1, <2>4 DEF Chained
  <2> HIDE DEF chain
  <2>6. \A d \in ToSet(order) : Key[d] = k => ToBucket(d, n) = b
    BY <2>4 DEF ToBucket
  <2>7. DOMAIN chain = 1..Len(chain) /\ Len(chain) \in Nat
    BY <2>5, LenProperties
  <2>8. hits # {} => (CHOOSE i \in hits : \A j \in hits : i <= j) \in hits
    <3>1. hits \subseteq Nat
      BY <2>7
    <3> HIDE DEF hits
    <3> QED
      BY <3>1, NatHasLeast
  <2>9. hits # {} => Find(k) \in ToSet(order) /\ Key[Find(k)] = k
    <3> SUFFICES ASSUME hits # {} PROVE Find(k) \in ToSet(order) /\ Key[Find(k)] = k
      OBVIOUS
    <3>1. PICK i \in hits : Find(k) = chain[i]
      BY <2>3, <2>8
    <3>2. i \in DOMAIN chain /\ Key[chain[i]] = k
      BY <3>1
    <3>3. chain[i] \in ToSet(chain)
      BY <3>2 DEF ToSet
    <3> QED
      BY <2>5, <3>1, <3>2, <3>3
  <2>10. ASSUME NEW d \in ToSet(order), Key[d] = k
         PROVE  hits # {} /\ Find(k) = d
    <3>1. d \in ToSet(chain)
      BY <2>5, <2>6, <2>10
    <3>2. PICK i \in DOMAIN chain : chain[i] = d
      BY <3>1 DEF ToSet
    <3>3. i \in hits
      BY <2>10, <3>2
    <3> QED
      BY <1>2, <2>9, <2>10, <3>3 DEF KeysDiffer
  <2>11. (\A d \in ToSet(order) : Key[d] # k) => Find(k) = NoElem
    BY <2>3, <2>9
  <2> QED
    BY <2>10, <2>11
<1> QED
  BY <1>3, <1>4

(* An element is there under its key when the lookup gives it.             *)
LEMMA FindMisses ==
  ASSUME NEW order, Holds(Here, order), NEW e \in Elements, Find(Key[e]) = NoElem
  PROVE  \A d \in ToSet(order) : Key[d] # Key[e]
<1> SUFFICES ASSUME NEW d \in ToSet(order), Key[d] = Key[e] PROVE FALSE
  OBVIOUS
<1>1. Find(Key[e]) = d
  BY FindHolds
<1>2. order \in Seq(Elements) /\ IsInjective(order)
  BY HoldsOrder
<1>3. d # NoElem
  BY <1>2, ListLength DEF ToSet
<1> QED
  BY <1>1, <1>3

LEMMA InvFinds == HTInv => FindsWhatIterates
<1> SUFFICES ASSUME HTInv, NEW e \in Elements
             PROVE  Find(Key[e]) = IF \E d \in ToSet(AppOrder) : Key[d] = Key[e]
                                   THEN CHOOSE d \in ToSet(AppOrder) : Key[d] = Key[e] ELSE NoElem
  BY DEF FindsWhatIterates
<1>1. PICK order : Holds(Here, order)
  BY DEF HTInv
<1>2. AppOrder = order /\ KeysDiffer(ToSet(order))
  BY <1>1, HoldsOrder
<1>3. /\ (\A d \in ToSet(order) : Key[d] # Key[e]) => Find(Key[e]) = NoElem
      /\ \A d \in ToSet(order) : Key[d] = Key[e] => Find(Key[e]) = d
  BY <1>1, FindHolds
<1>4. CASE \E d \in ToSet(order) : Key[d] = Key[e]
  <2>1. PICK d \in ToSet(order) : Key[d] = Key[e]
    BY <1>4
  <2>2. \A x \in ToSet(order) : Key[x] = Key[e] <=> x = d
    BY <1>2, <2>1 DEF KeysDiffer
  <2>3. (CHOOSE x \in ToSet(order) : Key[x] = Key[e]) = d
    BY <2>2
  <2>4. Find(Key[e]) = d
    BY <1>3, <2>1
  <2> QED
    BY <1>2, <1>4, <2>3, <2>4
<1>5. CASE ~\E d \in ToSet(order) : Key[d] = Key[e]
  BY <1>2, <1>3, <1>5
<1> QED
  BY <1>4, <1>5

LEMMA InvBounded == HTInv => ChainsBounded
<1> SUFFICES ASSUME HTInv, ~tbl.noexpand, NEW b \in DOMAIN tbl.buckets
             PROVE  tbl.buckets[b].count <= (tbl.buckets[b].mult + 1) * (2 * Threshold)
  BY DEF ChainsBounded
<1>1. PICK order : Holds(Here, order)
  BY DEF HTInv
<1>2. PICK chains, n : Laid(order, chains, n, Here)
  BY <1>1 DEF Holds
<1>3. CASE order = << >>
  <2>1. tbl = FreedTable
    BY <1>2, <1>3, HereFields DEF Laid
  <2>2. DOMAIN tbl.buckets = 0..0 - 1
    BY <2>1 DEF FreedTable, Buckets
  <2> QED
    BY <2>2
<1>4. CASE order # << >>
  <2>1. Roomy(n, tbl)
    BY <1>2, <1>4, HereFields DEF Laid
  <2>2. DOMAIN tbl.buckets = 0..n - 1
    BY <1>2, <1>4, HoldsChains DEF Chained
  <2>3. PICK room : Rooms(n, tbl, room)
    BY <2>1 DEF Roomy
  <2>4. Fits(tbl.buckets[b], room[b])
    BY <2>2, <2>3 DEF Rooms
  <2> QED
    BY <2>4 DEF Fits
<1> QED
  BY <1>3, <1>4

(* The places of the chains are as many as the elements of the list.       *)
LEMMA PlacesCount ==
  ASSUME NEW order, NEW chains, NEW n, Chained(order, chains, n),
         order \in Seq(Elements), IsInjective(order)
  PROVE  Cardinality(UNION {{b} \X DOMAIN Chain(b) : b \in DOMAIN tbl.buckets}) = Len(order)
<1> DEFINE places == UNION {{b} \X DOMAIN Chain(b) : b \in DOMAIN tbl.buckets}
<1> DEFINE members == ToSet(order)
<1> DEFINE on == [x \in places |-> chains[x[1]][x[2]]]
<1>1. /\ n \in Nat \ {0} /\ DOMAIN tbl.buckets = 0..n - 1
      /\ \A b \in 0..n - 1 : /\ Chain(b) = chains[b] /\ IsInjective(chains[b])
                             /\ ToSet(chains[b]) = {e \in members : ToBucket(e, n) = b}
  BY DEF Chained
<1>2. \A e \in members : e \in Elements
  BY ListLength DEF ToSet
<1> HIDE DEF members
<1>3. ASSUME NEW x \in places
      PROVE  /\ x = <<x[1], x[2]>> /\ x[1] \in 0..n - 1 /\ x[2] \in DOMAIN chains[x[1]]
             /\ on[x] \in members /\ ToBucket(on[x], n) = x[1]
  <2>1. PICK b \in 0..n - 1 : x \in {b} \X DOMAIN chains[b]
    BY <1>1
  <2>2. x = <<x[1], x[2]>> /\ x[1] = b /\ x[2] \in DOMAIN chains[b]
    BY <2>1
  <2>3. on[x] = chains[b][x[2]]
    BY <2>2
  <2>4. on[x] \in ToSet(chains[b])
    BY <2>2, <2>3 DEF ToSet
  <2> HIDE DEF on, places
  <2>5. on[x] \in members /\ ToBucket(on[x], n) = b
    BY <1>1, <2>4
  <2> QED
    BY <2>2, <2>5
<1>4. ASSUME NEW x \in places, NEW y \in places, on[x] = on[y]
      PROVE  x = y
  <2>1. x[1] = y[1]
    <3> HIDE DEF places, on
    <3> QED
      BY <1>3, <1>4
  <2>2. chains[x[1]][x[2]] = chains[y[1]][y[2]]
    BY <1>4
  <2>3. IsInjective(chains[x[1]]) /\ x[2] \in DOMAIN chains[x[1]] /\ y[2] \in DOMAIN chains[x[1]]
    BY <1>1, <1>3, <2>1
  <2>4. x[2] = y[2]
    BY <2>1, <2>2, <2>3 DEF IsInjective
  <2>5. x = <<x[1], x[2]>> /\ y = <<y[1], y[2]>>
    BY <1>3
  <2> QED
    BY <2>1, <2>4, <2>5
<1>5. ASSUME NEW e \in members PROVE \E x \in places : on[x] = e
  <2> DEFINE b == ToBucket(e, n)
  <2>1. b \in 0..n - 1
    BY <1>1, <1>2, BucketInRange
  <2> HIDE DEF b
  <2>2. e \in ToSet(chains[b])
    BY <1>1, <2>1 DEF b
  <2>3. PICK i \in DOMAIN chains[b] : chains[b][i] = e
    BY <2>2 DEF ToSet
  <2> DEFINE x == <<b, i>>
  <2>4. x \in {b} \X DOMAIN Chain(b)
    BY <1>1, <2>1, <2>3
  <2>5. x \in places
    BY <1>1, <2>1, <2>4
  <2>6. on[x] = chains[b][i]
    BY <2>5
  <2> QED
    BY <2>3, <2>5, <2>6
<1>6. on \in Bijection(places, members)
  <2>1. on \in [places -> members]
    BY <1>3
  <2> HIDE DEF on, places
  <2>2. \A x, y \in places : on[x] = on[y] => x = y
    BY <1>4
  <2>3. on \in Injection(places, members)
    BY <2>1, <2>2 DEF Injection, IsInjective
  <2>4. on \in Surjection(places, members)
    BY <1>5, <2>1 DEF Surjection
  <2> QED
    BY <2>3, <2>4 DEF Bijection
<1>7. IsFiniteSet(members) /\ Cardinality(members) = Len(order)
  BY InjectiveLength DEF members
<1>8. ExistsBijection(members, places)
  <2>1. ExistsBijection(places, members)
    BY <1>6 DEF ExistsBijection
  <2> HIDE DEF places
  <2> QED
    BY <2>1, Fun_ExistsBijSymmetric
<1> HIDE DEF places
<1>9. Cardinality(places) = Cardinality(members)
  BY <1>7, <1>8, FS_Bijection
<1> QED
  BY <1>7, <1>9 DEF places

LEMMA InvFsck == HTInv => Fsck
<1> SUFFICES ASSUME HTInv, head # NoElem PROVE Fsck
  BY DEF Fsck
<1>1. PICK order : Holds(Here, order)
  BY DEF HTInv
<1>2. PICK chains, n : Laid(order, chains, n, Here)
  BY <1>1 DEF Holds
<1>3. AppOrder = order /\ order # << >> /\ order \in Seq(Elements) /\ IsInjective(order)
  BY <1>1, HoldsOrder
<1>4. Chained(order, chains, n)
  BY <1>2, <1>3, HoldsChains
<1>5. /\ n \in Nat \ {0} /\ DOMAIN tbl.buckets = 0..n - 1
      /\ \A b \in 0..n - 1 :
           /\ Chain(b) = chains[b] /\ chains[b] \in Seq(Elements)
           /\ tbl.buckets[b].count = Len(chains[b])
           /\ \A i \in DOMAIN chains[b] : hh[chains[b][i]].hhPrev = At(chains[b], i - 1)
  BY <1>4 DEF Chained
<1>6. Listed(order, head, tbl.tail, hh) /\ tbl.items = Len(order)
  BY <1>2, <1>3, HereFields DEF Laid, TableHas
<1>7. ASSUME NEW list \in Seq(Elements), NEW i \in DOMAIN list
      PROVE  At(list, i - 1) = IF i = 1 THEN NoElem ELSE list[i - 1]
  <2>1. DOMAIN list = 1..Len(list) /\ Len(list) \in Nat
    BY LenProperties
  <2> QED
    BY <2>1 DEF At
<1>8. ASSUME NEW b \in 0..n - 1
      PROVE  BackLinked(Chain(b), "hhPrev") /\ tbl.buckets[b].count = Len(Chain(b))
  <2> DEFINE list == chains[b]
  <2>1. Chain(b) = list /\ list \in Seq(Elements) /\ tbl.buckets[b].count = Len(list)
        /\ \A i \in DOMAIN list : hh[list[i]].hhPrev = At(list, i - 1)
    BY <1>5
  <2> HIDE DEF list
  <2>2. \A i \in DOMAIN list : hh[list[i]].hhPrev = IF i = 1 THEN NoElem ELSE list[i - 1]
    BY <1>7, <2>1
  <2> QED
    BY <2>1, <2>2 DEF BackLinked
<1>9. BackLinked(AppOrder, "prev")
  <2>1. \A i \in DOMAIN order : OrderBack(hh)[order[i]] = At(order, i - 1)
    BY <1>6 DEF Listed, Strung
  <2>2. \A i \in DOMAIN order : order[i] \in Elements
    BY <1>3, ListLength
  <2>3. \A i \in DOMAIN order : hh[order[i]].prev = IF i = 1 THEN NoElem ELSE order[i - 1]
    BY <1>3, <1>7, <2>1, <2>2 DEF OrderBack
  <2> QED
    BY <1>3, <2>3 DEF BackLinked
<1>10. tbl.items = Cardinality(UNION {{b} \X DOMAIN Chain(b) : b \in DOMAIN tbl.buckets})
  BY <1>3, <1>4, <1>6, PlacesCount
<1>11. tbl.tail = Last(AppOrder)
  <2>1. Len(order) \in DOMAIN order
    BY <1>3, LenProperties, EmptySeq
  <2> QED
    BY <1>3, <1>6, <2>1 DEF Listed, At, Last
<1> QED
  BY <1>3, <1>5, <1>6, <1>8, <1>9, <1>10, <1>11 DEF Fsck

-----------------------------------------------------------------------------
(***************************************************************************)
(* The macros as steps: which list the variables hold after each.          *)
(***************************************************************************)
LEMMA HoldsFields ==
  ASSUME NEW s, NEW s2, NEW order, Holds(s, order), s2.head = s.head, s2.tbl = s.tbl, s2.links = s.links
  PROVE  Holds(s2, order)
<1>1. PICK chains, n : Laid(order, chains, n, s)
  BY DEF Holds
<1>2. Laid(order, chains, n, s2)
  BY <1>1 DEF Laid
<1> QED
  BY <1>2 DEF Holds

LEMMA HoldsNext ==
  ASSUME NEW order, Holds(Here', order)
  PROVE  AppOrder' = order
<1>1. Here'.head = head' /\ Here'.tbl = tbl' /\ Here'.links = hh'
  BY DEF Here
<1>2. PICK chains, n : Laid(order, chains, n, Here')
  BY DEF Holds
<1>3. Strung(order, head', OrderBack(hh'), OrderLink(hh'))
  <2>1. CASE order = << >>
    <3>1. head' = NoElem
      BY <1>1, <1>2, <2>1 DEF Laid
    <3> QED
      BY <2>1, <3>1, EmptyStrung
  <2>2. CASE order # << >>
    BY <1>1, <1>2, <2>2 DEF Laid, Listed
  <2> QED
    BY <2>1, <2>2
<1>4. Walk(head', OrderLink(hh')) = order
  BY <1>3, WalkStrung
<1> QED
  BY <1>4 DEF AppOrder

LEMMA StoreHolds ==
  ASSUME NEW first, NEW s, Store(first, s), NEW order, Holds(After(first, s), order)
  PROVE  Holds(Here', order)
<1>1. Here' = [head |-> first, tbl |-> s.tbl, links |-> s.links]
  BY DEF Store, Here
<1>2. Here' = After(first, s)
  BY <1>1 DEF After
<1> QED
  BY <1>2

LEMMA AddStep ==
  ASSUME NEW order, Holds(Here, order), NEW e \in Elements, e \notin ToSet(order), Add(e)
  PROVE  /\ \A d \in ToSet(order) : Key[d] # Key[e]
         /\ Holds(Here', Append(order, e))
<1>1. \A d \in ToSet(order) : Key[d] # Key[e]
  BY FindMisses DEF Add
<1> DEFINE s == Here
<1> DEFINE first == IF s.head = NoElem THEN e ELSE s.head
<1> DEFINE r == Added(s.head, s.tbl, s.links, e)
<1>2. Store(first, r)
  BY HereFields DEF Add
<1>3. Holds(s, order)
  OBVIOUS
<1> HIDE DEF s
<1>4. Holds(After(IF s.head = NoElem THEN e ELSE s.head, Added(s.head, s.tbl, s.links, e)),
            Append(order, e))
  BY <1>1, <1>3, AddedHolds
<1> DEFINE order2 == Append(order, e)
<1>5. Holds(After(first, r), order2)
  BY <1>4
<1> HIDE DEF first, r, order2
<1>6. Holds(Here', order2)
  BY <1>2, <1>5, StoreHolds
<1> QED
  BY <1>1, <1>6 DEF order2

(* The first element that is greater than e.                               *)
Greater(order, e) == {i \in DOMAIN order : Rank[order[i]] > Rank[e]}
Above(order, e) == CHOOSE i \in Greater(order, e) : \A j \in Greater(order, e) : i <= j

LEMMA AddInOrderStep ==
  ASSUME NEW order, Holds(Here, order), NEW e \in Elements, e \notin ToSet(order), AddInOrder(e)
  PROVE  /\ \A d \in ToSet(order) : Key[d] # Key[e]
         /\ Greater(order, e) # {} /\ Above(order, e) \in DOMAIN order
         /\ Holds(Here', InsertAt(order, Above(order, e), e))
<1> DEFINE p == Above(order, e)
<1>1. AppOrder = order /\ order \in Seq(Elements)
  BY HoldsOrder
<1>2. Greater(order, e) # {}
  BY <1>1 DEF AddInOrder, Greater
<1>3. p \in DOMAIN order
  <2>1. DOMAIN order = 1..Len(order) /\ Len(order) \in Nat
    BY <1>1, LenProperties
  <2> DEFINE G == Greater(order, e)
  <2>2. G \subseteq Nat /\ G \subseteq DOMAIN order /\ G # {}
    BY <1>2, <2>1 DEF Greater
  <2> HIDE DEF G
  <2>3. (CHOOSE i \in G : \A j \in G : i <= j) \in G
    BY <2>2, NatHasLeast
  <2>4. p \in G
    BY <2>3 DEF Above, G
  <2> QED
    BY <2>2, <2>4
<1>4. \A d \in ToSet(order) : Key[d] # Key[e]
  BY FindMisses DEF AddInOrder
<1> DEFINE s == Here
<1> DEFINE at == order[p]
<1> DEFINE i == InsertBefore(s.tbl, s.links, at, e)
<1> DEFINE first == IF s.head = at THEN e ELSE s.head
<1> DEFINE r == AddToTable(i.tbl, i.links, e)
<1>5. Store(first, r)
  <2>1. at = AppOrder[CHOOSE x \in {y \in DOMAIN AppOrder : Rank[AppOrder[y]] > Rank[e]} :
                        \A j \in {y \in DOMAIN AppOrder : Rank[AppOrder[y]] > Rank[e]} : x <= j]
    BY <1>1 DEF Above, Greater
  <2> HIDE DEF at
  <2>2. LET q == InsertBefore(tbl, hh, at, e)
        IN Store(IF head = at THEN e ELSE head, AddToTable(q.tbl, q.links, e))
    BY <2>1 DEF AddInOrder
  <2> QED
    BY <2>2, HereFields
<1>6. Holds(s, order)
  OBVIOUS
<1> HIDE DEF s, p
<1>7. LET q == InsertBefore(s.tbl, s.links, order[p], e)
      IN Holds(After(IF s.head = order[p] THEN e ELSE s.head, AddToTable(q.tbl, q.links, e)),
               InsertAt(order, p, e))
  BY <1>3, <1>4, <1>6, InOrderHolds
<1> DEFINE order2 == InsertAt(order, p, e)
<1>8. Holds(After(first, r), order2)
  BY <1>7
<1> HIDE DEF first, r, order2
<1>9. Holds(Here', order2)
  BY <1>5, <1>8, StoreHolds
<1> QED
  BY <1>2, <1>3, <1>4, <1>9 DEF order2, p

LEMMA DeleteStep ==
  ASSUME NEW order, Holds(Here, order), NEW p \in DOMAIN order, Delete(order[p])
  PROVE  Holds(Here', RemoveAt(order, p))
<1> DEFINE s == Deleted(Here, order[p])
<1> DEFINE order2 == RemoveAt(order, p)
<1> DEFINE a == After(s.head, s)
<1>1. Store(s.head, s)
  BY DEF Delete
<1>2. Holds(s, order2)
  <2> DEFINE h == Here
  <2>1. Holds(h, order)
    OBVIOUS
  <2> HIDE DEF h
  <2>2. Holds(Deleted(h, order[p]), RemoveAt(order, p))
    BY <2>1, DeletedHolds
  <2> QED
    BY <2>2 DEF h
<1> HIDE DEF s, order2
<1>3. Holds(a, order2)
  <2>1. a.head = s.head /\ a.tbl = s.tbl /\ a.links = s.links
    BY DEF After
  <2> HIDE DEF a
  <2> QED
    BY <1>2, <2>1, HoldsFields
<1> DEFINE first == s.head
<1>4. Store(first, s) /\ Holds(After(first, s), order2)
  BY <1>1, <1>3
<1> HIDE DEF first
<1>5. Holds(Here', order2)
  BY <1>4, StoreHolds
<1> QED
  BY <1>5 DEF order2

LEMMA ReplaceStep ==
  ASSUME NEW order, Holds(Here, order), NEW e \in Elements, e \notin ToSet(order), Replace(e)
  PROVE  \/ /\ \A d \in ToSet(order) : Key[d] # Key[e]
            /\ Holds(Here', Append(order, e))
         \/ \E p \in DOMAIN order : /\ Key[order[p]] = Key[e]
                                    /\ Holds(Here', Append(RemoveAt(order, p), e))
<1> DEFINE old == Find(Key[e])
<1>1. order \in Seq(Elements) /\ IsInjective(order) /\ KeysDiffer(ToSet(order))
  BY HoldsOrder
<1>2. ASSUME NEW s, NEW order2, Holds(s, order2), e \notin ToSet(order2),
             \A d \in ToSet(order2) : Key[d] # Key[e],
             Store(IF s.head = NoElem THEN e ELSE s.head, Added(s.head, s.tbl, s.links, e))
      PROVE  Holds(Here', Append(order2, e))
  <2> DEFINE first == IF s.head = NoElem THEN e ELSE s.head
  <2> DEFINE r == Added(s.head, s.tbl, s.links, e)
  <2> DEFINE order3 == Append(order2, e)
  <2>1. Store(first, r)
    BY <1>2
  <2>2. Holds(After(IF s.head = NoElem THEN e ELSE s.head, Added(s.head, s.tbl, s.links, e)),
              Append(order2, e))
    BY <1>2, AddedHolds
  <2>3. Holds(After(first, r), order3)
    BY <2>2
  <2> HIDE DEF first, r, order3
  <2>4. Holds(Here', order3)
    BY <2>1, <2>3, StoreHolds
  <2> QED
    BY <2>4 DEF order3
<1>3. CASE \A d \in ToSet(order) : Key[d] # Key[e]
  <2>1. old = NoElem
    BY <1>3, FindHolds
  <2> DEFINE s == Here
  <2>2. Store(IF s.head = NoElem THEN e ELSE s.head, Added(s.head, s.tbl, s.links, e))
    BY <2>1 DEF Replace
  <2> HIDE DEF s
  <2>3. Holds(Here', Append(order, e))
    BY <1>2, <1>3, <2>2 DEF s
  <2> QED
    BY <1>3, <2>3
<1>4. CASE ~\A d \in ToSet(order) : Key[d] # Key[e]
  <2>1. PICK p \in DOMAIN order : Key[order[p]] = Key[e]
    BY <1>4 DEF ToSet
  <2>2. order[p] \in ToSet(order) /\ order[p] \in Elements /\ order[p] # NoElem
    BY <1>1, ListLength DEF ToSet
  <2>3. old = order[p]
    BY <2>1, <2>2, FindHolds
  <2> DEFINE s == Deleted(Here, order[p])
  <2> DEFINE order2 == RemoveAt(order, p)
  <2>4. Store(IF s.head = NoElem THEN e ELSE s.head, Added(s.head, s.tbl, s.links, e))
    BY <2>2, <2>3 DEF Replace
  <2>5. Holds(s, order2)
    <3> DEFINE h == Here
    <3>1. Holds(h, order)
      OBVIOUS
    <3> HIDE DEF h
    <3>2. Holds(Deleted(h, order[p]), RemoveAt(order, p))
      BY <3>1, DeletedHolds
    <3> QED
      BY <3>2 DEF h
  <2>6. ToSet(order2) = ToSet(order) \ {order[p]}
    BY <1>1, RemoveSet
  <2>7. e \notin ToSet(order2) /\ \A d \in ToSet(order2) : Key[d] # Key[e]
    <3> HIDE DEF order2
    <3> QED
      BY <1>1, <2>1, <2>2, <2>6 DEF KeysDiffer
  <2> HIDE DEF s, order2
  <2>8. Holds(Here', Append(order2, e))
    BY <1>2, <2>4, <2>5, <2>7
  <2> QED
    BY <2>1, <2>8 DEF order2
<1> QED
  BY <1>3, <1>4

LEMMA ClearStep ==
  ASSUME Clear, hh \in Links
  PROVE  Holds(Here', << >>)
<1> DEFINE s == [tbl |-> FreedTable, links |-> Forget(hh, Elements)]
<1> DEFINE a == After(NoElem, s)
<1>1. Store(NoElem, s)
  BY DEF Clear
<1>2. Forget(hh, Elements) \in Links
  BY DEF Forget, Links, NoLinks, Pointers
<1>3. a.head = NoElem /\ a.tbl = FreedTable /\ a.links \in Links
  BY <1>2 DEF After
<1> HIDE DEF a
<1>4. << >> \in Seq(Elements)
  OBVIOUS
<1>5. Laid(<< >>, 0, 0, a)
  BY <1>3, <1>4 DEF Laid
<1>6. Holds(a, << >>)
  BY <1>5 DEF Holds
<1> HIDE DEF s
<1> QED
  BY <1>1, <1>6, StoreHolds DEF a

-----------------------------------------------------------------------------
(***************************************************************************)
(* remove_all_metrics deletes the head as often as there are elements.     *)
(***************************************************************************)
Memories == [head : Pointers, tbl : UNION {Tables(n) : n \in Nat}, links : Links]

LEMMA HoldsMemory ==
  ASSUME NEW s, NEW order, Holds(s, order), s = [head |-> s.head, tbl |-> s.tbl, links |-> s.links]
  PROVE  s \in Memories
<1>1. PICK chains, n : Laid(order, chains, n, s)
  BY DEF Holds
<1>2. s.links \in Links
  BY <1>1 DEF Laid
<1>3. s.head \in Pointers /\ s.tbl \in UNION {Tables(m) : m \in Nat}
  <2>1. CASE order = << >>
    <3>1. s.head = NoElem /\ s.tbl = FreedTable
      BY <1>1, <2>1 DEF Laid
    <3>2. 0..0 - 1 = {}
      OBVIOUS
    <3>3. Buckets(0) \in BucketArrays(0)
      BY <3>2 DEF Buckets, BucketArrays
    <3>4. FreedTable \in Tables(0)
      BY <3>3 DEF FreedTable, Tables, Pointers
    <3> QED
      BY <3>1, <3>4 DEF Pointers
  <2>2. CASE order # << >>
    <3>1. n \in Nat /\ s.tbl \in Tables(n) /\ s.head = At(order, 1)
      BY <1>1, <2>2 DEF Laid, TableHas, Listed, Strung
    <3>2. At(order, 1) \in Pointers
      BY <1>1, <2>2, OrderCardinality DEF At, Pointers
    <3> QED
      BY <3>1, <3>2
  <2> QED
    BY <2>1, <2>2
<1> HIDE DEF Links
<1> QED
  BY <1>2, <1>3 DEF Memories

(* HASH_ITER has read the next element before this one goes.               *)
LEMMA DeleteHead ==
  ASSUME NEW s, NEW rest, Holds(s, rest), s.head # NoElem
  PROVE  /\ rest \in Seq(Elements) /\ Len(rest) \in Nat \ {0} /\ s.head \in Elements
         /\ Holds(Deleted(s, s.head), RemoveAt(rest, 1))
         /\ RemoveAt(rest, 1) \in Seq(Elements) /\ Len(RemoveAt(rest, 1)) = Len(rest) - 1
         /\ Deleted(s, s.head).head = s.links[s.head].next
         /\ Deleted(s, s.head) \in Memories
<1>1. PICK chains, n : Laid(rest, chains, n, s)
  BY DEF Holds
<1>2. rest # << >> /\ rest \in Seq(Elements)
  BY <1>1 DEF Laid
<1>3. Listed(rest, s.head, s.tbl.tail, s.links)
  BY <1>1, <1>2 DEF Laid
<1>4. /\ Len(rest) \in Nat \ {0} /\ DOMAIN rest = 1..Len(rest)
      /\ \A i \in DOMAIN rest : rest[i] \in Elements /\ rest[i] # NoElem
  BY <1>1, <1>2, OrderCardinality
<1>5. /\ s.head = At(rest, 1)
      /\ \A i \in DOMAIN rest : /\ OrderBack(s.links)[rest[i]] = At(rest, i - 1)
                                /\ OrderLink(s.links)[rest[i]] = At(rest, i + 1)
  BY <1>3 DEF Listed, Strung
<1>6. 1 \in DOMAIN rest /\ s.head = rest[1] /\ s.head \in Elements
  BY <1>4, <1>5 DEF At
<1>7. s.links[s.head].prev = NoElem
  <2>1. OrderBack(s.links)[s.head] = At(rest, 1 - 1)
    BY <1>5, <1>6
  <2>2. At(rest, 1 - 1) = NoElem
    BY <1>4 DEF At
  <2>3. OrderBack(s.links)[s.head] = s.links[s.head].prev
    BY <1>6 DEF OrderBack
  <2> QED
    BY <2>1, <2>2, <2>3
<1>8. Holds(Deleted(s, rest[1]), RemoveAt(rest, 1))
  BY <1>6, DeletedHolds
<1> DEFINE d == Deleted(s, s.head)
<1>9. d.head = s.links[s.head].next /\ d = [head |-> d.head, tbl |-> d.tbl, links |-> d.links]
  BY <1>7 DEF Deleted
<1> DEFINE less == RemoveAt(rest, 1)
<1>10. less \in Seq(Elements) /\ Len(less) = Len(rest) - 1
  <2>1. 1 \in 1..Len(rest)
    BY <1>4
  <2> QED
    BY <1>2, <2>1, RemoveAtProperties
<1>11. Holds(d, less)
  BY <1>6, <1>8
<1> HIDE DEF d, less
<1>12. d \in Memories
  BY <1>9, <1>11, HoldsMemory
<1> QED
  BY <1>2, <1>4, <1>6, <1>9, <1>10, <1>11, <1>12 DEF d, less

LEMMA DeleteAllStep ==
  ASSUME NEW order, Holds(Here, order), DeleteAll
  PROVE  Holds(Here', << >>)
<1> DEFINE N == Cardinality(Elements)
<1> DEFINE V == [s : Memories, el : Pointers]
<1> DEFINE W == [k \in 0..N |-> {v \in V : /\ v.el = v.s.head
                                           /\ \E rest \in Seq(Elements) : Holds(v.s, rest) /\ Len(rest) <= N - k}]
<1> DEFINE b == [s |-> Here, el |-> head]
<1> DEFINE next == [v \in V |-> IF v.el = NoElem THEN v
                                ELSE [s |-> Deleted(v.s, v.el), el |-> v.s.links[v.el].next]]
<1> DEFINE G == [k \in 1..N |-> next]
<1> DEFINE Body(f) == [k \in 0..N |->
                        IF k = 0 THEN b
                        ELSE LET u == f[k - 1]
                             IN IF u.el = NoElem THEN u
                                ELSE [s |-> Deleted(u.s, u.el), el |-> u.s.links[u.el].next]]
<1> DEFINE upTo == CHOOSE f : f = Body(f)
<1> DEFINE end == upTo[N].s
<1>1. Store(end.head, end)
  BY DEF DeleteAll
<1>2. order \in Seq(Elements) /\ IsInjective(order)
  BY HoldsOrder
<1>3. Len(order) <= N /\ N \in Nat /\ Len(order) \in Nat
  BY <1>2, ListLength
<1> HIDE DEF N
<1>4. b \in W[0]
  <2>1. Here \in Memories
    BY HereFields, HoldsMemory DEF Here
  <2>2. head \in Pointers
    BY <2>1, HereFields DEF Memories
  <2>3. b \in V /\ b.el = b.s.head /\ b.s = Here
    BY <2>1, <2>2, HereFields
  <2>4. Len(order) <= N - 0
    BY <1>3
  <2> HIDE DEF b, V
  <2> QED
    BY <1>2, <1>3, <2>3, <2>4
<1>5. ASSUME NEW k \in 1..N, NEW v \in W[k - 1]
      PROVE  /\ v \in V /\ next[v] \in W[k]
  <2>0. k - 1 \in 0..N /\ k \in 0..N
    BY <1>3
  <2>1. PICK rest \in Seq(Elements) : Holds(v.s, rest) /\ Len(rest) <= N - (k - 1)
    BY <2>0
  <2>2. v \in V /\ v.el = v.s.head
    BY <2>0
  <2> HIDE DEF W
  <2>3. CASE v.el = NoElem
    <3>1. next[v] = v
      BY <2>2, <2>3
    <3>2. rest = << >>
      <4> DEFINE s == v.s
      <4>1. Holds(s, rest) /\ s.head = NoElem
        BY <2>1, <2>2, <2>3
      <4> HIDE DEF s
      <4>2. PICK chains, n : Laid(rest, chains, n, s)
        BY <4>1 DEF Holds
      <4>3. ASSUME rest # << >> PROVE FALSE
        <5>1. s.head = At(rest, 1)
          BY <4>2, <4>3 DEF Laid, Listed, Strung
        <5>2. 1 \in DOMAIN rest /\ rest[1] # NoElem
          BY <4>2, <4>3, OrderCardinality
        <5> QED
          BY <4>1, <5>1, <5>2 DEF At
      <4> QED
        BY <4>3
    <3>3. Len(rest) <= N - k
      BY <1>3, <3>2, EmptySeq
    <3>4. v \in W[k]
      BY <2>0, <2>1, <2>2, <3>3 DEF W
    <3> QED
      BY <2>2, <3>1, <3>4
  <2>4. CASE v.el # NoElem
    <3> DEFINE s == v.s
    <3> DEFINE d == Deleted(s, s.head)
    <3> DEFINE less == RemoveAt(rest, 1)
    <3> DEFINE w == [s |-> d, el |-> s.links[s.head].next]
    <3>1. next[v] = w
      BY <2>2, <2>4
    <3>2. Holds(s, rest) /\ s.head # NoElem
      BY <2>1, <2>2, <2>4
    <3> HIDE DEF s
    <3>3. /\ Len(rest) \in Nat \ {0} /\ Holds(d, less) /\ less \in Seq(Elements)
          /\ Len(less) = Len(rest) - 1 /\ d.head = s.links[s.head].next /\ d \in Memories
      BY <3>2, DeleteHead
    <3>4. w \in V /\ w.el = w.s.head /\ w.s = d
      <4>1. d.head \in Pointers
        BY <3>3 DEF Memories
      <4> HIDE DEF d
      <4> QED
        BY <3>3, <4>1
    <3>5. Len(less) <= N - k
      <4> HIDE DEF less
      <4> QED
        BY <1>3, <2>1, <3>3
    <3> HIDE DEF d, less, w, V, next
    <3>6. w \in W[k]
      BY <2>0, <3>3, <3>4, <3>5 DEF W
    <3> QED
      BY <2>2, <3>1, <3>6
  <2> QED
    BY <2>3, <2>4
<1>6. \A k \in 1..N : \A v \in W[k - 1] : v \in V /\ next[v] \in W[k] /\ G[k][v] \in W[k]
  <2> HIDE DEF W, V, next
  <2> QED
    BY <1>5
<1>7. ASSUME NEW v \in V PROVE next[v] = IF v.el = NoElem THEN v
                                ELSE [s |-> Deleted(v.s, v.el), el |-> v.s.links[v.el].next]
  OBVIOUS
<1> HIDE DEF V, next
<1>8. \E f : f = Body(f)
  <2>1. \E f : Stages(f, N, W, b, G)
    <3> HIDE DEF W, b, G
    <3>1. \A k \in 1..N : \A v \in W[k - 1] : G[k][v] \in W[k]
      BY <1>6
    <3> QED
      BY <1>3, <1>4, <3>1, StagesExist
  <2>2. PICK f : Stages(f, N, W, b, G)
    BY <2>1
  <2>3. f = [k \in 0..N |-> IF k = 0 THEN b ELSE G[k][f[k - 1]]] /\ \A k \in 0..N : f[k] \in W[k]
    BY <2>2 DEF Stages
  <2> HIDE DEF W, b
  <2>4. ASSUME NEW k \in 0..N PROVE f[k] = Body(f)[k]
    <3>1. CASE k = 0
      BY <2>3, <3>1
    <3>2. CASE k # 0
      <4>1. k \in 1..N /\ k - 1 \in 0..N
        BY <1>3, <3>2
      <4> DEFINE u == f[k - 1]
      <4>2. u \in W[k - 1]
        BY <2>3, <4>1
      <4>3. f[k] = G[k][u] /\ G[k] = next
        BY <2>3, <3>2, <4>1
      <4>4. Body(f)[k] = IF u.el = NoElem THEN u
                         ELSE [s |-> Deleted(u.s, u.el), el |-> u.s.links[u.el].next]
        BY <3>2
      <4> HIDE DEF u, G, Body
      <4>5. u \in V
        BY <1>6, <4>1, <4>2
      <4> QED
        BY <1>7, <4>3, <4>4, <4>5
    <3> QED
      BY <3>1, <3>2
  <2>5. f = Body(f)
    <3>1. Body(f) = [k \in 0..N |-> Body(f)[k]]
      OBVIOUS
    <3>2. f = [k \in 0..N |-> f[k]]
      BY <2>3
    <3> HIDE DEF Body
    <3> QED
      BY <2>4, <3>1, <3>2
  <2> QED
    BY <2>5
<1>9. upTo = Body(upTo)
  <2> HIDE DEF Body
  <2> QED
    BY <1>8
<1> HIDE DEF upTo
<1>10. /\ upTo[0] = b
       /\ \A k \in 1..N : LET u == upTo[k - 1]
                          IN upTo[k] = IF u.el = NoElem THEN u
                                       ELSE [s |-> Deleted(u.s, u.el), el |-> u.s.links[u.el].next]
  <2>1. \A k \in 0..N : upTo[k] = Body(upTo)[k]
    <3> HIDE DEF Body
    <3> QED
      BY <1>9
  <2>2. 0 \in 0..N /\ \A k \in 1..N : k \in 0..N /\ k # 0
    BY <1>3
  <2> HIDE DEF b
  <2>3. Body(upTo)[0] = b
    BY <2>2
  <2>4. ASSUME NEW k \in 1..N
        PROVE  LET u == upTo[k - 1]
               IN Body(upTo)[k] = IF u.el = NoElem THEN u
                                  ELSE [s |-> Deleted(u.s, u.el), el |-> u.s.links[u.el].next]
    BY <2>2
  <2> HIDE DEF Body
  <2> QED
    BY <2>1, <2>2, <2>3, <2>4
<1>11. \A k \in 0..N : upTo[k] \in W[k]
  <2> HIDE DEF W, b, G
  <2>1. ASSUME NEW k \in 1..N, upTo[k - 1] \in W[k - 1] PROVE upTo[k] \in W[k]
    <3> DEFINE u == upTo[k - 1]
    <3>1. u \in V /\ next[u] \in W[k]
      BY <1>6, <2>1
    <3>2. upTo[k] = IF u.el = NoElem THEN u
                    ELSE [s |-> Deleted(u.s, u.el), el |-> u.s.links[u.el].next]
      BY <1>10
    <3> HIDE DEF u
    <3> QED
      BY <1>7, <3>1, <3>2
  <2>2. \A k \in 1..N : upTo[k - 1] \in W[k - 1] => upTo[k] \in W[k]
    BY <2>1
  <2>3. upTo[0] \in W[0]
    BY <1>4, <1>10
  <2> QED
    BY <1>3, <2>2, <2>3, StagesHold
<1>12. PICK rest \in Seq(Elements) : Holds(end, rest) /\ Len(rest) <= N - N
  <2>1. N \in 0..N /\ upTo[N] \in W[N]
    BY <1>3, <1>11
  <2> QED
    BY <2>1
<1>13. rest = << >>
  BY <1>3, <1>12, LenProperties, EmptySeq
<1> HIDE DEF end
<1> DEFINE first == end.head
<1> DEFINE a == After(end.head, end)
<1>14. Holds(a, << >>)
  <2>1. a.head = end.head /\ a.tbl = end.tbl /\ a.links = end.links
    BY DEF After
  <2>2. Holds(end, << >>)
    BY <1>12, <1>13
  <2> HIDE DEF a
  <2> QED
    BY <2>1, <2>2, HoldsFields
<1>15. Store(first, end) /\ Holds(After(first, end), << >>)
  BY <1>1, <1>14
<1> HIDE DEF first
<1> QED
  BY <1>15, StoreHolds

-----------------------------------------------------------------------------
(***************************************************************************)
(* HASH_SRT.  The place of an element is where it was before: it decides   *)
(* between equal ranks, so that a list rising in this order is sorted and  *)
(* its equal elements are as they were.                                    *)
(***************************************************************************)
Precedes(d, e, place) == Rank[d] < Rank[e] \/ (Rank[d] = Rank[e] /\ place[d] < place[e])

Rising(list, place) == \A i, j \in DOMAIN list : i < j => Precedes(list[i], list[j], place)

LEMMA PrecedesOrders ==
  ASSUME NEW S \in SUBSET Elements, NEW place, \A e \in S : place[e] \in Int,
         NEW c \in S, NEW d \in S, NEW e \in S
  PROVE  /\ Precedes(c, d, place) /\ Precedes(d, e, place) => Precedes(c, e, place)
         /\ ~Precedes(c, c, place)
         /\ place[c] < place[d] => Precedes(c, d, place) \/ Rank[d] < Rank[c]
<1>1. Rank[c] \in Int /\ Rank[d] \in Int /\ Rank[e] \in Int
  BY HashTableAssumption
<1>2. place[c] \in Int /\ place[d] \in Int /\ place[e] \in Int
  OBVIOUS
<1> QED
  BY <1>1, <1>2 DEF Precedes

LEMMA RisingAppend ==
  ASSUME NEW S, NEW place, NEW s \in Seq(S), NEW e \in S, Rising(s, place),
         \A x \in DOMAIN s : Precedes(s[x], e, place)
  PROVE  Rising(Append(s, e), place)
<1>1. /\ Len(s) \in Nat /\ DOMAIN s = 1..Len(s) /\ Append(s, e) \in Seq(S)
      /\ Len(Append(s, e)) = Len(s) + 1
      /\ \A i \in 1..Len(s) : Append(s, e)[i] = s[i]
      /\ Append(s, e)[Len(s) + 1] = e
  BY AppendProperties, LenProperties
<1>2. DOMAIN Append(s, e) = 1..Len(s) + 1
  BY <1>1, LenProperties
<1> DEFINE t == Append(s, e)
<1> HIDE DEF t
<1>3. ASSUME NEW i \in DOMAIN t, NEW j \in DOMAIN t, i < j
      PROVE  Precedes(t[i], t[j], place)
  <2>1. i \in DOMAIN s /\ t[i] = s[i]
    BY <1>1, <1>2, <1>3 DEF t
  <2>2. CASE j = Len(s) + 1
    BY <1>1, <2>1, <2>2 DEF t
  <2>3. CASE j # Len(s) + 1
    <3>1. j \in DOMAIN s /\ t[j] = s[j]
      BY <1>1, <1>2, <2>3 DEF t
    <3> QED
      BY <1>3, <2>1, <3>1 DEF Rising
  <2> QED
    BY <2>2, <2>3
<1> QED
  BY <1>3 DEF Rising, t

(* The next element of a merge goes to the end of the list.                *)
Merging(m, p, q, S, place) ==
  /\ m.list \in Seq(S) /\ m.i \in 1..Len(p) + 1 /\ m.j \in 1..Len(q) + 1
  /\ Len(m.list) = (m.i - 1) + (m.j - 1) /\ Rising(m.list, place)
  /\ \A x \in DOMAIN m.list :
       /\ m.list[x] \in ToSet(p) \cup ToSet(q)
       /\ \A a \in DOMAIN p : a >= m.i => Precedes(m.list[x], p[a], place)
       /\ \A b \in DOMAIN q : b >= m.j => Precedes(m.list[x], q[b], place)

TwoRuns(p, q, S, place) ==
  /\ S \in SUBSET Elements /\ p \in Seq(S) /\ q \in Seq(S) /\ \A e \in S : place[e] \in Int
  /\ Rising(p, place) /\ Rising(q, place)
  /\ \A a \in DOMAIN p, b \in DOMAIN q : place[p[a]] < place[q[b]]

MergeNext(m, p, q) ==
  IF m.i <= Len(p) /\ (m.j > Len(q) \/ Rank[p[m.i]] <= Rank[q[m.j]])
  THEN [m EXCEPT !.list = Append(@, p[m.i]), !.i = @ + 1]
  ELSE [m EXCEPT !.list = Append(@, q[m.j]), !.j = @ + 1]

LEMMA MergeTakes ==
  ASSUME NEW p, NEW q, NEW S, NEW place, TwoRuns(p, q, S, place),
         NEW list, NEW i, NEW j, Merging([list |-> list, i |-> i, j |-> j], p, q, S, place)
  PROVE  /\ i <= Len(p) /\ (j > Len(q) \/ Rank[p[i]] <= Rank[q[j]])
              => Merging([list |-> Append(list, p[i]), i |-> i + 1, j |-> j], p, q, S, place)
         /\ ~(i <= Len(p) /\ (j > Len(q) \/ Rank[p[i]] <= Rank[q[j]])) /\ j <= Len(q)
              => Merging([list |-> Append(list, q[j]), i |-> i, j |-> j + 1], p, q, S, place)
<1>1. /\ S \in SUBSET Elements /\ p \in Seq(S) /\ q \in Seq(S) /\ \A e \in S : place[e] \in Int
      /\ Rising(p, place) /\ Rising(q, place)
      /\ \A a \in DOMAIN p, b \in DOMAIN q : place[p[a]] < place[q[b]]
  BY DEF TwoRuns
<1>2. /\ Len(p) \in Nat /\ DOMAIN p = 1..Len(p) /\ \A a \in DOMAIN p : p[a] \in S /\ Rank[p[a]] \in Int
      /\ Len(q) \in Nat /\ DOMAIN q = 1..Len(q) /\ \A b \in DOMAIN q : q[b] \in S /\ Rank[q[b]] \in Int
  <2>1. \A e \in S : Rank[e] \in Int
    BY <1>1, HashTableAssumption
  <2> QED
    BY <1>1, <2>1, LenProperties, ElementOfSeq
<1>3. /\ list \in Seq(S) /\ i \in 1..Len(p) + 1 /\ j \in 1..Len(q) + 1
      /\ Len(list) = (i - 1) + (j - 1) /\ Rising(list, place)
      /\ \A x \in DOMAIN list :
           /\ list[x] \in ToSet(p) \cup ToSet(q)
           /\ \A a \in DOMAIN p : a >= i => Precedes(list[x], p[a], place)
           /\ \A b \in DOMAIN q : b >= j => Precedes(list[x], q[b], place)
  BY DEF Merging
<1>4. Len(list) \in Nat /\ DOMAIN list = 1..Len(list)
  BY <1>3, LenProperties
<1>5. \A c, d, e \in S : Precedes(c, d, place) /\ Precedes(d, e, place) => Precedes(c, e, place)
  BY <1>1, PrecedesOrders
<1>6. ASSUME NEW e \in S, e \in ToSet(p) \cup ToSet(q), \A x \in DOMAIN list : Precedes(list[x], e, place)
      PROVE  /\ Append(list, e) \in Seq(S) /\ Len(Append(list, e)) = Len(list) + 1
             /\ Rising(Append(list, e), place)
             /\ \A x \in DOMAIN Append(list, e) :
                  \/ x \in DOMAIN list /\ Append(list, e)[x] = list[x]
                  \/ Append(list, e)[x] = e
  <2>1. /\ Append(list, e) \in Seq(S) /\ Len(Append(list, e)) = Len(list) + 1
        /\ \A x \in 1..Len(list) : Append(list, e)[x] = list[x]
        /\ Append(list, e)[Len(list) + 1] = e
    BY <1>3, <1>6, AppendProperties
  <2>2. DOMAIN Append(list, e) = 1..Len(list) + 1
    BY <1>4, <2>1, LenProperties
  <2>3. Rising(Append(list, e), place)
    BY <1>3, <1>6, RisingAppend
  <2> QED
    BY <1>4, <2>1, <2>2, <2>3
<1>7. ASSUME i <= Len(p), j > Len(q) \/ Rank[p[i]] <= Rank[q[j]]
      PROVE  Merging([list |-> Append(list, p[i]), i |-> i + 1, j |-> j], p, q, S, place)
  <2> DEFINE e == p[i]
  <2> DEFINE more == Append(list, e)
  <2>1. i \in DOMAIN p /\ e \in S /\ e \in ToSet(p)
    BY <1>2, <1>3, <1>7 DEF ToSet
  <2>2. \A x \in DOMAIN list : Precedes(list[x], e, place)
    BY <1>2, <1>3, <2>1
  <2>3. \A a \in DOMAIN p : a >= i + 1 => Precedes(e, p[a], place)
    BY <1>1, <1>2, <1>3, <2>1 DEF Rising
  <2>4. ASSUME NEW b \in DOMAIN q, b >= j PROVE Precedes(e, q[b], place)
    <3>1. j \in DOMAIN q
      BY <1>2, <1>3, <2>4
    <3>2. Rank[p[i]] <= Rank[q[j]] /\ place[p[i]] < place[q[j]]
      BY <1>1, <1>2, <1>3, <1>7, <2>1, <3>1
    <3>3. Precedes(e, q[j], place)
      BY <1>2, <2>1, <3>1, <3>2 DEF Precedes
    <3>4. b # j => Precedes(q[j], q[b], place)
      BY <1>1, <1>2, <1>3, <2>4, <3>1 DEF Rising
    <3> HIDE DEF e
    <3>5. q[j] \in S /\ q[b] \in S
      BY <1>2, <3>1
    <3> QED
      BY <1>5, <2>1, <3>3, <3>4, <3>5
  <2> HIDE DEF e
  <2>5. /\ more \in Seq(S) /\ Len(more) = Len(list) + 1 /\ Rising(more, place)
        /\ \A x \in DOMAIN more : (x \in DOMAIN list /\ more[x] = list[x]) \/ more[x] = e
    BY <1>6, <2>1, <2>2
  <2> HIDE DEF more
  <2>6. i + 1 \in 1..Len(p) + 1 /\ Len(more) = ((i + 1) - 1) + (j - 1)
    BY <1>2, <1>3, <1>7, <2>5
  <2>7. \A x \in DOMAIN more :
           /\ more[x] \in ToSet(p) \cup ToSet(q)
           /\ \A a \in DOMAIN p : a >= i + 1 => Precedes(more[x], p[a], place)
           /\ \A b \in DOMAIN q : b >= j => Precedes(more[x], q[b], place)
    <3> SUFFICES ASSUME NEW x \in DOMAIN more
                 PROVE  /\ more[x] \in ToSet(p) \cup ToSet(q)
                        /\ \A a \in DOMAIN p : a >= i + 1 => Precedes(more[x], p[a], place)
                        /\ \A b \in DOMAIN q : b >= j => Precedes(more[x], q[b], place)
      OBVIOUS
    <3>1. CASE more[x] = e
      BY <2>1, <2>3, <2>4, <3>1
    <3>2. CASE x \in DOMAIN list /\ more[x] = list[x]
      <4>1. \A a \in DOMAIN p : a >= i + 1 => a >= i
        BY <1>2, <1>3
      <4> QED
        BY <1>3, <3>2, <4>1
    <3> QED
      BY <2>5, <3>1, <3>2
  <2> DEFINE m == [list |-> more, i |-> i + 1, j |-> j]
  <2>8. m.list = more /\ m.i = i + 1 /\ m.j = j
    OBVIOUS
  <2> HIDE DEF m
  <2>9. Merging(m, p, q, S, place)
    BY <1>3, <2>5, <2>6, <2>7, <2>8 DEF Merging
  <2> QED
    BY <2>9 DEF m, more, e
<1>8. ASSUME ~(i <= Len(p) /\ (j > Len(q) \/ Rank[p[i]] <= Rank[q[j]])), j <= Len(q)
      PROVE  Merging([list |-> Append(list, q[j]), i |-> i, j |-> j + 1], p, q, S, place)
  <2> DEFINE e == q[j]
  <2> DEFINE more == Append(list, e)
  <2>1. j \in DOMAIN q /\ e \in S /\ e \in ToSet(q)
    BY <1>2, <1>3, <1>8 DEF ToSet
  <2>2. \A x \in DOMAIN list : Precedes(list[x], e, place)
    BY <1>2, <1>3, <2>1
  <2>3. \A b \in DOMAIN q : b >= j + 1 => Precedes(e, q[b], place)
    BY <1>1, <1>2, <1>3, <2>1 DEF Rising
  <2>4. ASSUME NEW a \in DOMAIN p, a >= i PROVE Precedes(e, p[a], place)
    <3>1. i \in DOMAIN p
      BY <1>2, <1>3, <2>4
    <3>2. Rank[q[j]] < Rank[p[i]]
      BY <1>2, <1>3, <1>8, <2>1, <3>1
    <3>3. Precedes(e, p[i], place)
      BY <3>2 DEF Precedes
    <3>4. a # i => Precedes(p[i], p[a], place)
      BY <1>1, <1>2, <1>3, <2>4, <3>1 DEF Rising
    <3> HIDE DEF e
    <3>5. p[i] \in S /\ p[a] \in S
      BY <1>2, <3>1
    <3> QED
      BY <1>5, <2>1, <3>3, <3>4, <3>5
  <2> HIDE DEF e
  <2>5. /\ more \in Seq(S) /\ Len(more) = Len(list) + 1 /\ Rising(more, place)
        /\ \A x \in DOMAIN more : (x \in DOMAIN list /\ more[x] = list[x]) \/ more[x] = e
    BY <1>6, <2>1, <2>2
  <2> HIDE DEF more
  <2>6. j + 1 \in 1..Len(q) + 1 /\ Len(more) = (i - 1) + ((j + 1) - 1)
    BY <1>2, <1>3, <1>8, <2>5
  <2>7. \A x \in DOMAIN more :
           /\ more[x] \in ToSet(p) \cup ToSet(q)
           /\ \A a \in DOMAIN p : a >= i => Precedes(more[x], p[a], place)
           /\ \A b \in DOMAIN q : b >= j + 1 => Precedes(more[x], q[b], place)
    <3> SUFFICES ASSUME NEW x \in DOMAIN more
                 PROVE  /\ more[x] \in ToSet(p) \cup ToSet(q)
                        /\ \A a \in DOMAIN p : a >= i => Precedes(more[x], p[a], place)
                        /\ \A b \in DOMAIN q : b >= j + 1 => Precedes(more[x], q[b], place)
      OBVIOUS
    <3>1. CASE more[x] = e
      BY <2>1, <2>3, <2>4, <3>1
    <3>2. CASE x \in DOMAIN list /\ more[x] = list[x]
      <4>1. \A b \in DOMAIN q : b >= j + 1 => b >= j
        BY <1>2, <1>3
      <4> QED
        BY <1>3, <3>2, <4>1
    <3> QED
      BY <2>5, <3>1, <3>2
  <2> DEFINE m == [list |-> more, i |-> i, j |-> j + 1]
  <2>8. m.list = more /\ m.i = i /\ m.j = j + 1
    OBVIOUS
  <2> HIDE DEF m
  <2>9. Merging(m, p, q, S, place)
    BY <1>3, <2>5, <2>6, <2>7, <2>8 DEF Merging
  <2> QED
    BY <2>9 DEF m, more, e
<1> QED
  BY <1>7, <1>8

LEMMA MergeStep ==
  ASSUME NEW p, NEW q, NEW S, NEW place, TwoRuns(p, q, S, place),
         NEW m \in [list : Seq(S), i : Nat, j : Nat], Merging(m, p, q, S, place),
         Len(m.list) < Len(p) + Len(q)
  PROVE  /\ MergeNext(m, p, q) \in [list : Seq(S), i : Nat, j : Nat]
         /\ Merging(MergeNext(m, p, q), p, q, S, place)
         /\ Len(MergeNext(m, p, q).list) = Len(m.list) + 1
<1> DEFINE list == m.list
<1> DEFINE i == m.i
<1> DEFINE j == m.j
<1> DEFINE left == i <= Len(p) /\ (j > Len(q) \/ Rank[p[i]] <= Rank[q[j]])
<1>1. m = [list |-> list, i |-> i, j |-> j] /\ list \in Seq(S) /\ i \in Nat /\ j \in Nat
  OBVIOUS
<1>2. p \in Seq(S) /\ q \in Seq(S) /\ Len(p) \in Nat /\ Len(q) \in Nat
  BY LenProperties DEF TwoRuns
<1>3. i \in 1..Len(p) + 1 /\ j \in 1..Len(q) + 1 /\ Len(list) = (i - 1) + (j - 1)
  BY DEF Merging
<1>4. Merging([list |-> list, i |-> i, j |-> j], p, q, S, place) /\ Len(list) < Len(p) + Len(q)
  BY <1>1
<1>5. /\ left => MergeNext(m, p, q) = [list |-> Append(list, p[i]), i |-> i + 1, j |-> j]
      /\ ~left => MergeNext(m, p, q) = [list |-> Append(list, q[j]), i |-> i, j |-> j + 1]
  BY <1>1 DEF MergeNext
<1>6. \A e \in S : Append(list, e) \in Seq(S) /\ Len(Append(list, e)) = Len(list) + 1
  BY <1>1, AppendProperties
<1> HIDE DEF list, i, j, left
<1>7. left => i <= Len(p) /\ (j > Len(q) \/ Rank[p[i]] <= Rank[q[j]])
  BY DEF left
<1>8. ~left => ~(i <= Len(p) /\ (j > Len(q) \/ Rank[p[i]] <= Rank[q[j]])) /\ j <= Len(q)
  BY <1>2, <1>3, <1>4 DEF left
<1>9. CASE left
  <2>1. Merging([list |-> Append(list, p[i]), i |-> i + 1, j |-> j], p, q, S, place)
    BY <1>4, <1>7, <1>9, MergeTakes
  <2>2. p[i] \in S
    BY <1>2, <1>3, <1>7, <1>9, LenProperties, ElementOfSeq
  <2>3. [list |-> Append(list, p[i]), i |-> i + 1, j |-> j] \in [list : Seq(S), i : Nat, j : Nat]
    BY <1>1, <1>6, <2>2
  <2> DEFINE w == [list |-> Append(list, p[i]), i |-> i + 1, j |-> j]
  <2>4. MergeNext(m, p, q) = w
    BY <1>5, <1>9
  <2>5. w \in [list : Seq(S), i : Nat, j : Nat] /\ Merging(w, p, q, S, place) /\ Len(w.list) = Len(list) + 1
    BY <1>6, <2>1, <2>2, <2>3
  <2> HIDE DEF w
  <2> QED
    BY <2>4, <2>5 DEF list
<1>10. CASE ~left
  <2>1. Merging([list |-> Append(list, q[j]), i |-> i, j |-> j + 1], p, q, S, place)
    BY <1>4, <1>8, <1>10, MergeTakes
  <2>2. q[j] \in S
    BY <1>2, <1>3, <1>8, <1>10, LenProperties, ElementOfSeq
  <2>3. [list |-> Append(list, q[j]), i |-> i, j |-> j + 1] \in [list : Seq(S), i : Nat, j : Nat]
    BY <1>1, <1>6, <2>2
  <2> DEFINE w == [list |-> Append(list, q[j]), i |-> i, j |-> j + 1]
  <2>4. MergeNext(m, p, q) = w
    BY <1>5, <1>10
  <2>5. w \in [list : Seq(S), i : Nat, j : Nat] /\ Merging(w, p, q, S, place) /\ Len(w.list) = Len(list) + 1
    BY <1>6, <2>1, <2>2, <2>3
  <2> HIDE DEF w
  <2> QED
    BY <2>4, <2>5 DEF list
<1> QED
  BY <1>9, <1>10

(* Two rising runs, the first from places before the second's, merge into  *)
(* a rising list of the elements of both.                                  *)
LEMMA MergeRises ==
  ASSUME NEW p, NEW q, NEW S, NEW place, TwoRuns(p, q, S, place)
  PROVE  /\ Merge(p, q) \in Seq(S) /\ Len(Merge(p, q)) = Len(p) + Len(q)
         /\ Rising(Merge(p, q), place)
         /\ \A x \in DOMAIN Merge(p, q) : Merge(p, q)[x] \in ToSet(p) \cup ToSet(q)
<1> DEFINE N == Len(p) + Len(q)
<1> DEFINE V == [list : Seq(S), i : Nat, j : Nat]
<1> DEFINE W == [k \in 0..N |-> {m \in V : Merging(m, p, q, S, place) /\ Len(m.list) = k}]
<1> DEFINE b == [list |-> << >>, i |-> 1, j |-> 1]
<1> DEFINE next == [m \in V |-> MergeNext(m, p, q)]
<1> DEFINE G == [k \in 1..N |-> next]
<1> DEFINE Body(f) == [k \in 0..N |->
        IF k = 0 THEN [list |-> << >>, i |-> 1, j |-> 1]
        ELSE LET m == f[k - 1]
             IN IF m.i <= Len(p) /\ (m.j > Len(q) \/ Rank[p[m.i]] <= Rank[q[m.j]])
                THEN [m EXCEPT !.list = Append(@, p[m.i]), !.i = @ + 1]
                ELSE [m EXCEPT !.list = Append(@, q[m.j]), !.j = @ + 1]]
<1> DEFINE after == CHOOSE f : f = Body(f)
<1>1. Merge(p, q) = after[N].list
  BY DEF Merge
<1>2. p \in Seq(S) /\ q \in Seq(S) /\ Len(p) \in Nat /\ Len(q) \in Nat
  BY LenProperties DEF TwoRuns
<1>3. N \in Nat
  BY <1>2
<1> HIDE DEF N
<1>4. \A f : Body(f) = [k \in 0..N |-> IF k = 0 THEN b ELSE MergeNext(f[k - 1], p, q)]
  BY DEF MergeNext
<1>5. b \in W[0]
  <2>1. << >> \in Seq(S) /\ Len(<< >>) = 0 /\ DOMAIN << >> = {}
    BY EmptySeq
  <2>2. Rising(<< >>, place)
    BY <2>1 DEF Rising
  <2>3. b.list = << >> /\ b.i = 1 /\ b.j = 1 /\ b \in V
    BY <2>1
  <2> HIDE DEF b, V
  <2>4. Merging(b, p, q, S, place)
    BY <1>2, <2>1, <2>2, <2>3 DEF Merging
  <2> QED
    BY <1>3, <2>1, <2>3, <2>4
<1>6. ASSUME NEW k \in 1..N, NEW m \in W[k - 1]
      PROVE  m \in V /\ next[m] = MergeNext(m, p, q) /\ next[m] \in W[k] /\ G[k][m] \in W[k]
  <2>1. k - 1 \in 0..N /\ k \in 0..N
    BY <1>3
  <2>2. m \in V /\ Merging(m, p, q, S, place) /\ Len(m.list) = k - 1
    BY <2>1
  <2>3. Len(m.list) < Len(p) + Len(q)
    BY <1>3, <2>2 DEF N
  <2>4. /\ MergeNext(m, p, q) \in [list : Seq(S), i : Nat, j : Nat]
        /\ Merging(MergeNext(m, p, q), p, q, S, place)
        /\ Len(MergeNext(m, p, q).list) = Len(m.list) + 1
    BY <2>2, <2>3, MergeStep
  <2> DEFINE w == MergeNext(m, p, q)
  <2>5. next[m] = w
    BY <2>2
  <2>6. w \in V /\ Merging(w, p, q, S, place) /\ Len(w.list) = k
    BY <1>3, <2>2, <2>4
  <2> HIDE DEF w, V
  <2>7. w \in W[k]
    BY <2>1, <2>6
  <2> HIDE DEF W, next
  <2> QED
    BY <2>2, <2>5, <2>7 DEF w
<1> HIDE DEF Body, V, next
<1>7. \E f : f = Body(f)
  <2>1. \E f : Stages(f, N, W, b, G)
    <3> HIDE DEF W, b, G
    <3>1. \A k \in 1..N : \A m \in W[k - 1] : G[k][m] \in W[k]
      BY <1>6
    <3> QED
      BY <1>3, <1>5, <3>1, StagesExist
  <2>2. PICK f : Stages(f, N, W, b, G)
    BY <2>1
  <2>3. f = [k \in 0..N |-> IF k = 0 THEN b ELSE G[k][f[k - 1]]] /\ \A k \in 0..N : f[k] \in W[k]
    BY <2>2 DEF Stages
  <2> HIDE DEF W, b
  <2>4. ASSUME NEW k \in 1..N PROVE G[k][f[k - 1]] = MergeNext(f[k - 1], p, q)
    <3>1. k - 1 \in 0..N
      BY <1>3
    <3>2. f[k - 1] \in W[k - 1]
      BY <2>3, <3>1
    <3> QED
      BY <1>6, <3>2
  <2>5. f = [k \in 0..N |-> IF k = 0 THEN b ELSE MergeNext(f[k - 1], p, q)]
    <3> HIDE DEF G
    <3>1. \A k \in 0..N : k # 0 => k \in 1..N
      BY <1>3
    <3>2. \A k \in 0..N : (IF k = 0 THEN b ELSE G[k][f[k - 1]])
                           = (IF k = 0 THEN b ELSE MergeNext(f[k - 1], p, q))
      BY <2>4, <3>1
    <3>3. [k \in 0..N |-> IF k = 0 THEN b ELSE G[k][f[k - 1]]]
           = [k \in 0..N |-> IF k = 0 THEN b ELSE MergeNext(f[k - 1], p, q)]
      BY <3>2
    <3> QED
      BY <2>3, <3>3
  <2>6. f = Body(f)
    BY <1>4, <2>5
  <2> QED
    BY <2>6
<1>8. after = Body(after)
  BY <1>7
<1> HIDE DEF after
<1>9. after = [k \in 0..N |-> IF k = 0 THEN b ELSE MergeNext(after[k - 1], p, q)]
  BY <1>4, <1>8
<1>10. \A k \in 0..N : after[k] \in W[k]
  <2> HIDE DEF W, b, G
  <2>1. ASSUME NEW k \in 1..N, after[k - 1] \in W[k - 1] PROVE after[k] \in W[k]
    <3>1. after[k] = MergeNext(after[k - 1], p, q)
      BY <1>3, <1>9
    <3> QED
      BY <1>6, <2>1, <3>1
  <2>2. \A k \in 1..N : after[k - 1] \in W[k - 1] => after[k] \in W[k]
    BY <2>1
  <2>3. after[0] \in W[0]
    BY <1>3, <1>5, <1>9
  <2> QED
    BY <1>3, <2>2, <2>3, StagesHold
<1>11. Merging(after[N], p, q, S, place) /\ Len(after[N].list) = N
  BY <1>3, <1>10
<1> QED
  BY <1>1, <1>11 DEF Merging, N

(***************************************************************************)
(* A list in runs of size z: what is at c + 1 .. c + z, c a multiple of z, *)
(* was there before, and rises.                                            *)
(***************************************************************************)
Starts(z) == {q * z : q \in Nat}

Within(c, z, i) == c < i /\ i <= c + z

Runs(list, z, S, place) ==
  /\ list \in Seq(S) /\ S \in SUBSET Elements /\ \A e \in S : place[e] \in Int
  /\ \A c \in Starts(z), i \in DOMAIN list : Within(c, z, i) => Within(c, z, place[list[i]])
  /\ \A c \in Starts(z), i, j \in DOMAIN list :
       Within(c, z, i) /\ Within(c, z, j) /\ i < j => Precedes(list[i], list[j], place)

LEMMA StartsApart ==
  ASSUME NEW z \in Nat \ {0}, NEW c \in Starts(z), NEW d \in Starts(z), NEW i \in Int,
         Within(c, z, i), Within(d, z, i)
  PROVE  c = d
<1>1. PICK q \in Nat : c = q * z
  BY DEF Starts
<1>2. PICK r \in Nat : d = r * z
  BY DEF Starts
<1>3. c \in Int /\ d \in Int /\ c < i /\ i <= c + z /\ d < i /\ i <= d + z
  BY <1>1, <1>2 DEF Within
<1>4. ASSUME NEW a \in Nat, NEW b \in Nat, a < b PROVE a * z + z <= b * z
  <2>1. (a + 1) * z <= b * z
    BY <1>4, ProductMonotone
  <2>2. (a + 1) * z = a * z + z
    BY SMT
  <2> QED
    BY <2>1, <2>2
<1>5. ~(q < r)
  BY <1>1, <1>2, <1>3, <1>4
<1>6. ~(r < q)
  BY <1>1, <1>2, <1>3, <1>4
<1>7. q = r
  BY <1>5, <1>6
<1> QED
  BY <1>1, <1>2, <1>7

(* Every second start of a size is one of the doubled size.                *)
LEMMA StartsDoubled ==
  ASSUME NEW z \in Nat \ {0}, NEW c \in Starts(2 * z)
  PROVE  c \in Starts(z) /\ c + z \in Starts(z) /\ c \in Nat
<1>1. PICK q \in Nat : c = q * (2 * z)
  BY DEF Starts
<1>2. c = (2 * q) * z /\ c + z = (2 * q + 1) * z /\ c \in Nat
  BY <1>1, SMT
<1>3. 2 * q \in Nat /\ 2 * q + 1 \in Nat
  OBVIOUS
<1> QED
  BY <1>2, <1>3 DEF Starts

LEMMA RunRises ==
  ASSUME NEW list, NEW z \in Nat \ {0}, NEW S, NEW place, Runs(list, z, S, place),
         NEW c \in Starts(z), c \in Nat
  PROVE  /\ Run(list, c, z) \in Seq(S) /\ Rising(Run(list, c, z), place)
         /\ Len(Run(list, c, z)) = IF c + z <= Len(list) THEN z ELSE IF c <= Len(list) THEN Len(list) - c ELSE 0
         /\ \A x \in DOMAIN Run(list, c, z) : Within(c, z, place[Run(list, c, z)[x]])
<1> DEFINE n == Len(list)
<1> DEFINE last == IF c + z < n THEN c + z ELSE n
<1> DEFINE r == Run(list, c, z)
<1>1. list \in Seq(S)
  BY DEF Runs
<1>2. n \in Nat /\ DOMAIN list = 1..n /\ \A i \in 1..n : list[i] \in S
  BY <1>1, LenProperties, ElementOfSeq
<1>3. r = SubSeq(list, c + 1, last)
  BY DEF Run
<1> HIDE DEF n
<1>4. last \in Int /\ last <= n /\ last <= c + z
  BY <1>2
<1>5. /\ Len(r) = IF c + z <= n THEN z ELSE IF c <= n THEN n - c ELSE 0
      /\ r \in Seq(S) /\ \A x \in 1..last - c : r[x] = list[c + x]
  <2>1. \A i \in c + 1..last : list[i] \in S
    BY <1>2
  <2> DEFINE from == c + 1
  <2> DEFINE to == last
  <2>2. from \in Int /\ to \in Int /\ \A i \in from..to : list[i] \in S
    BY <1>2, <2>1
  <2> HIDE DEF from, to
  <2>3. /\ SubSeq(list, from, to) \in Seq(S)
        /\ Len(SubSeq(list, from, to)) = IF from <= to THEN (to - from) + 1 ELSE 0
        /\ \A x \in 1..(to - from) + 1 : SubSeq(list, from, to)[x] = list[(from + x) - 1]
    BY <2>2, SubSeqProperties
  <2>4. r = SubSeq(list, from, to)
    BY <1>3 DEF from, to
  <2>5. Len(r) = IF c + z <= n THEN z ELSE IF c <= n THEN n - c ELSE 0
    BY <1>2, <2>3, <2>4 DEF from, to
  <2>6. ASSUME NEW x \in 1..last - c PROVE r[x] = list[c + x]
    <3>1. x \in 1..(to - from) + 1 /\ (from + x) - 1 = c + x
      BY <1>2, <2>6 DEF from, to
    <3> HIDE DEF last, r
    <3> QED
      BY <2>3, <2>4, <3>1
  <2> QED
    BY <2>3, <2>4, <2>5, <2>6
<1> HIDE DEF r
<1>6. DOMAIN r = 1..Len(r) /\ Len(r) \in Nat
  BY <1>5, LenProperties
<1>7. ASSUME NEW x \in DOMAIN r
      PROVE  c + x \in DOMAIN list /\ r[x] = list[c + x] /\ Within(c, z, c + x) /\ x \in Nat
  <2>1. x \in 1..last - c /\ x <= z
    BY <1>2, <1>5, <1>6
  <2> HIDE DEF last
  <2> QED
    BY <1>2, <1>4, <1>5, <2>1 DEF Within
<1>8. Rising(r, place)
  <2> SUFFICES ASSUME NEW x \in DOMAIN r, NEW y \in DOMAIN r, x < y PROVE Precedes(r[x], r[y], place)
    BY DEF Rising
  <2>1. c + x < c + y
    BY <1>7
  <2>2. Precedes(list[c + x], list[c + y], place)
    BY <1>7, <2>1 DEF Runs
  <2> QED
    BY <1>7, <2>2
<1>9. \A x \in DOMAIN r : Within(c, z, place[r[x]])
  BY <1>7 DEF Runs
<1> QED
  BY <1>5, <1>8, <1>9 DEF r, n

(* One more pair of runs is merged onto what is done.                      *)
Rounding(list, done, c, z, S, place) ==
  /\ z \in Nat \ {0} /\ Runs(list, z, S, place) /\ Runs(done, 2 * z, S, place)
  /\ c \in Starts(2 * z) /\ Len(done) = c /\ c < Len(list)

LEMMA PairMerged ==
  ASSUME NEW list, NEW done, NEW c, NEW z, NEW S, NEW place, Rounding(list, done, c, z, S, place),
         NEW m, m = Merge(Run(list, c, z), Run(list, c + z, z))
  PROVE  /\ Runs(done \o m, 2 * z, S, place)
         /\ Len(done \o m) = IF c + 2 * z <= Len(list) THEN c + 2 * z ELSE Len(list)
<1> DEFINE p == Run(list, c, z)
<1> DEFINE q == Run(list, c + z, z)
<1> DEFINE n == Len(list)
<1> DEFINE new == done \o m
<1> DEFINE w == 2 * z
<1>1. /\ z \in Nat \ {0} /\ Runs(list, z, S, place) /\ Runs(done, 2 * z, S, place)
      /\ c \in Starts(2 * z) /\ Len(done) = c /\ c < n
  BY DEF Rounding
<1>2. c \in Starts(z) /\ c + z \in Starts(z) /\ c \in Nat
  BY <1>1, StartsDoubled
<1>3. /\ p \in Seq(S) /\ Rising(p, place)
      /\ Len(p) = IF c + z <= n THEN z ELSE IF c <= n THEN n - c ELSE 0
      /\ \A x \in DOMAIN p : Within(c, z, place[p[x]])
  BY <1>1, <1>2, RunRises
<1>4. /\ q \in Seq(S) /\ Rising(q, place)
      /\ Len(q) = IF (c + z) + z <= n THEN z ELSE IF c + z <= n THEN n - (c + z) ELSE 0
      /\ \A x \in DOMAIN q : Within(c + z, z, place[q[x]])
  <2> DEFINE d == c + z
  <2>1. d \in Starts(z) /\ d \in Nat
    BY <1>1, <1>2
  <2> HIDE DEF d
  <2>2. /\ Run(list, d, z) \in Seq(S) /\ Rising(Run(list, d, z), place)
        /\ Len(Run(list, d, z)) = IF d + z <= Len(list) THEN z ELSE IF d <= Len(list) THEN Len(list) - d ELSE 0
        /\ \A x \in DOMAIN Run(list, d, z) : Within(d, z, place[Run(list, d, z)[x]])
    BY <1>1, <2>1, RunRises
  <2> QED
    BY <2>2 DEF d
<1>5. /\ done \in Seq(S) /\ S \in SUBSET Elements /\ \A e \in S : place[e] \in Int
      /\ list \in Seq(S)
  BY <1>1 DEF Runs
<1>6. n \in Nat
  BY <1>5, LenProperties
<1>7. /\ \A x \in DOMAIN p : p[x] \in S /\ place[p[x]] \in Int /\ c < place[p[x]] /\ place[p[x]] <= c + z
      /\ \A x \in DOMAIN q : q[x] \in S /\ place[q[x]] \in Int /\ c + z < place[q[x]] /\ place[q[x]] <= (c + z) + z
  <2> HIDE DEF p, q
  <2>1. (\A x \in DOMAIN p : p[x] \in S) /\ (\A x \in DOMAIN q : q[x] \in S)
    BY <1>3, <1>4, LenProperties, ElementOfSeq
  <2> QED
    BY <1>3, <1>4, <1>5, <2>1 DEF Within
<1> HIDE DEF n, p, q
<1>8. \A a \in DOMAIN p, b \in DOMAIN q : place[p[a]] < place[q[b]]
  BY <1>1, <1>2, <1>7
<1>9. TwoRuns(p, q, S, place)
  BY <1>3, <1>4, <1>5, <1>8 DEF TwoRuns
<1>10. /\ m \in Seq(S) /\ Len(m) = Len(p) + Len(q) /\ Rising(m, place)
       /\ \A x \in DOMAIN m : m[x] \in ToSet(p) \cup ToSet(q)
  <2>1. m = Merge(p, q)
    BY DEF p, q
  <2>2. /\ Merge(p, q) \in Seq(S) /\ Len(Merge(p, q)) = Len(p) + Len(q)
        /\ Rising(Merge(p, q), place)
        /\ \A x \in DOMAIN Merge(p, q) : Merge(p, q)[x] \in ToSet(p) \cup ToSet(q)
    BY <1>9, MergeRises
  <2> QED
    BY <2>1, <2>2
<1>11. \A x \in DOMAIN m : Within(c, w, place[m[x]])
  <2> SUFFICES ASSUME NEW x \in DOMAIN m PROVE Within(c, w, place[m[x]])
    OBVIOUS
  <2>1. PICK y : (y \in DOMAIN p /\ m[x] = p[y]) \/ (y \in DOMAIN q /\ m[x] = q[y])
    BY <1>10 DEF ToSet
  <2>2. /\ place[m[x]] \in Int
        /\ \/ c < place[m[x]] /\ place[m[x]] <= c + z
           \/ c + z < place[m[x]] /\ place[m[x]] <= (c + z) + z
    BY <1>7, <2>1
  <2> QED
    BY <1>1, <1>2, <2>2 DEF Within
<1>12. Len(m) = IF c + w <= n THEN w ELSE n - c
  <2>1. Len(m) = Len(p) + Len(q)
    BY <1>10
  <2> QED
    BY <1>1, <1>2, <1>3, <1>4, <1>6, <2>1
<1>13. /\ new \in Seq(S) /\ Len(new) = c + Len(m) /\ Len(m) \in Nat /\ DOMAIN m = 1..Len(m)
       /\ DOMAIN done = 1..c
       /\ \A i \in 1..c + Len(m) : new[i] = IF i <= c THEN done[i] ELSE m[i - c]
  <2>1. Len(m) \in Nat /\ DOMAIN m = 1..Len(m) /\ DOMAIN done = 1..c
    BY <1>1, <1>5, <1>10, LenProperties
  <2>2. /\ done \o m \in Seq(S) /\ Len(done \o m) = Len(done) + Len(m)
        /\ \A i \in 1..Len(done) + Len(m) : (done \o m)[i] = IF i <= Len(done) THEN done[i] ELSE m[i - Len(done)]
    BY <1>5, <1>10, ConcatProperties
  <2> QED
    BY <1>1, <2>1, <2>2
<1> HIDE DEF new
<1>14. DOMAIN new = 1..c + Len(m)
  BY <1>13, LenProperties
<1>15. Len(m) <= w /\ w \in Nat \ {0}
  BY <1>1, <1>2, <1>6, <1>12
<1> HIDE DEF w
<1>16. ASSUME NEW i \in DOMAIN new, i > c
       PROVE  /\ i - c \in DOMAIN m /\ new[i] = m[i - c] /\ Within(c, w, i) /\ Within(c, w, place[new[i]])
  <2>1. i - c \in DOMAIN m /\ new[i] = m[i - c]
    BY <1>2, <1>13, <1>14, <1>16
  <2>2. Within(c, w, i)
    BY <1>2, <1>13, <1>14, <1>15, <1>16 DEF Within
  <2> QED
    BY <1>11, <2>1, <2>2
<1>17. ASSUME NEW i \in DOMAIN new, ~(i > c)
       PROVE  i \in DOMAIN done /\ new[i] = done[i]
  BY <1>2, <1>13, <1>14, <1>17
<1>18. c \in Starts(w) /\ \A i \in DOMAIN new : i \in Int
  BY <1>1, <1>2, <1>13, <1>14 DEF w
<1>19. ASSUME NEW d \in Starts(w), NEW i \in DOMAIN new, Within(d, w, i)
       PROVE  Within(d, w, place[new[i]])
  <2>1. CASE i > c
    <3>1. Within(c, w, i) /\ Within(c, w, place[new[i]])
      BY <1>16, <2>1
    <3>2. d = c
      BY <1>15, <1>18, <1>19, <3>1, StartsApart
    <3> QED
      BY <3>1, <3>2
  <2>2. CASE ~(i > c)
    <3>1. i \in DOMAIN done /\ new[i] = done[i]
      BY <1>17, <2>2
    <3>2. Runs(done, w, S, place)
      BY <1>1 DEF w
    <3> QED
      BY <1>19, <3>1, <3>2 DEF Runs
  <2> QED
    BY <2>1, <2>2
<1>20. ASSUME NEW d \in Starts(w), NEW i \in DOMAIN new, NEW j \in DOMAIN new,
              Within(d, w, i), Within(d, w, j), i < j
       PROVE  Precedes(new[i], new[j], place)
  <2>1. CASE j > c
    <3>1. Within(c, w, j)
      BY <1>16, <2>1
    <3>2. d = c
      BY <1>15, <1>18, <1>20, <3>1, StartsApart
    <3>3. i > c
      BY <1>2, <1>18, <1>20, <3>2 DEF Within
    <3>4. /\ i - c \in DOMAIN m /\ new[i] = m[i - c]
          /\ j - c \in DOMAIN m /\ new[j] = m[j - c]
      BY <1>16, <2>1, <3>3
    <3>5. i - c < j - c
      BY <1>2, <1>18, <1>20
    <3>6. Precedes(m[i - c], m[j - c], place)
      BY <1>10, <3>4, <3>5 DEF Rising
    <3> QED
      BY <3>4, <3>6
  <2>2. CASE ~(j > c)
    <3>1. ~(i > c)
      BY <1>2, <1>18, <1>20, <2>2
    <3>2. i \in DOMAIN done /\ new[i] = done[i] /\ j \in DOMAIN done /\ new[j] = done[j]
      BY <1>17, <2>2, <3>1
    <3>3. Runs(done, w, S, place)
      BY <1>1 DEF w
    <3>4. Precedes(done[i], done[j], place)
      BY <1>20, <3>2, <3>3 DEF Runs
    <3> QED
      BY <3>2, <3>4
  <2> QED
    BY <2>1, <2>2
<1>21. Runs(new, w, S, place)
  BY <1>5, <1>13, <1>19, <1>20 DEF Runs
<1>22. Len(new) = IF c + w <= n THEN c + w ELSE n
  BY <1>1, <1>2, <1>6, <1>12, <1>13
<1> QED
  BY <1>21, <1>22 DEF new, w, n

(* A round makes runs of twice the size.                                   *)
LEMMA RoundRises ==
  ASSUME NEW list, NEW z \in Nat \ {0}, NEW S, NEW place, Runs(list, z, S, place)
  PROVE  Runs(Round(list, z), 2 * z, S, place) /\ Len(Round(list, z)) = Len(list)
<1> DEFINE n == Len(list)
<1> DEFINE w == 2 * z
<1> DEFINE M == ((n + w) - 1) \div w
<1> DEFINE joined(d, m) == d \o Merge(Run(list, w * (m - 1), z), Run(list, w * (m - 1) + z, z))
<1> DEFINE W == [m \in 0..M |-> {d \in Seq(S) : /\ Runs(d, w, S, place)
                                                /\ Len(d) = IF w * m <= n THEN w * m ELSE n}]
<1> DEFINE G == [m \in 1..M |-> [d \in Seq(S) |-> joined(d, m)]]
<1> DEFINE Body(f) == [m \in 0..M |->
        IF m = 0 THEN << >>
        ELSE LET before == 2 * z * (m - 1)
             IN f[m - 1] \o Merge(Run(list, before, z), Run(list, before + z, z))]
<1> DEFINE done == CHOOSE f : f = Body(f)
<1>1. list \in Seq(S) /\ S \in SUBSET Elements /\ \A e \in S : place[e] \in Int
  BY DEF Runs
<1>2. n \in Nat /\ w \in Nat \ {0}
  BY <1>1, LenProperties
<1>3. Round(list, z) = done[M]
  BY DEF Round
<1>4. \A f : Body(f) = [m \in 0..M |-> IF m = 0 THEN << >> ELSE joined(f[m - 1], m)]
  OBVIOUS
<1> HIDE DEF n, Body
<1>5. w * z \in Nat /\ \A m \in Nat : w * m \in Nat
  BY <1>2, SMT
<1>6. w = 2 * z
  OBVIOUS
<1> HIDE DEF w
<1>7. M \in Nat /\ w * M >= n /\ \A m \in 1..M : w * (m - 1) \in Starts(w) /\ w * (m - 1) < n
  <2> DEFINE a == (n + w) - 1
  <2>1. a \in Int /\ M = a \div w
    BY <1>2
  <2> DEFINE r == a % w
  <2>2. M \in Int /\ r \in 0..w - 1 /\ a = w * M + r
    BY <1>2, <2>1, DivMod
  <2> HIDE DEF M, r
  <2> DEFINE t == w * M
  <2>3. t \in Int /\ a = t + r
    BY <1>2, <2>2
  <2>4. t >= n /\ t <= (n + w) - 1
    <3> HIDE DEF t
    <3> QED
      BY <1>2, <2>2, <2>3
  <2>5. M \in Nat
    <3>1. w * 0 = 0
      BY <1>2
    <3> SUFFICES ASSUME M + 1 <= 0 PROVE FALSE
      BY <2>2
    <3>2. w * (M + 1) <= w * 0
      BY <1>2, <2>2, ProductMonotone
    <3>3. w * (M + 1) = w * M + w
      BY <1>2, <2>2, SMT
    <3>4. t + w <= 0
      BY <3>1, <3>2, <3>3
    <3> HIDE DEF t
    <3> QED
      BY <1>2, <2>3, <2>4, <3>4
  <2>6. ASSUME NEW m \in 1..M PROVE w * (m - 1) \in Starts(w) /\ w * (m - 1) < n
    <3> DEFINE l == m - 1
    <3>1. l \in Nat /\ l <= M - 1 /\ M - 1 \in Int
      BY <2>5
    <3> HIDE DEF l
    <3>2. w * l <= w * (M - 1)
      BY <1>2, <3>1, ProductMonotone
    <3>3. w * (M - 1) = w * M - w /\ w * l = l * w /\ w * l \in Int
      BY <1>2, <2>5, <3>1, SMT
    <3>4. w * l <= t - w
      BY <3>2, <3>3
    <3> HIDE DEF t
    <3>5. w * l < n
      BY <1>2, <2>3, <2>4, <3>3, <3>4
    <3>6. w * l \in Starts(w)
      BY <3>1, <3>3 DEF Starts
    <3> QED
      BY <3>5, <3>6 DEF l
  <2> QED
    BY <2>4, <2>5, <2>6
<1> HIDE DEF M
<1>8. << >> \in W[0]
  <2>1. << >> \in Seq(S) /\ Len(<< >>) = 0 /\ DOMAIN << >> = {}
    BY EmptySeq
  <2>2. Runs(<< >>, w, S, place)
    BY <1>1, <2>1 DEF Runs
  <2>3. w * 0 = 0 /\ 0 \in 0..M
    BY <1>2, <1>7
  <2> QED
    BY <1>2, <2>1, <2>2, <2>3
<1>9. ASSUME NEW m \in 1..M, NEW d \in W[m - 1]
      PROVE  d \in Seq(S) /\ joined(d, m) \in W[m] /\ G[m][d] = joined(d, m)
  <2> DEFINE c == w * (m - 1)
  <2>1. m - 1 \in 0..M /\ m \in 0..M /\ m - 1 \in Nat
    BY <1>7
  <2>2. c \in Nat /\ c \in Starts(w) /\ c < n
    BY <1>5, <1>7, <2>1
  <2>3. d \in Seq(S) /\ Runs(d, w, S, place) /\ Len(d) = c
    BY <1>2, <2>1, <2>2
  <2> DEFINE both == Merge(Run(list, c, z), Run(list, c + z, z))
  <2>4. joined(d, m) = d \o both
    OBVIOUS
  <2>5. w * m = c + w
    BY <1>2, <2>1, SMT
  <2>6. G[m][d] = joined(d, m)
    BY <2>3
  <2> HIDE DEF c, G, joined
  <2>7. Rounding(list, d, c, z, S, place)
    BY <1>6, <2>2, <2>3 DEF Rounding, n
  <2>8. both = Merge(Run(list, c, z), Run(list, c + z, z))
    OBVIOUS
  <2> HIDE DEF both
  <2>9. /\ Runs(d \o both, 2 * z, S, place)
        /\ Len(d \o both) = IF c + 2 * z <= Len(list) THEN c + 2 * z ELSE Len(list)
    BY <2>7, <2>8, PairMerged
  <2> DEFINE e == d \o both
  <2>10. Runs(e, w, S, place) /\ Len(e) = IF w * m <= n THEN w * m ELSE n
    BY <1>6, <2>5, <2>9 DEF n
  <2>11. e \in Seq(S)
    BY <2>10 DEF Runs
  <2> HIDE DEF e
  <2>12. e \in W[m]
    BY <2>1, <2>10, <2>11
  <2> QED
    BY <2>3, <2>4, <2>6, <2>12 DEF e
<1> HIDE DEF joined
<1>10. \E f : f = Body(f)
  <2>1. \E f : Stages(f, M, W, << >>, G)
    <3> HIDE DEF W, G
    <3>1. \A m \in 1..M : \A d \in W[m - 1] : G[m][d] \in W[m]
      BY <1>9
    <3> QED
      BY <1>7, <1>8, <3>1, StagesExist
  <2>2. PICK f : Stages(f, M, W, << >>, G)
    BY <2>1
  <2>3. f = [m \in 0..M |-> IF m = 0 THEN << >> ELSE G[m][f[m - 1]]] /\ \A m \in 0..M : f[m] \in W[m]
    BY <2>2 DEF Stages
  <2> HIDE DEF W
  <2>4. ASSUME NEW m \in 1..M PROVE G[m][f[m - 1]] = joined(f[m - 1], m)
    <3>1. m - 1 \in 0..M
      BY <1>7
    <3>2. f[m - 1] \in W[m - 1]
      BY <2>3, <3>1
    <3> QED
      BY <1>9, <3>2
  <2>5. f = [m \in 0..M |-> IF m = 0 THEN << >> ELSE joined(f[m - 1], m)]
    <3> HIDE DEF G
    <3>1. \A m \in 0..M : m # 0 => m \in 1..M
      BY <1>7
    <3>2. \A m \in 0..M : (IF m = 0 THEN << >> ELSE G[m][f[m - 1]])
                           = (IF m = 0 THEN << >> ELSE joined(f[m - 1], m))
      BY <2>4, <3>1
    <3>3. [m \in 0..M |-> IF m = 0 THEN << >> ELSE G[m][f[m - 1]]]
           = [m \in 0..M |-> IF m = 0 THEN << >> ELSE joined(f[m - 1], m)]
      BY <3>2
    <3> QED
      BY <2>3, <3>3
  <2>6. f = Body(f)
    BY <1>4, <2>5
  <2> QED
    BY <2>6
<1>11. done = Body(done)
  BY <1>10
<1> HIDE DEF done
<1>12. done = [m \in 0..M |-> IF m = 0 THEN << >> ELSE joined(done[m - 1], m)]
  BY <1>4, <1>11
<1>13. \A m \in 0..M : done[m] \in W[m]
  <2> HIDE DEF W, G
  <2>1. ASSUME NEW m \in 1..M, done[m - 1] \in W[m - 1] PROVE done[m] \in W[m]
    <3>1. done[m] = joined(done[m - 1], m)
      BY <1>7, <1>12
    <3> QED
      BY <1>9, <2>1, <3>1
  <2>2. \A m \in 1..M : done[m - 1] \in W[m - 1] => done[m] \in W[m]
    BY <2>1
  <2>3. done[0] \in W[0]
    BY <1>7, <1>8, <1>12
  <2> QED
    BY <1>7, <2>2, <2>3, StagesHold
<1>14. Runs(done[M], w, S, place) /\ Len(done[M]) = IF w * M <= n THEN w * M ELSE n
  BY <1>7, <1>13
<1>15. w * M \in Nat
  BY <1>5, <1>7
<1>16. Len(done[M]) = n
  <2> DEFINE t == w * M
  <2>1. t \in Nat /\ t >= n /\ Len(done[M]) = IF t <= n THEN t ELSE n
    BY <1>7, <1>14, <1>15
  <2> HIDE DEF t
  <2> QED
    BY <1>2, <2>1
<1> QED
  BY <1>3, <1>6, <1>14, <1>16 DEF n

LEMMA PowerAbove ==
  ASSUME NEW n \in Nat
  PROVE  2^n > n
<1> DEFINE A == {k \in Nat : 2^k > k}
<1>1. 0 \in A
  <2>1. 2^0 = 1
    BY SMT
  <2> QED
    BY <2>1
<1>2. ASSUME NEW k \in A \cap Nat PROVE k + 1 \in A
  <2>1. 2^k \in Nat \ {0} /\ 2^(k + 1) = 2 * 2^k
    BY PowerOfTwo
  <2> DEFINE p == 2^k
  <2>2. p \in Nat /\ p > k /\ 2^(k + 1) = 2 * p
    BY <2>1
  <2> HIDE DEF p
  <2>3. 2^(k + 1) > k + 1
    BY <2>2
  <2> QED
    BY <2>3
<1> HIDE DEF A
<1>3. Nat \subseteq A
  BY <1>1, <1>2, NatClosed
<1> QED
  BY <1>3 DEF A

LEMMA RightPower ==
  ASSUME NEW n \in Nat \ {0}
  PROVE  LET K == CHOOSE k \in 1..n : 2^k >= n /\ (k = 1 \/ 2^(k - 1) < n)
         IN K \in 1..n /\ 2^K >= n
<1> DEFINE T == {k \in 1..n : 2^k >= n}
<1>1. \A k \in Nat : 2^k \in Nat
  BY PowerOfTwo
<1>2. T # {} /\ T \subseteq Nat
  <2>1. 2^n > n /\ 2^n \in Nat
    BY <1>1, PowerAbove
  <2> QED
    BY <2>1
<1>3. PICK k \in T : \A y \in T : k <= y
  <2> HIDE DEF T
  <2> QED
    BY <1>2, NatHasLeast
<1>4. k \in 1..n /\ 2^k >= n
  BY <1>3
<1>5. k = 1 \/ 2^(k - 1) < n
  <2> SUFFICES ASSUME k # 1, ~(2^(k - 1) < n) PROVE FALSE
    OBVIOUS
  <2>1. k - 1 \in 1..n /\ k - 1 \in Nat
    BY <1>4
  <2>2. 2^(k - 1) \in Nat
    BY <1>1, <2>1
  <2>3. k - 1 \in T
    BY <2>1, <2>2
  <2> HIDE DEF T
  <2>4. k <= k - 1
    BY <1>3, <2>3
  <2> QED
    BY <1>4, <2>4
<1>6. \E x \in 1..n : 2^x >= n /\ (x = 1 \/ 2^(x - 1) < n)
  BY <1>4, <1>5
<1> QED
  BY <1>6

(* HASH_SRT sorts, equal elements as they were, and loses none.            *)
LEMMA SortedRises ==
  ASSUME NEW list \in Seq(Elements), IsInjective(list), list # << >>,
         NEW place, \A i \in DOMAIN list : place[list[i]] = i
  PROVE  /\ Sorted(list) \in Seq(Elements) /\ Len(Sorted(list)) = Len(list)
         /\ IsInjective(Sorted(list)) /\ ToSet(Sorted(list)) = ToSet(list)
         /\ Rising(Sorted(list), place)
<1> DEFINE n == Len(list)
<1> DEFINE S == ToSet(list)
<1> DEFINE W == [k \in 0..n |-> {l \in Seq(S) : Runs(l, 2^k, S, place) /\ Len(l) = n}]
<1> DEFINE round(l, k) == Round(l, 2^(k - 1))
<1> DEFINE G == [k \in 1..n |-> [l \in Seq(S) |-> round(l, k)]]
<1> DEFINE Body(f) == [k \in 0..n |-> IF k = 0 THEN list ELSE Round(f[k - 1], 2^(k - 1))]
<1> DEFINE after == CHOOSE f : f = Body(f)
<1> DEFINE K == CHOOSE k \in 1..n : 2^k >= n /\ (k = 1 \/ 2^(k - 1) < n)
<1> DEFINE last == after[K]
<1>1. n \in Nat \ {0} /\ DOMAIN list = 1..n
  BY LenProperties, EmptySeq
<1>2. /\ S \in SUBSET Elements /\ list \in Seq(S) /\ IsFiniteSet(S) /\ Cardinality(S) = n
      /\ \A e \in S : place[e] \in Int
  <2>1. \A i \in 1..n : list[i] \in S
    BY <1>1 DEF ToSet
  <2>2. list \in Seq(S)
    BY <1>1, <2>1
  <2>3. \A e \in S : \E i \in DOMAIN list : e = list[i]
    BY DEF ToSet
  <2>4. \A i \in 1..n : list[i] \in Elements
    BY <1>1, ElementOfSeq
  <2>5. IsFiniteSet(S) /\ Cardinality(S) = n
    BY InjectiveLength
  <2> HIDE DEF S
  <2> QED
    BY <1>1, <2>2, <2>3, <2>4, <2>5
<1>3. Sorted(list) = last
  BY DEF Sorted
<1>4. \A f : Body(f) = [k \in 0..n |-> IF k = 0 THEN list ELSE round(f[k - 1], k)]
  OBVIOUS
<1> HIDE DEF n, S, Body
<1>5. \A i \in 1..n : place[list[i]] = i
  BY <1>1
<1>6. list \in W[0]
  <2>1. 2^0 = 1 /\ 0 \in 0..n
    BY <1>1, SMT
  <2>2. ASSUME NEW c \in Starts(1), NEW i \in DOMAIN list, Within(c, 1, i)
        PROVE  Within(c, 1, place[list[i]]) /\ i = c + 1
    <3>1. PICK q \in Nat : c = q * 1
      BY DEF Starts
    <3>2. i \in Nat /\ c < i /\ i <= c + 1 /\ c \in Nat
      BY <1>1, <2>2, <3>1 DEF Within
    <3> QED
      BY <1>1, <1>5, <2>2, <3>2
  <2>3. ASSUME NEW c \in Starts(1), NEW i \in DOMAIN list, NEW j \in DOMAIN list,
               Within(c, 1, i), Within(c, 1, j), i < j
        PROVE  FALSE
    <3>1. i = c + 1 /\ j = c + 1
      BY <2>2, <2>3
    <3>2. i \in Nat /\ i = j
      BY <1>1, <3>1
    <3> QED
      BY <2>3, <3>2
  <2>4. Runs(list, 1, S, place)
    BY <1>2, <2>2, <2>3 DEF Runs
  <2>5. list \in Seq(S) /\ Runs(list, 2^0, S, place) /\ Len(list) = n
    BY <1>2, <2>1, <2>4 DEF n
  <2> QED
    BY <2>1, <2>5
<1>7. ASSUME NEW k \in 1..n, NEW l \in W[k - 1]
      PROVE  l \in Seq(S) /\ round(l, k) \in W[k] /\ G[k][l] = round(l, k)
  <2>1. k - 1 \in 0..n /\ k \in 0..n /\ k - 1 \in Nat /\ (k - 1) + 1 = k
    BY <1>1
  <2> DEFINE z == 2^(k - 1)
  <2>2. z \in Nat \ {0} /\ 2^k = 2 * z
    BY <2>1, PowerOfTwo
  <2>3. l \in Seq(S) /\ Runs(l, z, S, place) /\ Len(l) = n
    BY <2>1
  <2>4. G[k][l] = round(l, k) /\ round(l, k) = Round(l, z)
    BY <2>3
  <2> HIDE DEF z, G, round
  <2>5. Runs(Round(l, z), 2 * z, S, place) /\ Len(Round(l, z)) = Len(l)
    BY <2>2, <2>3, RoundRises
  <2> DEFINE e == Round(l, z)
  <2>6. e \in Seq(S) /\ Runs(e, 2^k, S, place) /\ Len(e) = n
    BY <2>2, <2>3, <2>5 DEF Runs
  <2> HIDE DEF e
  <2>7. e \in W[k]
    BY <2>1, <2>6
  <2> QED
    BY <2>3, <2>4, <2>7 DEF e
<1> HIDE DEF round
<1>8. \E f : f = Body(f)
  <2>1. \E f : Stages(f, n, W, list, G)
    <3> HIDE DEF W, G
    <3>1. \A k \in 1..n : \A l \in W[k - 1] : G[k][l] \in W[k]
      BY <1>7
    <3> QED
      BY <1>1, <1>6, <3>1, StagesExist
  <2>2. PICK f : Stages(f, n, W, list, G)
    BY <2>1
  <2>3. f = [k \in 0..n |-> IF k = 0 THEN list ELSE G[k][f[k - 1]]] /\ \A k \in 0..n : f[k] \in W[k]
    BY <2>2 DEF Stages
  <2> HIDE DEF W
  <2>4. ASSUME NEW k \in 1..n PROVE G[k][f[k - 1]] = round(f[k - 1], k)
    <3>1. k - 1 \in 0..n
      BY <1>1
    <3>2. f[k - 1] \in W[k - 1]
      BY <2>3, <3>1
    <3> QED
      BY <1>7, <3>2
  <2>5. f = [k \in 0..n |-> IF k = 0 THEN list ELSE round(f[k - 1], k)]
    <3> HIDE DEF G
    <3>1. \A k \in 0..n : k # 0 => k \in 1..n
      BY <1>1
    <3>2. \A k \in 0..n : (IF k = 0 THEN list ELSE G[k][f[k - 1]])
                           = (IF k = 0 THEN list ELSE round(f[k - 1], k))
      BY <2>4, <3>1
    <3>3. [k \in 0..n |-> IF k = 0 THEN list ELSE G[k][f[k - 1]]]
           = [k \in 0..n |-> IF k = 0 THEN list ELSE round(f[k - 1], k)]
      BY <3>2
    <3> QED
      BY <2>3, <3>3
  <2>6. f = Body(f)
    BY <1>4, <2>5
  <2> QED
    BY <2>6
<1>9. after = Body(after)
  BY <1>8
<1> HIDE DEF after
<1>10. after = [k \in 0..n |-> IF k = 0 THEN list ELSE round(after[k - 1], k)]
  BY <1>4, <1>9
<1>11. \A k \in 0..n : after[k] \in W[k]
  <2> HIDE DEF W, G
  <2>1. ASSUME NEW k \in 1..n, after[k - 1] \in W[k - 1] PROVE after[k] \in W[k]
    <3>1. after[k] = round(after[k - 1], k)
      BY <1>1, <1>10
    <3> QED
      BY <1>7, <2>1, <3>1
  <2>2. \A k \in 1..n : after[k - 1] \in W[k - 1] => after[k] \in W[k]
    BY <2>1
  <2>3. after[0] \in W[0]
    BY <1>1, <1>6, <1>10
  <2> QED
    BY <1>1, <2>2, <2>3, StagesHold
<1>12. K \in 1..n /\ 2^K >= n
  BY <1>1, RightPower
<1> HIDE DEF K
<1>13. last \in Seq(S) /\ Runs(last, 2^K, S, place) /\ Len(last) = n
  <2>1. K \in 0..n
    BY <1>1, <1>12
  <2>2. last \in W[K]
    BY <1>11, <2>1
  <2> QED
    BY <2>1, <2>2
<1> HIDE DEF last
<1>14. DOMAIN last = 1..n /\ \A i \in 1..n : last[i] \in S
  BY <1>13, LenProperties, ElementOfSeq
<1>15. Rising(last, place)
  <2> DEFINE z == 2^K
  <2>1. z \in Nat /\ z >= n
    BY <1>1, <1>12, PowerOfTwo
  <2> HIDE DEF z
  <2>2. 0 \in Starts(z)
    BY <2>1 DEF Starts
  <2>3. \A i \in DOMAIN last : Within(0, z, i)
    BY <1>1, <1>14, <2>1 DEF Within
  <2>4. Runs(last, z, S, place)
    BY <1>13 DEF z
  <2> QED
    BY <2>2, <2>3, <2>4 DEF Runs, Rising
<1>16. IsInjective(last)
  <2> SUFFICES ASSUME NEW i \in DOMAIN last, NEW j \in DOMAIN last, last[i] = last[j], i # j PROVE FALSE
    BY DEF IsInjective
  <2>1. last[i] \in S /\ i \in Nat /\ j \in Nat
    BY <1>1, <1>14
  <2>2. Precedes(last[i], last[i], place)
    BY <1>15, <2>1 DEF Rising
  <2> QED
    BY <1>2, <2>1, <2>2, PrecedesOrders
<1>17. ToSet(last) = S
  <2>1. ToSet(last) \subseteq S
    BY <1>14 DEF ToSet
  <2>2. Cardinality(ToSet(last)) = n
    BY <1>13, <1>16, InjectiveLength
  <2> QED
    BY <1>2, <2>1, <2>2, FS_Subset
<1>18. last \in Seq(Elements)
  <2>1. \A i \in 1..n : last[i] \in Elements
    BY <1>2, <1>14
  <2> QED
    BY <1>13, <1>14, <2>1, SeqDef
<1> QED
  BY <1>3, <1>13, <1>15, <1>16, <1>17, <1>18 DEF n, S

(* The links HASH_SRT writes.                                              *)
Relinked(links, list) ==
  LET place == [e \in ToSet(list) |-> CHOOSE i \in 1..Len(list) : list[i] = e]
  IN [e \in Elements |->
       IF e \notin ToSet(list) THEN links[e]
       ELSE [links[e] EXCEPT !.prev = IF place[e] = 1 THEN NoElem ELSE list[place[e] - 1],
                             !.next = IF place[e] = Len(list) THEN NoElem ELSE list[place[e] + 1]]]

LEMMA RelinkedListed ==
  ASSUME NEW links \in Links, NEW list \in Seq(Elements), IsInjective(list), list # << >>
  PROVE  /\ Relinked(links, list) \in Links
         /\ Listed(list, list[1], list[Len(list)], Relinked(links, list))
         /\ ChainBack(Relinked(links, list)) = ChainBack(links)
         /\ ChainLink(Relinked(links, list)) = ChainLink(links)
<1> DEFINE n == Len(list)
<1> DEFINE place == [e \in ToSet(list) |-> CHOOSE i \in 1..n : list[i] = e]
<1> DEFINE links2 == Relinked(links, list)
<1>1. n \in Nat \ {0} /\ DOMAIN list = 1..n
  BY LenProperties, EmptySeq
<1>2. \A i \in 1..n : list[i] \in Elements /\ list[i] \in ToSet(list)
  BY <1>1, ElementOfSeq DEF ToSet
<1>3. ASSUME NEW i \in 1..n PROVE place[list[i]] = i
  <2>1. \A j \in 1..n : list[j] = list[i] => j = i
    BY <1>1 DEF IsInjective
  <2>2. (CHOOSE j \in 1..n : list[j] = list[i]) = i
    BY <2>1
  <2> QED
    BY <1>2, <2>2
<1>4. ASSUME NEW e \in ToSet(list) PROVE place[e] \in 1..n /\ list[place[e]] = e
  <2>1. PICK i \in 1..n : e = list[i]
    BY <1>1 DEF ToSet
  <2> QED
    BY <1>3, <2>1
<1>5. \A e \in Elements :
        links2[e] = IF e \notin ToSet(list) THEN links[e]
                    ELSE [links[e] EXCEPT !.prev = IF place[e] = 1 THEN NoElem ELSE list[place[e] - 1],
                                          !.next = IF place[e] = n THEN NoElem ELSE list[place[e] + 1]]
  BY DEF Relinked
<1>6. links2 = [e \in Elements |-> links2[e]]
  BY DEF Relinked
<1> HIDE DEF place, links2, n
<1>7. ASSUME NEW e \in Elements
      PROVE  /\ links2[e] \in [prev : Pointers, next : Pointers, hhPrev : Pointers, hhNext : Pointers]
             /\ links2[e].hhPrev = links[e].hhPrev /\ links2[e].hhNext = links[e].hhNext
             /\ e \in ToSet(list) => links2[e].prev = At(list, place[e] - 1) /\ links2[e].next = At(list, place[e] + 1)
  <2>1. links[e] \in [prev : Pointers, next : Pointers, hhPrev : Pointers, hhNext : Pointers]
    BY DEF Links
  <2>2. CASE e \notin ToSet(list)
    BY <1>5, <2>1, <2>2
  <2>3. CASE e \in ToSet(list)
    <3> DEFINE before == IF place[e] = 1 THEN NoElem ELSE list[place[e] - 1]
    <3> DEFINE then == IF place[e] = n THEN NoElem ELSE list[place[e] + 1]
    <3>1. before = At(list, place[e] - 1) /\ then = At(list, place[e] + 1)
      BY <1>1, <1>4, <2>3 DEF At
    <3>2. before \in Pointers /\ then \in Pointers
      BY <1>1, <1>2, <3>1 DEF At, Pointers
    <3>3. links2[e] = [links[e] EXCEPT !.prev = before, !.next = then]
      BY <1>5, <2>3
    <3> HIDE DEF before, then
    <3> QED
      BY <2>1, <3>1, <3>2, <3>3
  <2> QED
    BY <2>2, <2>3
<1>8. links2 \in Links
  BY <1>6, <1>7 DEF Links
<1>9. ChainBack(links2) = ChainBack(links) /\ ChainLink(links2) = ChainLink(links)
  BY <1>7 DEF ChainBack, ChainLink
<1>10. ASSUME NEW i \in 1..n
       PROVE  OrderBack(links2)[list[i]] = At(list, i - 1) /\ OrderLink(links2)[list[i]] = At(list, i + 1)
  <2>1. list[i] \in Elements /\ list[i] \in ToSet(list) /\ place[list[i]] = i
    BY <1>2, <1>3
  <2> QED
    BY <1>7, <2>1 DEF OrderBack, OrderLink
<1>11. list[1] = At(list, 1) /\ list[n] = At(list, n)
  BY <1>1 DEF At
<1>12. Strung(list, list[1], OrderBack(links2), OrderLink(links2))
  BY <1>1, <1>10, <1>11 DEF Strung
<1> QED
  BY <1>8, <1>9, <1>11, <1>12 DEF Listed, links2, n

\* What Sort assigns, with the sorted list named once.
LEMMA SortSets ==
  ASSUME Sort
  PROVE  LET list == Sorted(AppOrder)
         IN head' = list[1] /\ tbl' = [tbl EXCEPT !.tail = list[Len(list)]] /\ hh' = Relinked(hh, list)
<1> DEFINE list == Sorted(AppOrder)
<1>1. head' = list[1]
  BY Zenon DEF Sort
<1>2. tbl' = [tbl EXCEPT !.tail = list[Len(list)]]
  BY Zenon DEF Sort
<1>3. hh' = Relinked(hh, list)
  BY Zenon DEF Sort, Relinked
<1> QED
  BY <1>1, <1>2, <1>3

LEMMA SortStep ==
  ASSUME NEW order, Holds(Here, order), Sort
  PROVE  order # << >> /\ Holds(Here', Sorted(order))
<1> DEFINE list == Sorted(order)
<1> DEFINE end == list[Len(list)]
<1> DEFINE s == Here'
<1>1. AppOrder = order /\ order \in Seq(Elements) /\ IsInjective(order) /\ (head = NoElem <=> order = << >>)
  BY HoldsOrder
<1>2. order # << >>
  BY <1>1 DEF Sort
<1>3. PICK chains, n : Laid(order, chains, n, Here)
  BY DEF Holds
<1>4. /\ TableHas(n, chains, tbl, hh, ToSet(order), Len(order), tbl.tail, hh)
      /\ KeysDiffer(ToSet(order)) /\ Roomy(n, tbl)
  BY <1>2, <1>3, HereFields DEF Laid
<1>5. /\ n \in Nat \ {0} /\ tbl \in Tables(n) /\ hh \in Links
      /\ Spread(chains, tbl.buckets, n, hh, ToSet(order)) /\ tbl.items = Len(order)
  BY <1>4 DEF TableHas
<1>6. list \in Seq(Elements) /\ Len(list) = Len(order) /\ IsInjective(list) /\ ToSet(list) = ToSet(order)
      /\ list # << >>
  <2> DEFINE place == [e \in ToSet(order) |-> CHOOSE i \in DOMAIN order : order[i] = e]
  <2>1. ASSUME NEW i \in DOMAIN order PROVE place[order[i]] = i
    <3>1. order[i] \in ToSet(order)
      BY DEF ToSet
    <3>2. \A j \in DOMAIN order : order[j] = order[i] => j = i
      BY <1>1 DEF IsInjective
    <3>3. (CHOOSE j \in DOMAIN order : order[j] = order[i]) = i
      BY <3>2
    <3> QED
      BY <3>1, <3>3
  <2>2. \A i \in DOMAIN order : place[order[i]] = i
    BY <2>1
  <2> HIDE DEF place
  <2>3. list \in Seq(Elements) /\ Len(list) = Len(order) /\ IsInjective(list) /\ ToSet(list) = ToSet(order)
    BY <1>1, <1>2, <2>2, SortedRises
  <2> QED
    BY <1>1, <1>2, <2>3, EmptySeq
<1>7. s.head = list[1] /\ s.tbl = [tbl EXCEPT !.tail = end] /\ s.links = Relinked(hh, list)
  <2>1. head' = list[1] /\ tbl' = [tbl EXCEPT !.tail = end] /\ hh' = Relinked(hh, list)
    <3>1. list = Sorted(AppOrder)
      BY <1>1
    <3> HIDE DEF list, end
    <3>2. head' = list[1] /\ tbl' = [tbl EXCEPT !.tail = list[Len(list)]] /\ hh' = Relinked(hh, list)
      BY <3>1, SortSets
    <3> QED
      BY <3>2 DEF end
  <2>2. s.head = head' /\ s.tbl = tbl' /\ s.links = hh'
    BY DEF Here
  <2> QED
    BY <2>1, <2>2
<1> HIDE DEF list, s
<1>8. /\ Relinked(hh, list) \in Links
      /\ Listed(list, list[1], list[Len(list)], Relinked(hh, list))
      /\ ChainBack(Relinked(hh, list)) = ChainBack(hh)
      /\ ChainLink(Relinked(hh, list)) = ChainLink(hh)
  BY <1>5, <1>6, RelinkedListed
<1>9. end \in Pointers
  BY <1>6, LenProperties, EmptySeq, ElementOfSeq DEF Pointers
<1> HIDE DEF end
<1> DEFINE t2 == s.tbl
<1>10. /\ t2 \in Tables(n) /\ t2.tail = end /\ t2.items = tbl.items /\ t2.buckets = tbl.buckets
       /\ t2.noexpand = tbl.noexpand
  BY <1>5, <1>7, <1>9 DEF Tables
<1>11. Roomy(n, t2)
  BY <1>4, <1>10 DEF Roomy, Rooms
<1>12. Spread(chains, t2.buckets, n, s.links, ToSet(list))
  <2> DEFINE bs == tbl.buckets
  <2> DEFINE links2 == Relinked(hh, list)
  <2> DEFINE members == ToSet(order)
  <2>1. Spread(chains, bs, n, hh, members) /\ ChainBack(links2) = ChainBack(hh) /\ ChainLink(links2) = ChainLink(hh)
    BY <1>5, <1>8
  <2> HIDE DEF bs, links2, members
  <2>2. Spread(chains, bs, n, links2, members)
    BY <2>1, SpreadKept
  <2> QED
    BY <1>6, <1>7, <1>10, <2>2 DEF bs, links2, members
<1>13. Listed(list, s.head, s.tbl.tail, s.links)
  BY <1>7, <1>8, <1>10 DEF end
<1>14. TableHas(n, chains, s.tbl, s.links, ToSet(list), Len(list), s.tbl.tail, s.links)
  BY <1>5, <1>6, <1>7, <1>8, <1>10, <1>12 DEF TableHas
<1>15. Laid(list, chains, n, s)
  BY <1>4, <1>6, <1>7, <1>8, <1>11, <1>13, <1>14 DEF Laid
<1> QED
  BY <1>2, <1>15 DEF Holds, list, s
-----------------------------------------------------------------------------
(***************************************************************************)
(* The ordered table that HashTable implements, step by step.              *)
(***************************************************************************)
\* The instance has copies of the library's operators; they are the same.
LEMMA SameSet ==
  ASSUME NEW s
  PROVE  Ordered!ToSet(s) = ToSet(s)
  BY DEF Ordered!ToSet, ToSet

LEMMA SameInsert ==
  ASSUME NEW s, NEW i, NEW e
  PROVE  Ordered!InsertAt(s, i, e) = InsertAt(s, i, e)
  BY DEF Ordered!InsertAt, InsertAt

LEMMA SameRemove ==
  ASSUME NEW s, NEW i
  PROVE  Ordered!RemoveAt(s, i) = RemoveAt(s, i)
  BY DEF Ordered!RemoveAt, RemoveAt

LEMMA MembersAre ==
  ASSUME NEW order, AppOrder = order
  PROVE  Ordered!Members = ToSet(order)
  BY SameSet DEF Ordered!Members

LEMMA FirstRemoved ==
  ASSUME NEW order \in Seq(Elements), IsInjective(order), NEW p \in DOMAIN order
  PROVE  Ordered!RemoveFirst(order, order[p]) = RemoveAt(order, p)
<1>1. Len(order) \in Nat /\ DOMAIN order = 1..Len(order)
  BY LenProperties
<1> DEFINE I == {i \in 1..Len(order) : order[i] = order[p]}
<1>2. I = {p}
  BY <1>1 DEF IsInjective
<1>3. Ordered!SelectInSeq(order, LAMBDA v : v = order[p]) = p
  <2>1. Ordered!SelectInSeq(order, LAMBDA v : v = order[p]) = IF I # {} THEN Ordered!Min(I) ELSE 0
    BY DEF Ordered!SelectInSeq
  <2>2. Ordered!Min({p}) = p
    BY <1>1 DEF Ordered!Min
  <2> QED
    BY <1>2, <2>1, <2>2
<1>4. \E i \in 1..Len(order) : order[i] = order[p]
  BY <1>1
<1> QED
  BY <1>3, <1>4, SameRemove DEF Ordered!RemoveFirst

LEMMA NoneRemoved ==
  ASSUME NEW order \in Seq(Elements), NEW e, e \notin ToSet(order)
  PROVE  Ordered!RemoveFirst(order, e) = order
<1>1. DOMAIN order = 1..Len(order)
  BY LenProperties
<1> QED
  BY <1>1 DEF Ordered!RemoveFirst, ToSet

(* What the abstract table calls a lookup, when the list has the key.      *)
LEMMA LookupHits ==
  ASSUME NEW order, AppOrder = order, KeysDiffer(ToSet(order)), NEW d \in ToSet(order)
  PROVE  Ordered!Lookup(Key[d]) = d
<1>1. \A e \in ToSet(order) : Key[e] = Key[d] => e = d
  BY DEF KeysDiffer
<1>2. (CHOOSE e \in ToSet(order) : Key[e] = Key[d]) = d
  BY <1>1
<1> QED
  BY <1>2, MembersAre DEF Ordered!Lookup

LEMMA LookupMisses ==
  ASSUME NEW order, AppOrder = order, NEW k, \A d \in ToSet(order) : Key[d] # k
  PROVE  Ordered!Lookup(k) = NoElem
  BY MembersAre DEF Ordered!Lookup

LEMMA AppendRefines ==
  ASSUME NEW order, AppOrder = order, NEW e \in Elements, \A d \in ToSet(order) : Key[d] # Key[e],
         AppOrder' = Append(order, e)
  PROVE  Ordered!OTAdd
<1>1. Ordered!Lookup(Key[e]) = NoElem
  BY LookupMisses
<1> QED
  BY <1>1 DEF Ordered!OTAdd

LEMMA InsertRefines ==
  ASSUME NEW order, AppOrder = order, NEW e \in Elements, \A d \in ToSet(order) : Key[d] # Key[e],
         Greater(order, e) # {}, AppOrder' = InsertAt(order, Above(order, e), e)
  PROVE  Ordered!OTAdd
<1>1. Ordered!Lookup(Key[e]) = NoElem
  BY LookupMisses
<1>2. Ordered!Placed(order, e) = InsertAt(order, Above(order, e), e)
  BY SameInsert, Zenon DEF Ordered!Placed, Above, Greater
<1> QED
  BY <1>1, <1>2 DEF Ordered!OTAdd

LEMMA RemoveRefines ==
  ASSUME NEW order \in Seq(Elements), AppOrder = order, IsInjective(order), NEW p \in DOMAIN order,
         AppOrder' = RemoveAt(order, p)
  PROVE  Ordered!OTRemove
<1>1. Ordered!Without(order[p]) = RemoveAt(order, p)
  BY FirstRemoved DEF Ordered!Without
<1>2. order[p] \in Ordered!Members
  BY MembersAre DEF ToSet
<1> QED
  BY <1>1, <1>2 DEF Ordered!OTRemove

LEMMA ReplaceRefines ==
  ASSUME NEW order \in Seq(Elements), AppOrder = order, IsInjective(order), KeysDiffer(ToSet(order)),
         NEW e \in Elements, e \notin ToSet(order),
         \/ /\ \A d \in ToSet(order) : Key[d] # Key[e]
            /\ AppOrder' = Append(order, e)
         \/ \E p \in DOMAIN order : /\ Key[order[p]] = Key[e]
                                    /\ AppOrder' = Append(RemoveAt(order, p), e)
  PROVE  Ordered!OTReplace
<1>1. e \in Elements \ Ordered!Members
  BY MembersAre
<1>2. CASE (\A d \in ToSet(order) : Key[d] # Key[e]) /\ AppOrder' = Append(order, e)
  <2>1. Ordered!Lookup(Key[e]) = NoElem
    BY <1>2, LookupMisses
  <2>2. NoElem \notin ToSet(order)
    BY HashTableAssumption, ElementOfSeq, LenProperties DEF ToSet
  <2>3. Ordered!Without(NoElem) = order
    BY <2>2, NoneRemoved DEF Ordered!Without
  <2> QED
    BY <1>1, <1>2, <2>1, <2>3 DEF Ordered!OTReplace
<1>3. CASE \E p \in DOMAIN order : Key[order[p]] = Key[e] /\ AppOrder' = Append(RemoveAt(order, p), e)
  <2>1. PICK p \in DOMAIN order : Key[order[p]] = Key[e] /\ AppOrder' = Append(RemoveAt(order, p), e)
    BY <1>3
  <2>2. order[p] \in ToSet(order)
    BY DEF ToSet
  <2>3. Ordered!Lookup(Key[order[p]]) = order[p]
    BY <2>2, LookupHits
  <2>4. Ordered!Without(order[p]) = RemoveAt(order, p)
    BY FirstRemoved DEF Ordered!Without
  <2> QED
    BY <1>1, <2>1, <2>3, <2>4 DEF Ordered!OTReplace
<1> QED
  BY <1>2, <1>3

LEMMA SortRefines ==
  ASSUME NEW order \in Seq(Elements), AppOrder = order, IsInjective(order), order # << >>,
         AppOrder' = Sorted(order)
  PROVE  Ordered!OTSort
<1> DEFINE place == [e \in ToSet(order) |-> CHOOSE i \in DOMAIN order : order[i] = e]
<1> DEFINE list == Sorted(order)
<1>1. ASSUME NEW i \in DOMAIN order PROVE place[order[i]] = i
  <2>1. order[i] \in ToSet(order)
    BY DEF ToSet
  <2>2. \A j \in DOMAIN order : order[j] = order[i] => j = i
    BY DEF IsInjective
  <2>3. (CHOOSE j \in DOMAIN order : order[j] = order[i]) = i
    BY <2>2
  <2> QED
    BY <2>1, <2>3
<1>2. \A i \in DOMAIN order : place[order[i]] = i
  BY <1>1
<1>3. \A e \in ToSet(order) : place[e] = Ordered!Place(e)
  BY DEF Ordered!Place
<1> HIDE DEF place
<1>4. list \in Seq(Elements) /\ Len(list) = Len(order) /\ ToSet(list) = ToSet(order) /\ Rising(list, place)
  BY <1>2, SortedRises
<1>5. AppOrder' = list
  OBVIOUS
<1> HIDE DEF list
<1>6. DOMAIN list = DOMAIN order
  BY <1>4, LenProperties
<1>7. ASSUME NEW i \in DOMAIN order, NEW j \in DOMAIN order, i < j
      PROVE  Ordered!Before(list[i], list[j])
  <2>1. Precedes(list[i], list[j], place)
    BY <1>4, <1>6, <1>7 DEF Rising
  <2>2. list[i] \in ToSet(order) /\ list[j] \in ToSet(order)
    BY <1>4, <1>6 DEF ToSet
  <2> QED
    BY <1>3, <2>1, <2>2 DEF Precedes, Ordered!Before
<1>8. Ordered!Members = ToSet(order) /\ Ordered!ToSet(list) = ToSet(order)
  BY <1>4, MembersAre, SameSet
<1>9. \A i, j \in DOMAIN order : i < j => Ordered!Before(list[i], list[j])
  BY <1>7
<1> QED
  BY <1>4, <1>5, <1>8, <1>9 DEF Ordered!OTSort

-----------------------------------------------------------------------------
(***************************************************************************)
(* The invariant, and what it gives.                                       *)
(***************************************************************************)
LEMMA InitHolds == HTInit => Holds(Here, << >>)
<1> SUFFICES ASSUME HTInit PROVE Holds(Here, << >>)
  OBVIOUS
<1>1. hh \in Links
  BY DEF HTInit, NoLinks, Links, Pointers
<1>2. Here.head = NoElem /\ Here.tbl = FreedTable /\ Here.links = hh
  BY HereFields DEF HTInit
<1> DEFINE s == Here
<1>3. s.head = NoElem /\ s.tbl = FreedTable /\ s.links \in Links
  BY <1>1, <1>2
<1> HIDE DEF s
<1>4. << >> \in Seq(Elements)
  OBVIOUS
<1>5. Laid(<< >>, 0, 0, s)
  BY <1>3, <1>4 DEF Laid
<1> QED
  BY <1>5 DEF Holds, s

\* A step leads from a list to a list, as the ordered table would go.
Follows(order) == (\E order2 : Holds(Here', order2)) /\ Ordered!OTNext

LEMMA StepFollows ==
  ASSUME NEW order, Holds(Here, order), HTNext
  PROVE  Follows(order)
<1>1. AppOrder = order /\ order \in Seq(Elements) /\ IsInjective(order) /\ KeysDiffer(ToSet(order))
  BY HoldsOrder
<1>2. ASSUME NEW e \in Elements, e \notin ToSet(order), Add(e) PROVE Follows(order)
  <2> DEFINE order2 == Append(order, e)
  <2>1. (\A d \in ToSet(order) : Key[d] # Key[e]) /\ Holds(Here', order2)
    BY <1>2, AddStep
  <2>2. AppOrder' = order2
    BY <2>1, HoldsNext
  <2>3. Ordered!OTAdd
    BY <1>1, <2>1, <2>2, AppendRefines
  <2> QED
    BY <2>1, <2>3 DEF Follows, Ordered!OTNext
<1>3. ASSUME NEW e \in Elements, e \notin ToSet(order), AddInOrder(e) PROVE Follows(order)
  <2> DEFINE order2 == InsertAt(order, Above(order, e), e)
  <2>1. /\ \A d \in ToSet(order) : Key[d] # Key[e]
        /\ Greater(order, e) # {} /\ Holds(Here', order2)
    BY <1>3, AddInOrderStep
  <2>2. AppOrder' = order2
    BY <2>1, HoldsNext
  <2>3. Ordered!OTAdd
    BY <1>1, <2>1, <2>2, InsertRefines
  <2> QED
    BY <2>1, <2>3 DEF Follows, Ordered!OTNext
<1>4. ASSUME NEW e \in Elements, e \notin ToSet(order), Replace(e) PROVE Follows(order)
  <2>1. \/ /\ \A d \in ToSet(order) : Key[d] # Key[e]
           /\ Holds(Here', Append(order, e))
        \/ \E p \in DOMAIN order : /\ Key[order[p]] = Key[e]
                                   /\ Holds(Here', Append(RemoveAt(order, p), e))
    BY <1>4, ReplaceStep
  <2>2. \E order2 : Holds(Here', order2)
    BY <2>1
  <2>3. \/ /\ \A d \in ToSet(order) : Key[d] # Key[e]
           /\ AppOrder' = Append(order, e)
        \/ \E p \in DOMAIN order : /\ Key[order[p]] = Key[e]
                                   /\ AppOrder' = Append(RemoveAt(order, p), e)
    BY <2>1, HoldsNext
  <2>4. Ordered!OTReplace
    BY <1>1, <1>4, <2>3, ReplaceRefines
  <2> QED
    BY <2>2, <2>4 DEF Follows, Ordered!OTNext
<1>5. ASSUME NEW e \in ToSet(order), Delete(e) PROVE Follows(order)
  <2>1. PICK p \in DOMAIN order : order[p] = e
    BY DEF ToSet
  <2> DEFINE order2 == RemoveAt(order, p)
  <2>2. Holds(Here', order2)
    BY <1>5, <2>1, DeleteStep
  <2>3. AppOrder' = order2
    BY <2>2, HoldsNext
  <2>4. Ordered!OTRemove
    BY <1>1, <2>3, RemoveRefines
  <2> QED
    BY <2>2, <2>4 DEF Follows, Ordered!OTNext
<1>6. ASSUME DeleteAll \/ Clear PROVE Follows(order)
  <2>1. hh \in Links
    BY HereFields DEF Holds, Laid
  <2>2. Holds(Here', << >>)
    BY <1>6, <2>1, DeleteAllStep, ClearStep
  <2>3. AppOrder' = << >>
    BY <2>2, HoldsNext
  <2> QED
    BY <2>2, <2>3 DEF Follows, Ordered!OTNext, Ordered!OTEmpty
<1>7. ASSUME Sort PROVE Follows(order)
  <2> DEFINE order2 == Sorted(order)
  <2>1. order # << >> /\ Holds(Here', order2)
    BY <1>7, SortStep
  <2>2. AppOrder' = order2
    BY <2>1, HoldsNext
  <2>3. Ordered!OTSort
    BY <1>1, <2>1, <2>2, SortRefines
  <2> QED
    BY <2>1, <2>3 DEF Follows, Ordered!OTNext
<1>8. \/ \E e \in Elements : e \notin ToSet(order) /\ (Add(e) \/ AddInOrder(e) \/ Replace(e))
      \/ \E e \in ToSet(order) : Delete(e)
      \/ DeleteAll \/ Clear \/ Sort
  BY <1>1 DEF HTNext
<1> QED
  BY <1>2, <1>3, <1>4, <1>5, <1>6, <1>7, <1>8

LEMMA StutterKeeps ==
  ASSUME HTInv, UNCHANGED htVars
  PROVE  HTInv' /\ UNCHANGED AppOrder
<1>1. Here' = Here
  BY DEF htVars, Here
<1>2. AppOrder' = AppOrder
  BY DEF htVars, AppOrder, Walk, OrderLink
<1>3. PICK order : Holds(Here, order)
  BY DEF HTInv
<1>4. Holds(Here', order)
  BY <1>1, <1>3
<1> QED
  BY <1>2, <1>4 DEF HTInv

LEMMA StepKeeps == HTInv /\ [HTNext]_htVars => HTInv' /\ [Ordered!OTNext]_AppOrder
<1> SUFFICES ASSUME HTInv, [HTNext]_htVars PROVE HTInv' /\ [Ordered!OTNext]_AppOrder
  OBVIOUS
<1>1. CASE UNCHANGED htVars
  BY <1>1, StutterKeeps
<1>2. CASE HTNext
  <2>1. PICK order : Holds(Here, order)
    BY DEF HTInv
  <2>2. Follows(order)
    BY <1>2, <2>1, StepFollows
  <2>3. HTInv'
    BY <2>2 DEF Follows, HTInv
  <2> QED
    BY <2>2, <2>3 DEF Follows
<1> QED
  BY <1>1, <1>2

(* At every moment the variables hold a list: the application order is     *)
(* strung in both directions from the head to the tail, the chains of the  *)
(* buckets hold its elements between them, each in the bucket of its hash, *)
(* the counts are the lengths, and no key is there twice.                  *)
THEOREM TableInvHolds == HTSpec => []HTInv
<1>1. HTInit => HTInv
  BY InitHolds DEF HTInv
<1>2. HTInv /\ [HTNext]_htVars => HTInv'
  BY StepKeeps
<1> QED
  BY <1>1, <1>2, PTL DEF HTSpec

(* Whatever was added, replaced, deleted, sorted and moved to new buckets, *)
(* every check of HASH_FSCK passes.                                        *)
THEOREM FsckHolds == HTSpec => []Fsck
  BY TableInvHolds, InvFsck, PTL

(* A lookup finds exactly the element an iteration meets under the key:    *)
(* find_metric and HASH_ITER never disagree.                               *)
THEOREM FindsHold == HTSpec => []FindsWhatIterates
  BY TableInvHolds, InvFinds, PTL

(* While the table may still expand, no chain grows beyond twice the       *)
(* threshold its bucket has been granted.                                  *)
THEOREM BoundHolds == HTSpec => []ChainsBounded
  BY TableInvHolds, InvBounded, PTL

(* The linked, hashed, expanding table is an ordered table: an addition    *)
(* appends or goes before the first greater element, a removal removes one *)
(* and keeps the order of the rest, HASH_SRT's merge sort sorts and leaves *)
(* equal elements as they were.                                            *)
THEOREM TableImplements == HTSpec => ImplementsOrderedTable
<1>1. HTInit => Ordered!OTInit
  BY InitHolds, HoldsOrder DEF Ordered!OTInit
<1>2. HTInv /\ [HTNext]_htVars => [Ordered!OTNext]_AppOrder
  BY StepKeeps
<1> QED
  BY <1>1, <1>2, TableInvHolds, PTL DEF HTSpec, ImplementsOrderedTable, Ordered!OTSpec
=============================================================================
