----------------------------- MODULE DataLemmas -----------------------------
(***************************************************************************)
(* What the proofs about the components need to know of data: induction on *)
(* natural numbers; functions defined stage by stage; sequences without    *)
(* repetition, such as the lists of metrics and of finalize callbacks      *)
(* (adding at the end, removing anywhere, removing the last); folds, by    *)
(* their partial results; extremes; sums and products; the rank of a       *)
(* member in a set of numbers; division, numbers of two digits, powers of  *)
(* two and words of bits.                                                  *)
(*                                                                         *)
(* The library's induction rules take a predicate as a parameter, and no   *)
(* prover here can instantiate that.  A predicate is a set in what follows:*)
(* a set of natural numbers without least element is empty, so one that    *)
(* has 0 and with each number the next has all of them.                    *)
(***************************************************************************)
EXTENDS Integers, SequencesExt, SequenceTheorems, FiniteSetTheorems, WellFoundedInduction, TLAPS

(* The least element of a set of natural numbers. *)
LEMMA NatHasLeast ==
  ASSUME NEW T, T \subseteq Nat, T # {}
  PROVE  \E x \in T : \A y \in T : x <= y
<1>1. \E x \in T : \A y \in T : ~(y < x)
  <2>1. IsWellFoundedOn(OpToRel(<, Nat), Nat)
    BY NatLessThanWellFounded
  <2>2. \E x \in T : \A y \in T : ~(<<y, x>> \in OpToRel(<, Nat))
    BY <2>1, WFMin
  <2> QED
    BY <2>2 DEF OpToRel
<1> QED
  BY <1>1

(* Induction: all natural numbers are in a set closed under successor. *)
LEMMA NatClosed ==
  ASSUME NEW A, 0 \in A, \A n \in A \cap Nat : n + 1 \in A
  PROVE  Nat \subseteq A
<1> SUFFICES ASSUME Nat \ A # {} PROVE FALSE
  OBVIOUS
<1>1. PICK m \in Nat \ A : \A y \in Nat \ A : m <= y
  BY NatHasLeast
<1>2. m # 0 /\ m - 1 \in Nat /\ m - 1 \in A
  BY <1>1
<1> QED
  BY <1>1, <1>2

(* Removing one place: HASH_DEL from the table, a pop of a callback. *)
LEMMA RemoveAtProperties ==
  ASSUME NEW S, NEW s \in Seq(S), NEW i \in 1 .. Len(s)
  PROVE  /\ RemoveAt(s, i) \in Seq(S)
         /\ Len(RemoveAt(s, i)) = Len(s) - 1
         /\ \A j \in 1 .. Len(s) - 1 :
              RemoveAt(s, i)[j] = IF j < i THEN s[j] ELSE s[j + 1]
<1> DEFINE a == SubSeq(s, 1, i - 1)
<1> DEFINE z == SubSeq(s, i + 1, Len(s))
<1>1. Len(s) \in Nat /\ i \in Nat /\ 1 <= i /\ i <= Len(s)
  BY LenProperties
<1>2. /\ a \in Seq(S)
      /\ Len(a) = i - 1
      /\ \A j \in 1 .. i - 1 : a[j] = s[j]
  BY <1>1, SubSeqProperties, ElementOfSeq
<1>3. /\ z \in Seq(S)
      /\ Len(z) = Len(s) - i
      /\ \A j \in 1 .. Len(s) - i : z[j] = s[i + j]
  BY <1>1, SubSeqProperties, ElementOfSeq
<1> HIDE DEF a, z
<1>4. /\ a \o z \in Seq(S)
      /\ Len(a \o z) = Len(s) - 1
      /\ \A j \in 1 .. Len(s) - 1 : (a \o z)[j] = IF j < i THEN s[j] ELSE s[j + 1]
  <2>1. /\ a \o z \in Seq(S)
        /\ Len(a \o z) = Len(a) + Len(z)
        /\ \A j \in 1 .. Len(a) + Len(z) :
             (a \o z)[j] = IF j <= Len(a) THEN a[j] ELSE z[j - Len(a)]
    BY <1>2, <1>3, ConcatProperties
  <2>2. ASSUME NEW j \in 1 .. Len(s) - 1
        PROVE  (a \o z)[j] = IF j < i THEN s[j] ELSE s[j + 1]
    <3>1. CASE j < i
      BY <1>1, <1>2, <1>3, <2>1, <3>1
    <3>2. CASE ~(j < i)
      <4>1. (a \o z)[j] = z[j - (i - 1)] /\ j - (i - 1) \in 1 .. Len(s) - i
        BY <1>1, <1>2, <1>3, <2>1, <3>2
      <4>2. z[j - (i - 1)] = s[i + (j - (i - 1))]
        BY <1>3, <4>1
      <4>3. i + (j - (i - 1)) = j + 1
        BY <1>1
      <4> QED
        BY <3>2, <4>1, <4>2, <4>3
    <3> QED
      BY <3>1, <3>2
  <2> QED
    BY <1>1, <1>2, <1>3, <2>1, <2>2
<1> QED
  BY <1>4 DEF RemoveAt, a, z

(* A new element at the end. *)
LEMMA AppendSet ==
  ASSUME NEW S, NEW s \in Seq(S), NEW e \in S
  PROVE  /\ Append(s, e) \in Seq(S)
         /\ ToSet(Append(s, e)) = ToSet(s) \cup {e}
         /\ IsInjective(s) /\ e \notin ToSet(s) => IsInjective(Append(s, e))
<1>1. /\ Append(s, e) \in Seq(S) /\ Len(s) \in Nat
      /\ DOMAIN s = 1 .. Len(s) /\ DOMAIN Append(s, e) = 1 .. Len(s) + 1
      /\ \A i \in 1 .. Len(s) : Append(s, e)[i] = s[i]
      /\ Append(s, e)[Len(s) + 1] = e
  BY AppendProperties, LenProperties
<1>2. ToSet(Append(s, e)) = ToSet(s) \cup {e}
  BY <1>1 DEF ToSet
<1>3. IsInjective(s) /\ e \notin ToSet(s) => IsInjective(Append(s, e))
  BY <1>1 DEF ToSet, IsInjective
<1> QED
  BY <1>1, <1>2, <1>3

(* One element less, the others kept once each. *)
LEMMA RemoveSet ==
  ASSUME NEW S, NEW s \in Seq(S), IsInjective(s), NEW i \in DOMAIN s
  PROVE  /\ RemoveAt(s, i) \in Seq(S)
         /\ ToSet(RemoveAt(s, i)) = ToSet(s) \ {s[i]}
         /\ IsInjective(RemoveAt(s, i))
<1> DEFINE t == RemoveAt(s, i)
<1>1. /\ Len(s) \in Nat /\ DOMAIN s = 1 .. Len(s) /\ i \in 1 .. Len(s)
      /\ t \in Seq(S) /\ DOMAIN t = 1 .. Len(s) - 1
      /\ \A j \in 1 .. Len(s) - 1 : t[j] = IF j < i THEN s[j] ELSE s[j + 1]
  BY RemoveAtProperties, LenProperties
<1> HIDE DEF t
<1>2. ASSUME NEW j \in DOMAIN t PROVE t[j] \in ToSet(s) \ {s[i]}
  BY <1>1, <1>2 DEF ToSet, IsInjective
<1>3. ASSUME NEW j \in DOMAIN s, s[j] # s[i] PROVE s[j] \in ToSet(t)
  <2>1. CASE j < i
    BY <1>1, <2>1 DEF ToSet
  <2>2. CASE j > i
    <3>1. j - 1 \in DOMAIN t /\ t[j - 1] = s[j]
      BY <1>1, <2>2
    <3> QED
      BY <3>1 DEF ToSet
  <2> QED
    BY <1>1, <1>3, <2>1, <2>2
<1>4. ToSet(t) = ToSet(s) \ {s[i]}
  BY <1>2, <1>3 DEF ToSet
<1>5. IsInjective(t)
  <2> SUFFICES ASSUME NEW j \in DOMAIN t, NEW k \in DOMAIN t, t[j] = t[k] PROVE j = k
    BY DEF IsInjective
  <2> DEFINE at(n) == IF n < i THEN n ELSE n + 1
  <2>1. /\ t[j] = s[at(j)] /\ at(j) \in DOMAIN s
        /\ t[k] = s[at(k)] /\ at(k) \in DOMAIN s
    BY <1>1
  <2>2. at(j) = at(k)
    BY <2>1 DEF IsInjective
  <2> QED
    BY <1>1, <2>2
<1> QED
  BY <1>1, <1>4, <1>5 DEF t

(* The last element taken off. *)
LEMMA FrontSet ==
  ASSUME NEW S, NEW s \in Seq(S), IsInjective(s), s # << >>
  PROVE  /\ Last(s) \in ToSet(s) /\ Front(s) \in Seq(S)
         /\ ToSet(Front(s)) = ToSet(s) \ {Last(s)}
         /\ IsInjective(Front(s))
<1>1. /\ Len(s) \in Nat \ {0} /\ DOMAIN s = 1 .. Len(s)
      /\ Last(s) = s[Len(s)]
  BY EmptySeq, LenProperties DEF Last
<1>2. /\ Front(s) \in Seq(S) /\ DOMAIN Front(s) = 1 .. Len(s) - 1
      /\ \A j \in 1 .. Len(s) - 1 : Front(s)[j] = s[j]
  BY <1>1, SubSeqProperties, LenProperties DEF Front
<1> HIDE DEF Front
<1>3. ToSet(Front(s)) = ToSet(s) \ {Last(s)} /\ Last(s) \in ToSet(s)
  BY <1>1, <1>2 DEF ToSet, IsInjective
<1>4. IsInjective(Front(s))
  BY <1>1, <1>2 DEF IsInjective
<1> QED
  BY <1>2, <1>3, <1>4

-----------------------------------------------------------------------------
(***************************************************************************)
(* Folds.  FoldLeft of SequencesExt goes through the places of a sequence  *)
(* from the last to the first, as the recursive function on sets of places *)
(* of Folds.  FoldExists gives such a function for a step G, and FoldValue *)
(* says that whatever satisfies the recursion holds, for the places up to  *)
(* k, the k-th intermediate result.  G[k][v] is the result after place k   *)
(* when v is the one before it.                                            *)
(***************************************************************************)
Folds(it, n, V, b, G) ==
  /\ it \in [SUBSET (1..n) -> V]
  /\ it = [t \in SUBSET (1..n) |-> IF t = {} THEN b ELSE G[Max(t)][it[t \ {Max(t)}]]]

Partials(part, n, V, b, G, value) ==
  /\ part \in [0..n -> V]
  /\ part[0] = b /\ part[n] = value
  /\ \A k \in 1..n : part[k] = G[k][part[k - 1]]

LEMMA MaxMember ==
  ASSUME NEW n \in Nat, NEW t \in SUBSET (1..n), t # {}
  PROVE  Max(t) \in t /\ \A x \in t : x <= Max(t)
<1> DEFINE gap == {d \in 0..n : n - d \in t}
<1>1. PICK x \in t : TRUE
  OBVIOUS
<1>2. gap # {} /\ gap \in SUBSET Nat
  <2>1. n - x \in 0..n /\ n - (n - x) = x
    BY <1>1
  <2>2. n - x \in gap
    BY <1>1, <2>1, Zenon
  <2>3. gap \in SUBSET Nat
    OBVIOUS
  <2> QED
    BY <2>2, <2>3, Zenon
<1>3. PICK d \in gap : \A e \in gap : d <= e
  <2> HIDE DEF gap
  <2> QED
    BY <1>2, NatHasLeast
<1>4. \A y \in t : y <= n - d
  <2> SUFFICES ASSUME NEW y \in t PROVE y <= n - d
    OBVIOUS
  <2>1. n - y \in gap
    <3>1. n - y \in 0..n /\ n - (n - y) = y
      OBVIOUS
    <3> QED
      BY <3>1
  <2>2. d <= n - y
    BY <1>3, <2>1
  <2> QED
    BY <1>3, <2>2
<1>5. n - d \in t /\ \A y \in t : n - d >= y
  BY <1>3, <1>4
<1> HIDE DEF gap
<1> QED
  BY <1>5 DEF Max

LEMMA FoldExists ==
  ASSUME NEW n \in Nat, NEW V, NEW b \in V, NEW G \in [1..n -> [V -> V]]
  PROVE  \E it : Folds(it, n, V, b, G)
<1> DEFINE Fits(it, m) ==
      \A t \in SUBSET (1..m) : it[t] = IF t = {} THEN b ELSE G[Max(t)][it[t \ {Max(t)}]]
<1> DEFINE A == {m \in Nat : m <= n => \E it \in [SUBSET (1..m) -> V] : Fits(it, m)}
<1>1. 0 \in A
  <2> DEFINE it == [t \in SUBSET (1..0) |-> b]
  <2>1. it \in [SUBSET (1..0) -> V] /\ Fits(it, 0)
    OBVIOUS
  <2> QED
    BY <2>1
<1>2. ASSUME NEW m \in A PROVE m + 1 \in A
  <2>1. m \in Nat /\ m + 1 \in Nat
    OBVIOUS
  <2> SUFFICES ASSUME m + 1 <= n
               PROVE  \E it \in [SUBSET (1..m + 1) -> V] : Fits(it, m + 1)
    <3> HIDE DEF Fits
    <3> QED
      BY <2>1, Zenon
  <2>2. PICK less \in [SUBSET (1..m) -> V] : Fits(less, m)
    <3>1. m <= n
      BY <2>1
    <3> HIDE DEF Fits
    <3> QED
      BY <3>1, Zenon
  <2> DEFINE it == [t \in SUBSET (1..m + 1) |->
                     IF m + 1 \in t THEN G[m + 1][less[t \ {m + 1}]] ELSE less[t]]
  <2>3. ASSUME NEW t \in SUBSET (1..m + 1), m + 1 \in t
        PROVE  /\ t \ {m + 1} \in SUBSET (1..m) /\ Max(t) = m + 1
               /\ it[t] = G[m + 1][less[t \ {m + 1}]] /\ it[t] \in V
               /\ it[t \ {m + 1}] = less[t \ {m + 1}]
    <3>1. t \ {m + 1} \in SUBSET (1..m)
      BY <2>1
    <3>2. Max(t) = m + 1
      <4>1. t # {}
        BY <2>3
      <4>2. Max(t) \in t /\ \A x \in t : x <= Max(t)
        BY <2>1, <4>1, MaxMember, Zenon
      <4>3. Max(t) \in 1..m + 1 /\ m + 1 <= Max(t)
        BY <2>3, <4>2
      <4> QED
        BY <2>1, <4>3
    <3>3. it[t] = G[m + 1][less[t \ {m + 1}]]
      BY <2>3
    <3>4. less[t \ {m + 1}] \in V /\ m + 1 \in 1..n
      BY <2>1, <3>1
    <3>5. it[t \ {m + 1}] = less[t \ {m + 1}]
      BY <2>1
    <3> QED
      BY <3>1, <3>2, <3>3, <3>4, <3>5
  <2>4. ASSUME NEW t \in SUBSET (1..m + 1), m + 1 \notin t
        PROVE  t \in SUBSET (1..m) /\ it[t] = less[t] /\ it[t] \in V
    <3>1. t \in SUBSET (1..m)
      BY <2>1, <2>4
    <3> QED
      BY <2>4, <3>1
  <2>5. it \in [SUBSET (1..m + 1) -> V]
    <3>1. \A t \in SUBSET (1..m + 1) : it[t] \in V
      BY <2>3, <2>4
    <3>2. it = [t \in SUBSET (1..m + 1) |-> it[t]]
      OBVIOUS
    <3> HIDE DEF it
    <3> QED
      BY <3>1, <3>2
  <2>6. ASSUME NEW t \in SUBSET (1..m + 1)
        PROVE  it[t] = IF t = {} THEN b ELSE G[Max(t)][it[t \ {Max(t)}]]
    <3>1. CASE m + 1 \in t
      <4> HIDE DEF it
      <4> QED
        BY <2>3, <3>1
    <3>2. CASE m + 1 \notin t
      <4>1. t \in SUBSET (1..m) /\ it[t] = less[t]
        BY <2>4, <3>2
      <4>2. t # {} => it[t \ {Max(t)}] = less[t \ {Max(t)}]
        BY <2>4, <3>2
      <4>3. less[t] = IF t = {} THEN b ELSE G[Max(t)][less[t \ {Max(t)}]]
        BY <2>2, <4>1
      <4> HIDE DEF it
      <4> QED
        BY <4>1, <4>2, <4>3
    <3> QED
      BY <3>1, <3>2
  <2> HIDE DEF it
  <2> QED
    BY <2>5, <2>6
<1>3. n \in A
  <2>1. Nat \subseteq A
    <3> HIDE DEF A
    <3> QED
      BY <1>1, <1>2, NatClosed
  <2> HIDE DEF A
  <2> QED
    BY <2>1
<1>4. PICK it \in [SUBSET (1..n) -> V] : Fits(it, n)
  <2>1. n <= n
    OBVIOUS
  <2> HIDE DEF Fits
  <2> QED
    BY <1>3, <2>1, Zenon
<1> QED
  BY <1>4 DEF Folds

LEMMA FoldValue ==
  ASSUME NEW n \in Nat, NEW V, NEW b \in V, NEW G \in [1..n -> [V -> V]],
         NEW it, it[{}] = b,
         \A t \in SUBSET (1..n) :
           t # {} /\ it[t \ {Max(t)}] \in V => it[t] = G[Max(t)][it[t \ {Max(t)}]]
  PROVE  \E part : Partials(part, n, V, b, G, it[1..n])
<1> DEFINE part == [k \in 0..n |-> it[1..k]]
<1>1. part[0] = b
  <2>1. 1..0 = {}
    OBVIOUS
  <2> QED
    BY <2>1
<1>2. ASSUME NEW k \in 1..n, part[k - 1] \in V
      PROVE  part[k] = G[k][part[k - 1]] /\ part[k] \in V
  <2>1. 1..k \in SUBSET (1..n) /\ 1..k # {} /\ (1..k) \ {k} = 1..k - 1 /\ k - 1 \in 0..n
    OBVIOUS
  <2>2. Max(1..k) = k
    <3>1. k \in Nat /\ 1..k \in SUBSET (1..k)
      OBVIOUS
    <3>2. Max(1..k) \in 1..k /\ \A x \in 1..k : x <= Max(1..k)
      BY <2>1, <3>1, MaxMember, Zenon
    <3>3. Max(1..k) \in 1..k /\ k <= Max(1..k)
      BY <3>2
    <3> QED
      BY <3>3
  <2>3. it[(1..k) \ {k}] = part[k - 1]
    BY <2>1
  <2>4. it[1..k] = G[k][part[k - 1]]
    BY <1>2, <2>1, <2>2, <2>3
  <2>5. G[k][part[k - 1]] \in V
    BY <1>2
  <2> QED
    BY <2>4, <2>5
<1> DEFINE A == {k \in Nat : k <= n => part[k] \in V}
<1>3. Nat \subseteq A
  <2>1. 0 \in A
    BY <1>1
  <2>2. ASSUME NEW k \in A PROVE k + 1 \in A
    <3>1. k \in Nat /\ (k + 1 <= n => k + 1 \in 1..n /\ part[k] \in V)
      OBVIOUS
    <3>2. k + 1 <= n => part[k + 1] \in V
      <4> HIDE DEF part, A
      <4>1. (k + 1) - 1 = k
        BY <3>1
      <4> QED
        BY <1>2, <3>1, <4>1
    <3> HIDE DEF part
    <3> QED
      BY <3>1, <3>2
  <2> HIDE DEF A
  <2> QED
    BY <2>1, <2>2, NatClosed
<1>4. \A k \in 0..n : part[k] \in V
  <2> HIDE DEF part
  <2> QED
    BY <1>3
<1>5. part \in [0..n -> V] /\ part[n] = it[1..n]
  BY <1>4
<1>6. \A k \in 1..n : part[k] = G[k][part[k - 1]]
  <2> HIDE DEF part, A
  <2> QED
    BY <1>2, <1>4
<1> HIDE DEF part
<1> QED
  BY <1>1, <1>5, <1>6 DEF Partials

-----------------------------------------------------------------------------
(* The largest and the smallest of the elements of a sequence and a number
   beside them. *)
LEMMA SequenceMaxMin ==
  ASSUME NEW s \in Seq(Int), NEW from \in Int
  PROVE  LET T == ToSet(s) \cup {from} IN
         /\ T \in SUBSET Int
         /\ Max(T) \in T /\ \A x \in T : x <= Max(T)
         /\ Min(T) \in T /\ \A x \in T : Min(T) <= x
<1> DEFINE T == ToSet(s) \cup {from}
<1> DEFINE P(k) == {s[i] : i \in 1 .. k} \cup {from}
<1> DEFINE A == {k \in Nat : k <= Len(s) =>
                   /\ \E hi \in P(k) : \A x \in P(k) : x <= hi
                   /\ \E lo \in P(k) : \A x \in P(k) : lo <= x}
<1>1. Len(s) \in Nat /\ \A i \in 1 .. Len(s) : s[i] \in Int
  BY LenProperties, ElementOfSeq
<1>2. 0 \in A
  <2>1. P(0) = {from}
    OBVIOUS
  <2>2. \E hi \in P(0) : \A x \in P(0) : x <= hi
    BY <2>1
  <2>3. \E lo \in P(0) : \A x \in P(0) : lo <= x
    BY <2>1
  <2> HIDE DEF P
  <2> QED
    BY <2>2, <2>3
<1>3. ASSUME NEW k \in A \cap Nat PROVE k + 1 \in A
  <2> SUFFICES ASSUME k + 1 <= Len(s)
               PROVE  /\ \E hi \in P(k + 1) : \A x \in P(k + 1) : x <= hi
                      /\ \E lo \in P(k + 1) : \A x \in P(k + 1) : lo <= x
    <3>1. k + 1 \in Nat
      OBVIOUS
    <3> HIDE DEF P
    <3> QED
      BY <3>1, Zenon
  <2>1. /\ P(k + 1) = P(k) \cup {s[k + 1]} /\ P(k) \subseteq Int /\ s[k + 1] \in Int
    BY <1>1
  <2>2. k <= Len(s)
    BY <1>1
  <2>3. PICK hi \in P(k) : \A x \in P(k) : x <= hi
    <3> HIDE DEF P
    <3> QED
      BY <2>2, Zenon
  <2>4. PICK lo \in P(k) : \A x \in P(k) : lo <= x
    <3> HIDE DEF P
    <3> QED
      BY <2>2, Zenon
  <2> HIDE DEF P
  <2>5. \E h \in P(k + 1) : \A x \in P(k + 1) : x <= h
    <3>1. CASE hi <= s[k + 1]
      BY <2>1, <2>3, <3>1
    <3>2. CASE s[k + 1] <= hi
      BY <2>1, <2>3, <3>2
    <3> QED
      BY <2>1, <3>1, <3>2
  <2>6. \E l \in P(k + 1) : \A x \in P(k + 1) : l <= x
    <3>1. CASE lo <= s[k + 1]
      BY <2>1, <2>4, <3>1
    <3>2. CASE s[k + 1] <= lo
      BY <2>1, <2>4, <3>2
    <3> QED
      BY <2>1, <3>1, <3>2
  <2> QED
    BY <2>5, <2>6
<1>4. Len(s) \in A
  <2>1. Nat \subseteq A
    <3> HIDE DEF A
    <3> QED
      BY <1>2, <1>3, NatClosed
  <2> HIDE DEF A
  <2> QED
    BY <1>1, <2>1
<1>5. P(Len(s)) = T /\ T \in SUBSET Int
  BY <1>1, LenProperties DEF ToSet
<1>6. /\ \E hi \in T : \A x \in T : x <= hi
      /\ \E lo \in T : \A x \in T : lo <= x
  <2>1. Len(s) <= Len(s)
    BY <1>1
  <2> HIDE DEF P, T
  <2> QED
    BY <1>4, <1>5, <2>1
<1> HIDE DEF P, A, T
<1>7. Max(T) \in T /\ \A x \in T : x <= Max(T)
  BY <1>5, <1>6 DEF Max
<1>8. Min(T) \in T /\ \A x \in T : Min(T) <= x
  BY <1>5, <1>6 DEF Min
<1> QED
  BY <1>5, <1>7, <1>8 DEF T

(* What a sequence has at its first places is not changed at its end. *)
LEMMA PrefixKept ==
  ASSUME NEW S, NEW s \in Seq(S), NEW e \in S, NEW k \in 0 .. Len(s)
  PROVE  /\ SubSeq(Append(s, e), 1, k) = SubSeq(s, 1, k)
         /\ SubSeq(s, 1, Len(s)) = s
         /\ DOMAIN SubSeq(s, 1, k) = 1 .. k
         /\ \A i \in 1 .. k : SubSeq(s, 1, k)[i] = s[i]
<1>1. Len(s) \in Nat /\ DOMAIN s = 1 .. Len(s) /\ s = [i \in 1 .. Len(s) |-> s[i]]
  BY LenProperties
<1>2. /\ Append(s, e) \in Seq(S) /\ Len(Append(s, e)) = Len(s) + 1
      /\ \A i \in 1 .. k : Append(s, e)[i] = s[i]
  BY <1>1, AppendProperties
<1>3. SubSeq(s, 1, k) = [i \in 1 .. k |-> s[i]]
  BY <1>1
<1>4. SubSeq(Append(s, e), 1, k) = [i \in 1 .. k |-> s[i]]
  BY <1>1, <1>2
<1>5. SubSeq(s, 1, Len(s)) = s
  <2>1. SubSeq(s, 1, Len(s)) = [i \in 1 .. Len(s) |-> s[i]]
    BY <1>1
  <2> QED
    BY <1>1, <2>1, Zenon
<1> QED
  BY <1>3, <1>4, <1>5

-----------------------------------------------------------------------------
(* Division by a positive number, and the powers of two.                    *)
LEMMA DivMod ==
  ASSUME NEW a \in Int, NEW b \in Nat \ {0}
  PROVE  /\ a \div b \in Int /\ a % b \in 0 .. b - 1
         /\ a = b * (a \div b) + (a % b)
  BY SMT

LEMMA DivModUnique ==
  ASSUME NEW a \in Int, NEW b \in Nat \ {0}, NEW q \in Int, NEW r \in 0 .. b - 1,
         a = b * q + r
  PROVE  a \div b = q /\ a % b = r
  BY SMT

LEMMA PowerOfTwo ==
  ASSUME NEW n \in Nat
  PROVE  2^n \in Nat \ {0} /\ 2^(n + 1) = 2 * 2^n
<1> DEFINE S == SUBSET (1 .. n)
<1> DEFINE T == {U \cup {n + 1} : U \in S}
<1>1. /\ IsFiniteSet(S) /\ Cardinality(S) = 2^n
      /\ Cardinality(SUBSET (1 .. n + 1)) = 2^(n + 1)
  <2>1. /\ IsFiniteSet(1 .. n) /\ Cardinality(1 .. n) = n
        /\ IsFiniteSet(1 .. n + 1) /\ Cardinality(1 .. n + 1) = n + 1
    BY FS_Interval
  <2> QED
    BY <2>1, FS_SUBSET
<1>2. SUBSET (1 .. n + 1) = S \cup T /\ S \cap T = {}
  <2>1. ASSUME NEW V \in SUBSET (1 .. n + 1) PROVE V \in S \cup T
    <3>1. V \ {n + 1} \in S
      OBVIOUS
    <3>2. n + 1 \in V => V = (V \ {n + 1}) \cup {n + 1}
      OBVIOUS
    <3>3. n + 1 \notin V => V = V \ {n + 1}
      OBVIOUS
    <3> QED
      BY <3>1, <3>2, <3>3
  <2>2. ASSUME NEW U \in S PROVE U \in SUBSET (1 .. n + 1) /\ U \cup {n + 1} \in SUBSET (1 .. n + 1)
    OBVIOUS
  <2>3. ASSUME NEW U \in S PROVE n + 1 \notin U
    OBVIOUS
  <2>4. SUBSET (1 .. n + 1) \subseteq S \cup T
    BY <2>1, Zenon
  <2>5. S \cup T \subseteq SUBSET (1 .. n + 1)
    <3>1. ASSUME NEW W \in T PROVE W \in SUBSET (1 .. n + 1)
      <4>1. PICK U \in S : W = U \cup {n + 1}
        BY <3>1, Zenon
      <4> QED
        BY <2>2, <4>1, Zenon
    <3>2. ASSUME NEW W \in S PROVE W \in SUBSET (1 .. n + 1)
      BY <2>2, <3>2, Zenon
    <3> HIDE DEF S, T
    <3> QED
      BY <3>1, <3>2
  <2>6. S \cap T = {}
    <3> SUFFICES ASSUME NEW W \in S, W \in T PROVE FALSE
      BY Zenon
    <3>1. n + 1 \in W
      BY Zenon
    <3> QED
      BY <2>3, <3>1, Zenon
  <2> HIDE DEF S, T
  <2> QED
    BY <2>4, <2>5, <2>6, Zenon
<1>3. IsFiniteSet(T) /\ Cardinality(T) = Cardinality(S)
  <2> DEFINE f == [U \in S |-> U \cup {n + 1}]
  <2>1. f \in Bijection(S, T)
    <3>1. f \in [S -> T]
      OBVIOUS
    <3>2. \A U, V \in S : f[U] = f[V] => U = V
      <4> SUFFICES ASSUME NEW U \in S, NEW V \in S, f[U] = f[V] PROVE U = V
        OBVIOUS
      <4>1. n + 1 \notin U /\ n + 1 \notin V
        OBVIOUS
      <4> QED
        BY <4>1
    <3>3. \A W \in T : \E U \in S : f[U] = W
      OBVIOUS
    <3> HIDE DEF f, S, T
    <3> QED
      BY <3>1, <3>2, <3>3 DEF Bijection, Injection, Surjection, IsInjective
  <2>2. ExistsBijection(S, T)
    BY <2>1 DEF ExistsBijection
  <2> QED
    BY <1>1, <2>2, FS_Bijection
<1>4. Cardinality(SUBSET (1 .. n + 1)) = Cardinality(S) + Cardinality(T)
  <2> HIDE DEF S, T
  <2>1. Cardinality(S \cup T) = Cardinality(S) + Cardinality(T) - Cardinality(S \cap T)
    BY <1>1, <1>3, FS_Union, Zenon
  <2>2. Cardinality(S \cap T) = 0 /\ Cardinality(S) \in Nat
    BY <1>1, <1>2, FS_EmptySet, FS_CardinalityType, Zenon
  <2>3. Cardinality(SUBSET (1 .. n + 1)) = Cardinality(S \cup T)
    BY <1>2, Zenon
  <2> QED
    BY <1>3, <2>1, <2>2, <2>3
<1>5. Cardinality(S) \in Nat /\ Cardinality(S) # 0
  <2>1. {} \in S
    OBVIOUS
  <2> HIDE DEF S
  <2> QED
    BY <1>1, <2>1, FS_EmptySet, FS_CardinalityType
<1> HIDE DEF S, T
<1> QED
  BY <1>1, <1>3, <1>4, <1>5

(* Two words with the same bits are the same. *)
LEMMA SameBits ==
  ASSUME NEW w \in Nat, NEW x \in 0 .. 2^w - 1, NEW y \in 0 .. 2^w - 1,
         \A i \in 0 .. w - 1 : (x \div 2^i) % 2 = (y \div 2^i) % 2
  PROVE  x = y
<1> DEFINE Same(u, v, n) == \A i \in 0 .. n - 1 : (u \div 2^i) % 2 = (v \div 2^i) % 2
<1> DEFINE A == {n \in Nat : \A u, v \in 0 .. 2^n - 1 : Same(u, v, n) => u = v}
<1>1. 0 \in A
  <2>1. 2^0 = 1
    BY SMT
  <2>2. \A u, v \in 0 .. 2^0 - 1 : u = v
    BY <2>1
  <2> HIDE DEF Same
  <2> QED
    BY <2>2
<1>2. ASSUME NEW n \in A \cap Nat PROVE n + 1 \in A
  <2>1. n \in Nat /\ n + 1 \in Nat /\ 2^n \in Nat \ {0} /\ 2^(n + 1) = 2 * 2^n
    BY PowerOfTwo
  <2> SUFFICES ASSUME NEW u \in 0 .. 2^(n + 1) - 1, NEW v \in 0 .. 2^(n + 1) - 1, Same(u, v, n + 1)
               PROVE  u = v
    <3> HIDE DEF Same
    <3> QED
      BY <2>1, Zenon
  <2>2. /\ u \in Nat /\ v \in Nat
        /\ u = 2 * (u \div 2) + (u % 2) /\ v = 2 * (v \div 2) + (v % 2)
        /\ u \div 2 \in 0 .. 2^n - 1 /\ v \div 2 \in 0 .. 2^n - 1
    BY <2>1
  <2>3. u % 2 = v % 2
    <3>1. 0 \in 0 .. (n + 1) - 1 /\ 2^0 = 1
      BY <2>1, SMT
    <3>2. (u \div 1) % 2 = (v \div 1) % 2
      BY <3>1
    <3> QED
      BY <2>2, <3>2
  <2>4. ASSUME NEW z \in Nat, NEW i \in Nat PROVE (z \div 2) \div 2^i = z \div 2^(i + 1)
    <3>1. 2^i \in Nat \ {0} /\ 2^(i + 1) = 2 * 2^i
      BY PowerOfTwo
    <3> DEFINE p == 2^i
    <3> DEFINE m == 2 * p
    <3> DEFINE q == z \div m
    <3> DEFINE r == z % m
    <3>2. p \in Nat \ {0} /\ m = 2 * p /\ m = 2^(i + 1) /\ m \in Nat \ {0}
      BY <3>1
    <3> HIDE DEF p, m
    <3>3. q \in Int /\ r \in 0 .. m - 1 /\ z = m * q + r
      <4>1. z \in Int
        OBVIOUS
      <4> QED
        BY <3>2, <4>1, DivMod
    <3> HIDE DEF q, r
    <3>4. r \div 2 \in 0 .. p - 1 /\ z \div 2 = p * q + r \div 2
      <4>1. z = 2 * (p * q) + r /\ p * q \in Int
        BY <3>2, <3>3
      <4> QED
        BY <3>2, <3>3, <4>1
    <3>5. (z \div 2) \div p = q
      BY <3>2, <3>3, <3>4, DivModUnique
    <3> QED
      BY <3>2, <3>5 DEF p, q
  <2>5. Same(u \div 2, v \div 2, n)
    <3> SUFFICES ASSUME NEW i \in 0 .. n - 1
                 PROVE  ((u \div 2) \div 2^i) % 2 = ((v \div 2) \div 2^i) % 2
      OBVIOUS
    <3>1. i \in Nat /\ i + 1 \in 0 .. (n + 1) - 1
      BY <2>1
    <3>2. (u \div 2^(i + 1)) % 2 = (v \div 2^(i + 1)) % 2
      BY <3>1
    <3> QED
      BY <2>2, <2>4, <3>1, <3>2
  <2>6. u \div 2 = v \div 2
    <3> HIDE DEF Same
    <3> QED
      BY <2>2, <2>5
  <2> QED
    BY <2>2, <2>3, <2>6
<1>3. w \in A
  <2>1. Nat \subseteq A
    <3> HIDE DEF A
    <3> QED
      BY <1>1, <1>2, NatClosed
  <2> HIDE DEF A
  <2> QED
    BY <2>1
<1> QED
  BY <1>3

(* 33 has no factor in common with a power of two. *)
LEMMA ThirtyThree ==
  ASSUME NEW w \in Nat, NEW d \in Int, NEW k \in Int, 33 * d = k * 2^w
  PROVE  \E j \in Int : d = j * 2^w
<1> DEFINE A == {n \in Nat : \A c, m \in Int : 33 * c = m * 2^n => \E j \in Int : c = j * 2^n}
<1>1. 0 \in A
  <2>1. 2^0 = 1
    BY SMT
  <2>2. \A c \in Int : c = c * 2^0
    BY <2>1
  <2> QED
    BY <2>2
<1>2. ASSUME NEW n \in A \cap Nat PROVE n + 1 \in A
  <2>1. n \in Nat /\ n + 1 \in Nat /\ 2^n \in Nat \ {0} /\ 2^(n + 1) = 2 * 2^n
    BY PowerOfTwo
  <2> SUFFICES ASSUME NEW c \in Int, NEW m \in Int, 33 * c = m * 2^(n + 1)
               PROVE  \E j \in Int : c = j * 2^(n + 1)
    BY <2>1, Zenon
  <2> DEFINE p == 2^n
  <2>2. p \in Int /\ 33 * c = m * (2 * p) /\ 2^(n + 1) = 2 * p
    BY <2>1
  <2> HIDE DEF p
  <2>3. 33 * c = 2 * (m * p) /\ m * p \in Int
    BY <2>2
  <2>4. PICK e \in Int : c = 2 * e
    <3>1. c = 2 * (c \div 2) /\ c \div 2 \in Int
      BY <2>3
    <3> QED
      BY <3>1
  <2>5. 33 * e = m * p
    BY <2>3, <2>4
  <2>6. PICK j \in Int : e = j * p
    BY <2>5 DEF p
  <2>7. c = j * (2 * p)
    BY <2>2, <2>4, <2>6
  <2> QED
    BY <2>2, <2>7
<1>3. w \in A
  <2>1. Nat \subseteq A
    <3> HIDE DEF A
    <3> QED
      BY <1>1, <1>2, NatClosed
  <2> HIDE DEF A
  <2> QED
    BY <2>1
<1> QED
  BY <1>3

-----------------------------------------------------------------------------
(***************************************************************************)
(* Recursion along 0..n.  W[k] is what is known of the k-th value; a       *)
(* function recursive in this way exists (StagesExist) and has its values  *)
(* there (StagesHold).                                                     *)
(***************************************************************************)
Stages(f, n, W, b, G) ==
  /\ f = [k \in 0 .. n |-> IF k = 0 THEN b ELSE G[k][f[k - 1]]]
  /\ \A k \in 0 .. n : f[k] \in W[k]

LEMMA StagesHold ==
  ASSUME NEW n \in Nat, NEW W, NEW f, f[0] \in W[0],
         \A k \in 1 .. n : f[k - 1] \in W[k - 1] => f[k] \in W[k]
  PROVE  \A k \in 0 .. n : f[k] \in W[k]
<1> DEFINE A == {k \in Nat : k <= n => f[k] \in W[k]}
<1>1. 0 \in A
  OBVIOUS
<1>2. ASSUME NEW k \in A \cap Nat PROVE k + 1 \in A
  <2>1. k \in Nat /\ (k + 1 <= n => k + 1 \in 1 .. n /\ f[k] \in W[k]) /\ (k + 1) - 1 = k
    OBVIOUS
  <2>2. k + 1 <= n => f[k + 1] \in W[k + 1]
    BY <2>1
  <2> QED
    BY <2>1, <2>2
<1> HIDE DEF A
<1>3. Nat \subseteq A
  BY <1>1, <1>2, NatClosed
<1> QED
  BY <1>3 DEF A

LEMMA StagesExist ==
  ASSUME NEW n \in Nat, NEW W, NEW b, b \in W[0], NEW G,
         \A k \in 1 .. n : \A v \in W[k - 1] : G[k][v] \in W[k]
  PROVE  \E f : Stages(f, n, W, b, G)
<1> DEFINE Fits(f, m) ==
      /\ f = [k \in 0 .. m |-> f[k]] /\ f[0] = b
      /\ \A k \in 0 .. m : f[k] \in W[k]
      /\ \A k \in 1 .. m : f[k] = G[k][f[k - 1]]
<1> DEFINE A == {m \in Nat : m <= n => \E f : Fits(f, m)}
<1>1. 0 \in A
  <2> DEFINE f == [k \in 0 .. 0 |-> b]
  <2>1. Fits(f, 0)
    OBVIOUS
  <2> HIDE DEF f, Fits
  <2> QED
    BY <2>1
<1>2. ASSUME NEW m \in A \cap Nat PROVE m + 1 \in A
  <2>1. m \in Nat /\ m + 1 \in Nat
    OBVIOUS
  <2> SUFFICES ASSUME m + 1 <= n PROVE \E f : Fits(f, m + 1)
    <3> HIDE DEF Fits
    <3> QED
      BY <2>1, Zenon
  <2>2. PICK less : Fits(less, m)
    <3>1. m <= n
      BY <2>1
    <3> HIDE DEF Fits
    <3> QED
      BY <3>1, Zenon
  <2> DEFINE f == [k \in 0 .. m + 1 |-> IF k = m + 1 THEN G[m + 1][less[m]] ELSE less[k]]
  <2>3. /\ f = [k \in 0 .. m + 1 |-> f[k]] /\ f[m + 1] = G[m + 1][less[m]]
        /\ \A k \in 0 .. m : f[k] = less[k]
    BY <2>1
  <2>4. less[m] \in W[m] /\ m + 1 \in 1 .. n /\ (m + 1) - 1 = m
    BY <2>1, <2>2
  <2>5. f[m + 1] \in W[m + 1]
    BY <2>3, <2>4
  <2> HIDE DEF f
  <2>6. \A k \in 0 .. m + 1 : f[k] \in W[k]
    <3>1. \A k \in 0 .. m : f[k] \in W[k]
      BY <2>2, <2>3
    <3>2. \A k \in 0 .. m + 1 : k = m + 1 \/ k \in 0 .. m
      BY <2>1
    <3> QED
      BY <2>5, <3>1, <3>2, Zenon
  <2>7. \A k \in 1 .. m + 1 : f[k] = G[k][f[k - 1]]
    <3> SUFFICES ASSUME NEW k \in 1 .. m + 1 PROVE f[k] = G[k][f[k - 1]]
      OBVIOUS
    <3>1. CASE k = m + 1
      <4>1. k - 1 = m /\ m \in 0 .. m
        BY <2>1, <3>1
      <4>2. f[k - 1] = less[m]
        BY <2>3, <4>1
      <4> QED
        BY <2>3, <3>1, <4>2
    <3>2. CASE k # m + 1
      <4>1. k \in 1 .. m /\ k - 1 \in 0 .. m /\ k \in 0 .. m
        BY <2>1, <3>2
      <4> QED
        BY <2>2, <2>3, <4>1
    <3> QED
      BY <3>1, <3>2
  <2>8. f[0] = b
    BY <2>1, <2>2, <2>3
  <2>9. Fits(f, m + 1)
    BY <2>3, <2>6, <2>7, <2>8
  <2> HIDE DEF Fits
  <2> QED
    BY <2>9
<1>3. Nat \subseteq A
  <2> HIDE DEF A
  <2> QED
    BY <1>1, <1>2, NatClosed
<1>4. PICK f : Fits(f, n)
  <2> HIDE DEF Fits
  <2> QED
    BY <1>3
<1>5. f = [k \in 0 .. n |-> IF k = 0 THEN b ELSE G[k][f[k - 1]]]
  <2>1. \A k \in 0 .. n : f[k] = IF k = 0 THEN b ELSE G[k][f[k - 1]]
    BY <1>4
  <2> QED
    BY <1>4, <2>1
<1> QED
  BY <1>4, <1>5 DEF Stages

-----------------------------------------------------------------------------
(* A place more. *)
LEMMA InsertAtProperties ==
  ASSUME NEW S, NEW s \in Seq(S), NEW e \in S, NEW i \in 1 .. Len(s) + 1
  PROVE  /\ InsertAt(s, i, e) \in Seq(S)
         /\ Len(InsertAt(s, i, e)) = Len(s) + 1
         /\ \A j \in 1 .. Len(s) + 1 :
              InsertAt(s, i, e)[j] = IF j < i THEN s[j] ELSE IF j = i THEN e ELSE s[j - 1]
<1> DEFINE a == SubSeq(s, 1, i - 1)
<1> DEFINE z == SubSeq(s, i, Len(s))
<1>1. Len(s) \in Nat /\ i \in Nat /\ 1 <= i /\ i <= Len(s) + 1
  BY LenProperties
<1>2. /\ a \in Seq(S)
      /\ Len(a) = i - 1
      /\ \A j \in 1 .. i - 1 : a[j] = s[j]
  BY <1>1, SubSeqProperties, ElementOfSeq
<1>3. /\ z \in Seq(S)
      /\ Len(z) = (Len(s) - i) + 1
      /\ \A j \in 1 .. (Len(s) - i) + 1 : z[j] = s[(i + j) - 1]
  BY <1>1, SubSeqProperties, ElementOfSeq
<1> HIDE DEF a, z
<1>4. <<e>> \in Seq(S) /\ Len(<<e>>) = 1 /\ <<e>>[1] = e
  OBVIOUS
<1> DEFINE m == <<e>>
<1>5. /\ a \o m \in Seq(S) /\ Len(a \o m) = i
      /\ \A j \in 1 .. i : (a \o m)[j] = IF j < i THEN s[j] ELSE e
  <2>1. /\ a \o m \in Seq(S) /\ Len(a \o m) = Len(a) + Len(m)
        /\ \A j \in 1 .. Len(a) + Len(m) :
             (a \o m)[j] = IF j <= Len(a) THEN a[j] ELSE m[j - Len(a)]
    BY <1>2, <1>4, ConcatProperties
  <2> QED
    BY <1>1, <1>2, <1>4, <2>1
<1> HIDE DEF m
<1>6. /\ (a \o m) \o z \in Seq(S) /\ Len((a \o m) \o z) = Len(s) + 1
      /\ \A j \in 1 .. Len(s) + 1 :
           ((a \o m) \o z)[j] = IF j < i THEN s[j] ELSE IF j = i THEN e ELSE s[j - 1]
  <2> DEFINE am == a \o m
  <2>2. am \in Seq(S) /\ Len(am) = i /\ \A j \in 1 .. i : am[j] = IF j < i THEN s[j] ELSE e
    BY <1>5
  <2> HIDE DEF am
  <2>1. /\ am \o z \in Seq(S) /\ Len(am \o z) = Len(am) + Len(z)
        /\ \A j \in 1 .. Len(am) + Len(z) :
             (am \o z)[j] = IF j <= Len(am) THEN am[j] ELSE z[j - Len(am)]
    BY <1>3, <2>2, ConcatProperties
  <2>3. ASSUME NEW j \in 1 .. Len(s) + 1
        PROVE  (am \o z)[j] = IF j < i THEN s[j] ELSE IF j = i THEN e ELSE s[j - 1]
    <3>1. CASE j <= i
      BY <1>1, <1>3, <2>1, <2>2, <3>1
    <3>2. CASE ~(j <= i)
      <4>1. (am \o z)[j] = z[j - i] /\ j - i \in 1 .. (Len(s) - i) + 1
        BY <1>1, <1>3, <2>1, <2>2, <3>2
      <4>2. z[j - i] = s[(i + (j - i)) - 1] /\ (i + (j - i)) - 1 = j - 1
        BY <1>1, <1>3, <4>1
      <4> QED
        BY <1>1, <3>2, <4>1, <4>2
    <3> QED
      BY <3>1, <3>2
  <2>4. Len(am \o z) = Len(s) + 1
    BY <1>1, <1>3, <2>1, <2>2
  <2> QED
    BY <2>1, <2>3, <2>4 DEF am
<1> QED
  BY <1>6 DEF InsertAt, a, z, m

LEMMA InsertSet ==
  ASSUME NEW S, NEW s \in Seq(S), NEW e \in S, NEW i \in 1 .. Len(s) + 1
  PROVE  /\ InsertAt(s, i, e) \in Seq(S)
         /\ ToSet(InsertAt(s, i, e)) = ToSet(s) \cup {e}
         /\ IsInjective(s) /\ e \notin ToSet(s) => IsInjective(InsertAt(s, i, e))
<1> DEFINE t == InsertAt(s, i, e)
<1>1. /\ Len(s) \in Nat /\ DOMAIN s = 1 .. Len(s)
      /\ t \in Seq(S) /\ DOMAIN t = 1 .. Len(s) + 1
      /\ \A j \in 1 .. Len(s) + 1 : t[j] = IF j < i THEN s[j] ELSE IF j = i THEN e ELSE s[j - 1]
  BY InsertAtProperties, LenProperties
<1> HIDE DEF t
<1>2. ASSUME NEW j \in DOMAIN t PROVE t[j] \in ToSet(s) \cup {e}
  BY <1>1, <1>2 DEF ToSet
<1>3. ASSUME NEW j \in DOMAIN s PROVE s[j] \in ToSet(t)
  <2>1. CASE j < i
    BY <1>1, <2>1 DEF ToSet
  <2>2. CASE ~(j < i)
    <3>1. j + 1 \in DOMAIN t /\ t[j + 1] = s[j]
      BY <1>1, <2>2
    <3> QED
      BY <3>1 DEF ToSet
  <2> QED
    BY <2>1, <2>2
<1>4. e \in ToSet(t)
  <2>1. i \in DOMAIN t /\ t[i] = e
    BY <1>1
  <2> QED
    BY <2>1 DEF ToSet
<1>5. ToSet(t) = ToSet(s) \cup {e}
  BY <1>2, <1>3, <1>4 DEF ToSet
<1>6. IsInjective(s) /\ e \notin ToSet(s) => IsInjective(t)
  <2> SUFFICES ASSUME IsInjective(s), e \notin ToSet(s),
                      NEW j \in DOMAIN t, NEW k \in DOMAIN t, t[j] = t[k] PROVE j = k
    BY DEF IsInjective
  <2>1. \A x \in DOMAIN s : s[x] # e
    BY DEF ToSet
  <2>2. \A x, y \in DOMAIN s : s[x] = s[y] => x = y
    BY DEF IsInjective
  <2>3. ASSUME NEW x \in DOMAIN t
        PROVE  \/ x = i /\ t[x] = e
               \/ x < i /\ x \in DOMAIN s /\ t[x] = s[x]
               \/ x > i /\ x - 1 \in DOMAIN s /\ t[x] = s[x - 1]
    BY <1>1
  <2>4. j \in Int /\ k \in Int /\ i \in Int
    BY <1>1
  <2>5. CASE j = i \/ k = i
    BY <2>1, <2>3, <2>4, <2>5
  <2>6. CASE j < i /\ k < i
    BY <2>2, <2>3, <2>4, <2>6
  <2>7. CASE j > i /\ k > i
    <3>1. j - 1 = k - 1
      BY <2>2, <2>3, <2>4, <2>7
    <3> QED
      BY <2>4, <3>1
  <2>8. CASE j < i /\ k > i
    <3>1. j = k - 1
      BY <2>2, <2>3, <2>4, <2>8
    <3> QED
      BY <2>4, <2>8, <3>1
  <2>9. CASE j > i /\ k < i
    <3>1. j - 1 = k
      BY <2>2, <2>3, <2>4, <2>9
    <3> QED
      BY <2>4, <2>9, <3>1
  <2> QED
    BY <2>4, <2>5, <2>6, <2>7, <2>8, <2>9
<1> QED
  BY <1>1, <1>5, <1>6 DEF t
LEMMA InsertAtEnd ==
  ASSUME NEW S, NEW s \in Seq(S), NEW e \in S
  PROVE  InsertAt(s, Len(s) + 1, e) = Append(s, e)
<1> DEFINE n == Len(s)
<1>1. n \in Nat /\ n + 1 \in 1 .. n + 1
  BY LenProperties
<1>2. ASSUME NEW i \in 1 .. n + 1, i = n + 1 PROVE InsertAt(s, i, e) = Append(s, e)
  <2>1. /\ InsertAt(s, i, e) \in Seq(S) /\ Len(InsertAt(s, i, e)) = n + 1
        /\ \A j \in 1 .. n + 1 :
             InsertAt(s, i, e)[j] = IF j < i THEN s[j] ELSE IF j = i THEN e ELSE s[j - 1]
    BY InsertAtProperties
  <2>2. /\ Append(s, e) \in Seq(S) /\ Len(Append(s, e)) = n + 1
        /\ \A j \in 1 .. n : Append(s, e)[j] = s[j]
        /\ Append(s, e)[n + 1] = e
    BY AppendProperties
  <2> HIDE DEF n
  <2>3. \A j \in 1 .. n + 1 : InsertAt(s, i, e)[j] = Append(s, e)[j]
    BY <1>1, <1>2, <2>1, <2>2
  <2> QED
    BY <2>1, <2>2, <2>3, SeqEqual
<1> QED
  BY <1>1, <1>2

-----------------------------------------------------------------------------
(* Products and sums of natural numbers: the partial sums of f over the    *)
(* places 0 .. n - 1.                                                      *)
LEMMA ProductMonotone ==
  ASSUME NEW a \in Int, NEW b \in Int, NEW c \in Nat, a <= b
  PROVE  a * c <= b * c /\ c * a <= c * b
<1>1. (b - a) * c >= 0
  BY SMT
<1>2. (b - a) * c = b * c - a * c /\ a * c \in Int /\ b * c \in Int /\ c * a = a * c /\ c * b = b * c
  BY SMT
<1> QED
  BY <1>1, <1>2

LEMMA ProductCancel ==
  ASSUME NEW a \in Int, NEW b \in Int, NEW c \in Nat \ {0}, c * a <= c * b
  PROVE  a <= b
<1> SUFFICES ASSUME b + 1 <= a PROVE FALSE
  OBVIOUS
<1>1. c * (b + 1) <= c * a
  BY ProductMonotone
<1>2. c * (b + 1) = c * b + c /\ c * b \in Int /\ c * a \in Int
  BY SMT
<1> QED
  BY <1>1, <1>2

Sums(part, n, f) ==
  /\ part \in [0 .. n -> Nat] /\ part[0] = 0
  /\ \A k \in 1 .. n : part[k] = part[k - 1] + f[k - 1]

LEMMA SumsExist ==
  ASSUME NEW n \in Nat, NEW f, \A k \in 0 .. n - 1 : f[k] \in Nat
  PROVE  \E part : Sums(part, n, f)
<1> DEFINE W == [k \in 0 .. n |-> Nat]
<1> DEFINE G == [k \in 1 .. n |-> [v \in Nat |-> v + f[k - 1]]]
<1>1. 0 \in W[0]
  OBVIOUS
<1>2. \A k \in 1 .. n : \A v \in W[k - 1] : G[k][v] \in W[k]
  <2> SUFFICES ASSUME NEW k \in 1 .. n, NEW v \in W[k - 1] PROVE G[k][v] \in W[k]
    OBVIOUS
  <2>1. k \in 0 .. n /\ k - 1 \in 0 .. n /\ k - 1 \in 0 .. n - 1
    OBVIOUS
  <2>2. v \in Nat /\ f[k - 1] \in Nat
    BY <2>1
  <2> QED
    BY <2>1, <2>2
<1> HIDE DEF W, G
<1>3. PICK part : Stages(part, n, W, 0, G)
  BY <1>1, <1>2, StagesExist
<1>4. part = [k \in 0 .. n |-> IF k = 0 THEN 0 ELSE G[k][part[k - 1]]]
  BY <1>3 DEF Stages
<1>5. \A k \in 0 .. n : part[k] \in Nat
  BY <1>3 DEF Stages, W
<1>6. \A k \in 1 .. n : part[k] = part[k - 1] + f[k - 1]
  <2> SUFFICES ASSUME NEW k \in 1 .. n PROVE part[k] = part[k - 1] + f[k - 1]
    OBVIOUS
  <2>1. k \in 0 .. n /\ k # 0 /\ k - 1 \in 0 .. n
    OBVIOUS
  <2>2. part[k] = G[k][part[k - 1]] /\ part[k - 1] \in Nat
    BY <1>4, <1>5, <2>1
  <2> QED
    BY <2>2 DEF G
<1>7. part[0] = 0 /\ part \in [0 .. n -> Nat]
  BY <1>4, <1>5
<1> QED
  BY <1>6, <1>7 DEF Sums

(* A bound on every place is one on the sums. *)
LEMMA SumsCompare ==
  ASSUME NEW n \in Nat, NEW f, NEW p, Sums(p, n, f), NEW g, NEW q, Sums(q, n, g),
         NEW a \in Nat, NEW b \in Nat, NEW c \in Nat,
         \A k \in 0 .. n - 1 : f[k] \in Nat /\ g[k] \in Nat /\ a * f[k] <= b + c * g[k]
  PROVE  p[n] \in Nat /\ q[n] \in Nat /\ a * p[n] <= b * n + c * q[n]
<1> DEFINE W == [k \in 0 .. n |-> {v \in Nat : a * v <= b * k + c * q[k]}]
<1>1. /\ p[0] = 0 /\ q[0] = 0 /\ \A k \in 0 .. n : p[k] \in Nat /\ q[k] \in Nat
      /\ \A k \in 1 .. n : p[k] = p[k - 1] + f[k - 1] /\ q[k] = q[k - 1] + g[k - 1]
  BY DEF Sums
<1>2. p[0] \in W[0]
  <2>1. a * 0 = 0 /\ b * 0 = 0 /\ c * 0 = 0
    BY SMT
  <2> QED
    BY <1>1, <2>1
<1>3. ASSUME NEW k \in 1 .. n, p[k - 1] \in W[k - 1] PROVE p[k] \in W[k]
  <2> DEFINE x == p[k - 1]
  <2> DEFINE y == q[k - 1]
  <2> DEFINE u == f[k - 1]
  <2> DEFINE v == g[k - 1]
  <2>1. k \in 0 .. n /\ k - 1 \in 0 .. n /\ k - 1 \in 0 .. n - 1
    OBVIOUS
  <2>2. x \in Nat /\ y \in Nat /\ u \in Nat /\ v \in Nat /\ p[k] = x + u /\ q[k] = y + v
    BY <1>1, <2>1
  <2>3. a * x <= b * (k - 1) + c * y /\ a * u <= b + c * v
    BY <1>3, <2>1
  <2> HIDE DEF x, y, u, v
  <2>4. /\ a * (x + u) = a * x + a * u /\ c * (y + v) = c * y + c * v /\ b * (k - 1) = b * k - b
        /\ a * x \in Int /\ a * u \in Int /\ b * k \in Int /\ c * y \in Int /\ c * v \in Int
    BY <2>2, SMT
  <2>5. a * (x + u) <= b * k + c * (y + v)
    BY <2>3, <2>4
  <2>6. a * p[k] <= b * k + c * q[k] /\ p[k] \in Nat
    BY <2>2, <2>5
  <2> QED
    BY <2>1, <2>6
<1> HIDE DEF W
<1>4. \A k \in 0 .. n : p[k] \in W[k]
  BY <1>2, <1>3, StagesHold
<1>5. n \in 0 .. n
  OBVIOUS
<1>6. a * p[n] <= b * n + c * q[n]
  BY <1>4, <1>5 DEF W
<1> QED
  BY <1>1, <1>5, <1>6

(***************************************************************************)
(* The place of a number in a finite set, and numbers of two digits.       *)
(***************************************************************************)
RankIn(S, i) == Cardinality({j \in S : j < i})

LEMMA FirstNumbers ==
  ASSUME NEW k \in Nat
  PROVE  IsFiniteSet(0..k - 1) /\ Cardinality(0..k - 1) = k
<1> DEFINE hi == k - 1
<1>1. hi \in Int /\ 0 \in Int /\ hi - 0 + 1 = k /\ (0 > hi => k = 0)
  OBVIOUS
<1> HIDE DEF hi
<1>2. IsFiniteSet(0..hi) /\ Cardinality(0..hi) = IF 0 > hi THEN 0 ELSE hi - 0 + 1
  BY <1>1, FS_Interval
<1> QED
  BY <1>1, <1>2 DEF hi

LEMMA RankProperties ==
  ASSUME NEW S \in SUBSET Int, IsFiniteSet(S)
  PROVE  /\ Cardinality(S) \in Nat
         /\ \A i \in S : RankIn(S, i) \in 0..Cardinality(S) - 1
         /\ \A i, j \in S : RankIn(S, i) = RankIn(S, j) => i = j
         /\ \A q \in 0..Cardinality(S) - 1 : \E i \in S : RankIn(S, i) = q
<1> DEFINE k == Cardinality(S)
<1> DEFINE before(i) == {j \in S : j < i}
<1>1. IsFiniteSet(S) /\ k \in Nat
  BY FS_CardinalityType
<1>2. ASSUME NEW i \in S
      PROVE  IsFiniteSet(before(i)) /\ RankIn(S, i) = Cardinality(before(i)) /\ RankIn(S, i) \in Nat
  BY <1>1, FS_Subset, FS_CardinalityType DEF RankIn
<1>3. ASSUME NEW i \in S PROVE RankIn(S, i) \in 0..k - 1
  <2>1. before(i) \in SUBSET S /\ i \notin before(i)
    OBVIOUS
  <2> HIDE DEF before
  <2>2. Cardinality(before(i)) <= k /\ Cardinality(before(i)) # k
    BY <1>1, <2>1, FS_Subset
  <2> QED
    BY <1>1, <1>2, <2>2
<1>4. ASSUME NEW i \in S, NEW j \in S, i < j PROVE RankIn(S, i) # RankIn(S, j)
  <2>0. S \subseteq Int
    OBVIOUS
  <2>1. before(i) \in SUBSET before(j) /\ i \notin before(i) /\ i \in before(j)
    <3>1. \A x \in S : x < i => x < j
      BY <1>4, <2>0
    <3>2. before(i) \in SUBSET before(j)
      BY <3>1
    <3>3. ~(i < i) /\ i < j
      BY <1>4, <2>0
    <3> QED
      BY <3>2, <3>3
  <2> HIDE DEF before
  <2>2. Cardinality(before(i)) # Cardinality(before(j))
    BY <1>2, <2>1, FS_Subset
  <2> QED
    BY <1>2, <2>2
<1>5. \A i, j \in S : RankIn(S, i) = RankIn(S, j) => i = j
  BY <1>4
<1>6. \A q \in 0..k - 1 : \E i \in S : RankIn(S, i) = q
  <2> DEFINE T == 0..k - 1
  <2> DEFINE f == [i \in S |-> RankIn(S, i)]
  <2>1. f \in Injection(S, T)
    BY <1>3, <1>5 DEF Injection, IsInjective
  <2>2. IsFiniteSet(T) /\ Cardinality(T) = k
    BY <1>1, FirstNumbers
  <2>3. f \in Surjection(S, T)
    <3> HIDE DEF f, T
    <3> QED
      BY <2>1, <2>2, FS_Injection
  <2> QED
    BY <2>3 DEF Surjection
<1> QED
  BY <1>1, <1>3, <1>5, <1>6

LEMMA RankNext ==
  ASSUME NEW S \in SUBSET Int, IsFiniteSet(S), NEW j \in Int
  PROVE  RankIn(S, j) \in Nat /\ RankIn(S, j + 1) = RankIn(S, j) + (IF j \in S THEN 1 ELSE 0)
<1> DEFINE T == {i \in S : i < j}
<1> DEFINE U == {i \in S : i < j + 1}
<1>1. IsFiniteSet(T) /\ Cardinality(T) \in Nat
  <2>1. T \in SUBSET S
    OBVIOUS
  <2> HIDE DEF T
  <2> QED
    BY <2>1, FS_Subset, FS_CardinalityType
<1>2. RankIn(S, j) = Cardinality(T) /\ RankIn(S, j + 1) = Cardinality(U)
  BY DEF RankIn
<1>3. \A i \in S : i < j + 1 <=> (i < j \/ i = j)
  OBVIOUS
<1>4. CASE j \in S
  <2>1. U = T \cup {j} /\ j \notin T
    <3>1. \A i \in U : i \in T \/ i = j
      BY <1>3
    <3>2. \A i \in T : i \in U
      BY <1>3
    <3>3. j \in U /\ ~(j < j)
      BY <1>3, <1>4
    <3> QED
      BY <3>1, <3>2, <3>3
  <2> HIDE DEF T, U
  <2> QED
    BY <1>1, <1>2, <1>4, <2>1, FS_AddElement
<1>5. CASE j \notin S
  <2>1. U = T
    BY <1>3, <1>5
  <2> HIDE DEF T, U
  <2> QED
    BY <1>1, <1>2, <1>5, <2>1
<1> QED
  BY <1>1, <1>2, <1>4, <1>5

\* Numbers below k times b have two digits.
LEMMA TwoDigits ==
  ASSUME NEW k \in Nat, NEW b \in Nat \ {0}
  PROVE  /\ \A q \in 0..k - 1, s \in 0..b - 1 :
              q*b + s \in 0..k*b - 1 /\ (q*b + s) \div b = q /\ (q*b + s) % b = s
         /\ \A x \in 0..k*b - 1 :
              x \div b \in 0..k - 1 /\ x % b \in 0..b - 1 /\ x = (x \div b)*b + (x % b)
<1> DEFINE kb == k*b
<1>1. kb \in Nat
  BY SMT
<1>2. ASSUME NEW q \in 0..k - 1, NEW s \in 0..b - 1
      PROVE  q*b + s \in 0..kb - 1 /\ (q*b + s) \div b = q /\ (q*b + s) % b = s
  <2> DEFINE qb == q*b
  <2>1. qb \in Nat /\ (k - 1)*b = kb - b /\ b*q = qb /\ q \in Int /\ k - 1 \in Int
    BY SMT
  <2>2. q*b <= (k - 1)*b
    BY <2>1, ProductMonotone
  <2>3. qb <= kb - b
    BY <2>1, <2>2
  <2> HIDE DEF qb, kb
  <2>4. qb + s \in 0..kb - 1 /\ qb + s \in Int /\ qb + s = b*q + s
    BY <1>1, <2>1, <2>3
  <2>5. (qb + s) \div b = q /\ (qb + s) % b = s
    BY <2>1, <2>4, DivModUnique
  <2> QED
    BY <2>4, <2>5 DEF qb
<1>3. ASSUME NEW x \in 0..kb - 1
      PROVE  x \div b \in 0..k - 1 /\ x % b \in 0..b - 1 /\ x = (x \div b)*b + (x % b)
  <2> DEFINE q == x \div b
  <2> DEFINE s == x % b
  <2>1. x \in Nat /\ q \in Int /\ s \in 0..b - 1 /\ x = b*q + s
    BY <1>1, DivMod
  <2> HIDE DEF q, s
  <2>2. b*q = q*b /\ q*b \in Int
    BY <2>1, SMT
  <2>3. 0 <= q
    <3> SUFFICES ASSUME q <= -1 PROVE FALSE
      BY <2>1
    <3>1. b*q <= b*(-1) /\ b*(-1) = -b
      <4>1. b*(-1) = -b
        BY SMT
      <4> QED
        BY <2>1, <4>1, ProductMonotone
    <3> QED
      BY <2>1, <2>2, <3>1
  <2>4. q <= k - 1
    <3> SUFFICES ASSUME k <= q PROVE FALSE
      BY <2>1
    <3>1. k*b <= q*b
      BY <2>1, ProductMonotone
    <3> QED
      BY <1>1, <2>1, <2>2, <3>1
  <2> QED
    BY <2>1, <2>2, <2>3, <2>4 DEF q, s
<1> QED
  BY <1>2, <1>3
=============================================================================
