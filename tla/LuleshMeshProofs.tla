-------------------------- MODULE LuleshMeshProofs --------------------------
(***************************************************************************)
(* The index arrays LULESH fills (LuleshDomain), for every rank count, rank*)
(* and edge length.                                                        *)
(*                                                                         *)
(* An element, a node, a rank and a ghost are each a number of digits      *)
(* (Point, Digits, TwoDigits), and what the loops of the constructor reach *)
(* by adding and skipping is what the digits say (BuiltMesh, LinkInside,   *)
(* BoundaryIs).  Two arrays agree because their digits do.  The corners of *)
(* a node are found because the list is a counting sort (ListIsSorted).    *)
(***************************************************************************)
EXTENDS LuleshDomain, DataLemmas, FunctionTheorems, TLAPS

-----------------------------------------------------------------------------
(***************************************************************************)
(* Places in a cube with n places along an edge, and their numbers.        *)
(***************************************************************************)
Point(x, y, z, n) == x + y*n + z*(n*n)

LEMMA PointRange ==
  ASSUME NEW n \in Nat \ {0}, NEW x \in 0..n - 1, NEW y \in 0..n - 1, NEW z \in 0..n - 1
  PROVE  /\ x + y*n \in 0..n*n - 1 /\ n*n \in Nat \ {0}
         /\ Point(x, y, z, n) \in 0..Cube(n) - 1 /\ Cube(n) \in Nat \ {0}
<1>1. y*n <= (n - 1)*n /\ y*n \in Nat /\ n*n \in Nat \ {0} /\ (n - 1)*n = n*n - n
  <2>1. y*n <= (n - 1)*n
    BY ProductMonotone
  <2>2. y*n \in Nat /\ n*n \in Nat \ {0} /\ (n - 1)*n = n*n - n
    BY SMT
  <2> QED
    BY <2>1, <2>2
<1>2. x + y*n \in 0..n*n - 1
  <2> DEFINE yn == y*n
  <2> DEFINE nn == n*n
  <2>1. yn <= nn - n /\ yn \in Nat /\ nn \in Nat
    BY <1>1
  <2> HIDE DEF yn, nn
  <2>2. x + yn \in 0..nn - 1
    BY <2>1
  <2> QED
    BY <2>2 DEF yn, nn
<1> DEFINE nn == n*n
<1> DEFINE zn == z*nn
<1> DEFINE row == x + y*n
<1>3. nn \in Nat \ {0} /\ row \in 0..nn - 1
  BY <1>1, <1>2
<1>4. Cube(n) = n*nn /\ Point(x, y, z, n) = row + zn
  BY SMT DEF Cube, Point
<1> HIDE DEF nn, row
<1>5. zn <= (n - 1)*nn
  BY <1>3, ProductMonotone DEF zn
<1>6. (n - 1)*nn = n*nn - nn /\ zn \in Nat /\ n*nn \in Nat \ {0}
  BY <1>3, SMT DEF zn
<1> DEFINE all == n*nn
<1>7. zn <= all - nn /\ zn \in Nat /\ all \in Nat \ {0} /\ Cube(n) = all
  BY <1>4, <1>5, <1>6
<1> HIDE DEF zn, all
<1>8. row + zn \in 0..all - 1
  BY <1>3, <1>7
<1> QED
  BY <1>1, <1>2, <1>4, <1>7, <1>8

LEMMA PointDigits ==
  ASSUME NEW n \in Nat \ {0}, NEW x \in 0..n - 1, NEW y \in 0..n - 1, NEW z \in 0..n - 1
  PROVE  /\ Point(x, y, z, n) % n = x /\ (Point(x, y, z, n) \div n) % n = y
         /\ Point(x, y, z, n) \div (n*n) = z
<1> DEFINE p == Point(x, y, z, n)
<1> DEFINE q == y + z*n
<1>1. p \in Int /\ q \in Int /\ p = n*q + x /\ q = n*z + y /\ p = (n*n)*z + (x + y*n)
  BY SMT DEF Point
<1>2. x + y*n \in 0..n*n - 1 /\ n*n \in Nat \ {0}
  BY PointRange
<1> HIDE DEF p, q
<1>3. p \div n = q /\ p % n = x
  <2>1. p \in Int /\ q \in Int /\ p = n*q + x
    BY <1>1
  <2> QED
    BY <2>1, DivModUnique
<1>4. q % n = y
  BY <1>1, DivModUnique
<1> DEFINE nn == n*n
<1> DEFINE row == x + y*n
<1>5. nn \in Nat \ {0} /\ row \in 0..nn - 1 /\ p = nn*z + row
  BY <1>1, <1>2
<1> HIDE DEF nn, row
<1>6. p \div nn = z
  BY <1>1, <1>5, DivModUnique
<1> QED
  BY <1>3, <1>4, <1>6 DEF p, nn

\* The digits of a number in the cube are places along the edges.
Digits(e, n) == [x |-> e % n, y |-> (e \div n) % n, z |-> e \div (n*n)]

LEMMA DigitsPoint ==
  ASSUME NEW n \in Nat \ {0}, NEW e \in 0..Cube(n) - 1
  PROVE  /\ Digits(e, n).x \in 0..n - 1 /\ Digits(e, n).y \in 0..n - 1 /\ Digits(e, n).z \in 0..n - 1
         /\ e = Point(Digits(e, n).x, Digits(e, n).y, Digits(e, n).z, n)
<1> DEFINE x == e % n
<1> DEFINE q == e \div n
<1> DEFINE y == q % n
<1> DEFINE z == q \div n
<1> DEFINE nn == n*n
<1>1. nn \in Nat \ {0} /\ Cube(n) = nn*n /\ nn*n \in Nat
  BY SMT DEF Cube
<1>2. e \in Int
  BY <1>1
<1>3. q \in Int /\ x \in 0..n - 1 /\ e = n*q + x
  BY <1>2, DivMod
<1> HIDE DEF x, q
<1>4. z \in Int /\ y \in 0..n - 1 /\ q = n*z + y
  BY <1>3, DivMod
<1> HIDE DEF y, z
<1>5. e = nn*z + (x + y*n)
  BY <1>3, <1>4, SMT DEF nn
<1>6. x + y*n \in 0..nn - 1
  <2>1. 0 \in 0..n - 1
    OBVIOUS
  <2> QED
    BY <1>3, <1>4, <2>1, PointRange DEF nn
<1> DEFINE row == x + y*n
<1>7. row \in 0..nn - 1 /\ e = nn*z + row
  BY <1>5, <1>6
<1> HIDE DEF row, nn
<1>8. e \div nn = z
  BY <1>1, <1>2, <1>4, <1>7, DivModUnique
<1>9. z \in 0..n - 1
  <2> DEFINE a == nn*z
  <2> DEFINE b == nn*n
  <2>1. a \in Int /\ b \in Nat /\ e \in 0..b - 1 /\ e = a + row
    BY <1>1, <1>4, <1>7, SMT
  <2>2. nn*(z + 1) = a + nn /\ nn*0 = 0
    BY <1>1, <1>4, SMT
  <2> HIDE DEF a, b
  <2>3. a <= b - 1 /\ 1 - nn <= a
    BY <1>1, <1>7, <2>1
  <2>4. 0 <= z
    <3>1. nn*1 <= nn*(z + 1)
      <4> SUFFICES ASSUME z + 1 <= 0 PROVE FALSE
        <5>1. z + 1 <= 0 \/ 1 <= z + 1
          BY <1>4
        <5>2. 1 <= z + 1 => nn*1 <= nn*(z + 1)
          BY <1>1, <1>4, ProductMonotone
        <5> QED
          BY <5>1, <5>2
      <4>1. nn*(z + 1) <= nn*0
        BY <1>1, <1>4, ProductMonotone
      <4> QED
        BY <1>1, <2>1, <2>2, <2>3, <4>1
    <3>2. 1 <= z + 1
      BY <1>1, <1>4, <3>1, ProductCancel
    <3> QED
      BY <1>4, <3>2
  <2>5. z <= n - 1
    <3> SUFFICES ASSUME n <= z PROVE FALSE
      BY <1>4
    <3>1. nn*n <= nn*z
      BY <1>1, <1>4, ProductMonotone
    <3> QED
      BY <2>1, <2>3, <3>1 DEF a, b
  <2> QED
    BY <1>4, <2>4, <2>5
<1>10. e = Point(x, y, z, n)
  BY <1>3, <1>4, <1>5, <1>9, SMT DEF Point, nn
<1>11. Digits(e, n).x = x /\ Digits(e, n).y = y /\ Digits(e, n).z = z
  BY <1>8 DEF Digits, x, y, q, nn
<1> QED
  BY <1>3, <1>4, <1>9, <1>10, <1>11

LEMMA DigitsOf ==
  ASSUME NEW n \in Nat \ {0}, NEW x \in 0..n - 1, NEW y \in 0..n - 1, NEW z \in 0..n - 1
  PROVE  /\ Point(x, y, z, n) \in 0..Cube(n) - 1
         /\ Digits(Point(x, y, z, n), n) = [x |-> x, y |-> y, z |-> z]
         /\ Point(x, y, z, n) % (n*n) = x + y*n
<1> DEFINE p == Point(x, y, z, n)
<1>1. p % n = x /\ (p \div n) % n = y /\ p \div (n*n) = z
  BY PointDigits
<1>2. x + y*n \in 0..n*n - 1 /\ n*n \in Nat \ {0} /\ p \in 0..Cube(n) - 1
  BY PointRange
<1>3. p % (n*n) = x + y*n
  <2> DEFINE nn == n*n
  <2> DEFINE row == x + y*n
  <2>1. p \in Int /\ p = nn*z + row /\ z \in Int
    BY SMT DEF Point
  <2>2. nn \in Nat \ {0} /\ row \in 0..nn - 1
    BY <1>2
  <2> HIDE DEF p, nn, row
  <2> QED
    BY <2>1, <2>2, DivModUnique DEF nn, row
<1> HIDE DEF p
<1>4. Digits(p, n) = [x |-> x, y |-> y, z |-> z]
  BY <1>1 DEF Digits
<1> QED
  BY <1>2, <1>3, <1>4 DEF p

-----------------------------------------------------------------------------
(***************************************************************************)
(* BuildMesh: the first node of an element is the one at the element's     *)
(* place in the cube of nodes.                                             *)
(***************************************************************************)
FirstNode(e, n) == Point(Digits(e, n).x, Digits(e, n).y, Digits(e, n).z, n + 1)

LEMMA FirstNodeNext ==
  ASSUME NEW n \in Nat \ {0}, NEW e \in 1..Cube(n) - 1
  PROVE  FirstNode(e, n) = FirstNode(e - 1, n) + 1 + (IF e % n = 0 THEN 1 ELSE 0)
                                                   + (IF e % (n*n) = 0 THEN n + 1 ELSE 0)
<1>0. Cube(n) \in Int
  BY SMT DEF Cube
<1> DEFINE x == Digits(e, n).x
<1> DEFINE y == Digits(e, n).y
<1> DEFINE z == Digits(e, n).z
<1>1. e \in 0..Cube(n) - 1
  BY <1>0
<1>2. x \in 0..n - 1 /\ y \in 0..n - 1 /\ z \in 0..n - 1 /\ e = Point(x, y, z, n)
  BY <1>1, DigitsPoint
<1> HIDE DEF x, y, z
<1>3. e % n = x /\ e % (n*n) = x + y*n
  BY <1>2, DigitsOf, PointDigits
<1>4. FirstNode(e, n) = Point(x, y, z, n + 1)
  BY DEF FirstNode, x, y, z
<1>5. e >= 1 /\ e \in Int
  BY <1>0
<1>6. CASE x # 0
  <2>1. x - 1 \in 0..n - 1 /\ e - 1 = Point(x - 1, y, z, n)
    BY <1>2, <1>6, SMT DEF Point
  <2>2. Digits(e - 1, n) = [x |-> x - 1, y |-> y, z |-> z]
    BY <1>2, <2>1, DigitsOf
  <2>3. FirstNode(e - 1, n) = Point(x - 1, y, z, n + 1)
    BY <2>2 DEF FirstNode
  <2>4. x + y*n # 0
    <3>1. y*n \in Nat
      BY <1>2, SMT
    <3> QED
      BY <1>2, <1>6, <3>1
  <2>5. Point(x, y, z, n + 1) = Point(x - 1, y, z, n + 1) + 1
    BY <1>2, SMT DEF Point
  <2>6. Point(x - 1, y, z, n + 1) \in Int
    BY <1>2, SMT DEF Point
  <2> QED
    BY <1>3, <1>4, <1>6, <2>3, <2>4, <2>5, <2>6
<1>7. CASE x = 0 /\ y # 0
  <2>1. n - 1 \in 0..n - 1 /\ y - 1 \in 0..n - 1 /\ e - 1 = Point(n - 1, y - 1, z, n)
    BY <1>2, <1>7, SMT DEF Point
  <2>2. Digits(e - 1, n) = [x |-> n - 1, y |-> y - 1, z |-> z]
    <3> DEFINE a == n - 1
    <3> DEFINE b == y - 1
    <3>1. a \in 0..n - 1 /\ b \in 0..n - 1 /\ z \in 0..n - 1 /\ e - 1 = Point(a, b, z, n)
      BY <1>2, <2>1
    <3> HIDE DEF a, b
    <3>2. Digits(Point(a, b, z, n), n) = [x |-> a, y |-> b, z |-> z]
      BY <3>1, DigitsOf
    <3> QED
      BY <3>1, <3>2 DEF a, b
  <2>3. FirstNode(e - 1, n) = Point(n - 1, y - 1, z, n + 1)
    BY <2>2 DEF FirstNode
  <2>4. x + y*n # 0
    <3>1. 1*n <= y*n
      BY <1>2, <1>7, ProductMonotone
    <3>2. 1*n = n /\ y*n \in Nat
      BY <1>2, SMT
    <3> QED
      BY <1>7, <3>1, <3>2
  <2>5. Point(x, y, z, n + 1) = Point(n - 1, y - 1, z, n + 1) + 2
    BY <1>2, <1>7, SMT DEF Point
  <2>6. Point(n - 1, y - 1, z, n + 1) \in Int
    BY <1>2, SMT DEF Point
  <2> QED
    BY <1>3, <1>4, <1>7, <2>3, <2>4, <2>5, <2>6
<1>8. CASE x = 0 /\ y = 0
  <2>1. z # 0
    <3> SUFFICES ASSUME z = 0 PROVE FALSE
      OBVIOUS
    <3> QED
      BY <1>2, <1>5, <1>8, SMT DEF Point
  <2>2. n - 1 \in 0..n - 1 /\ z - 1 \in 0..n - 1 /\ e - 1 = Point(n - 1, n - 1, z - 1, n)
    BY <1>2, <1>8, <2>1, SMT DEF Point
  <2>3. Digits(e - 1, n) = [x |-> n - 1, y |-> n - 1, z |-> z - 1]
    <3> DEFINE a == n - 1
    <3> DEFINE b == z - 1
    <3>1. a \in 0..n - 1 /\ b \in 0..n - 1 /\ e - 1 = Point(a, a, b, n)
      BY <2>2
    <3> HIDE DEF a, b
    <3>2. Digits(Point(a, a, b, n), n) = [x |-> a, y |-> a, z |-> b]
      BY <3>1, DigitsOf
    <3> QED
      BY <3>1, <3>2 DEF a, b
  <2>4. FirstNode(e - 1, n) = Point(n - 1, n - 1, z - 1, n + 1)
    BY <2>3 DEF FirstNode
  <2>5. x + y*n = 0
    BY <1>2, <1>8, SMT
  <2>6. Point(x, y, z, n + 1) = Point(n - 1, n - 1, z - 1, n + 1) + 2 + (n + 1)
    BY <1>2, <1>8, SMT DEF Point
  <2>7. Point(n - 1, n - 1, z - 1, n + 1) \in Int
    BY <1>2, SMT DEF Point
  <2> QED
    BY <1>3, <1>4, <1>8, <2>4, <2>5, <2>6, <2>7
<1> QED
  BY <1>6, <1>7, <1>8

\* The nodes of an element, from its first one on.
Nodes(c, en) == <<c, c + 1, c + en + 1, c + en,
                  c + en*en, c + en*en + 1, c + en*en + en + 1, c + en*en + en>>

LEMMA BuiltMesh ==
  ASSUME NEW n \in Nat \ {0}
  PROVE  BuildMesh(n) = [e \in 0..Cube(n) - 1 |-> Nodes(FirstNode(e, n), n + 1)]
<1> DEFINE N == Cube(n) - 1
<1>0. N \in Nat
  <2>1. 0 \in 0..n - 1
    OBVIOUS
  <2>2. Cube(n) \in Nat \ {0}
    BY <2>1, PointRange
  <2> QED
    BY <2>2
<1> DEFINE G == [k \in 1..N |-> [v \in Int |-> v + 1 + (IF k % n = 0 THEN 1 ELSE 0)
                                                   + (IF k % (n*n) = 0 THEN n + 1 ELSE 0)]]
<1> DEFINE Body(f) == [e \in 0..N |->
              IF e = 0 THEN 0
              ELSE f[e - 1] + 1 + (IF e % n = 0 THEN 1 ELSE 0)
                                + (IF e % (n*n) = 0 THEN n + 1 ELSE 0)]
<1> DEFINE nidx == CHOOSE f : f = Body(f)
<1>1. BuildMesh(n) = [e \in 0..N |-> Nodes(nidx[e], n + 1)]
  BY DEF BuildMesh, Nodes
<1>2. \A e \in 0..N : FirstNode(e, n) \in Int
  <2> SUFFICES ASSUME NEW e \in 0..N PROVE FirstNode(e, n) \in Int
    OBVIOUS
  <2>1. /\ Digits(e, n).x \in 0..n - 1 /\ Digits(e, n).y \in 0..n - 1 /\ Digits(e, n).z \in 0..n - 1
    BY DigitsPoint
  <2> QED
    BY <2>1, SMT DEF FirstNode, Point
<1>3. FirstNode(0, n) = 0
  <2>1. 0 \in 0..n - 1 /\ Point(0, 0, 0, n) = 0 /\ Point(0, 0, 0, n + 1) = 0
    BY SMT DEF Point
  <2>2. Digits(0, n) = [x |-> 0, y |-> 0, z |-> 0]
    BY <2>1, DigitsOf
  <2> QED
    BY <2>1, <2>2 DEF FirstNode
<1> DEFINE W == [e \in 0..N |-> {FirstNode(e, n)}]
<1>4. \E f : f = Body(f)
  <2> DEFINE f == [e \in 0..N |-> FirstNode(e, n)]
  <2>1. ASSUME NEW e \in 0..N PROVE f[e] = Body(f)[e]
    <3>1. CASE e = 0
      BY <1>0, <1>3, <3>1
    <3>2. CASE e # 0
      <4>1. e \in 1..Cube(n) - 1 /\ e - 1 \in 0..N
        BY <1>0, <3>2
      <4>2. f[e - 1] = FirstNode(e - 1, n) /\ f[e] = FirstNode(e, n)
        BY <4>1
      <4>3. Body(f)[e] = f[e - 1] + 1 + (IF e % n = 0 THEN 1 ELSE 0)
                                + (IF e % (n*n) = 0 THEN n + 1 ELSE 0)
        BY <3>2
      <4> HIDE DEF f, Body
      <4> QED
        BY <4>1, <4>2, <4>3, FirstNodeNext
    <3> QED
      BY <3>1, <3>2
  <2>2. f = Body(f)
    BY <2>1
  <2> QED
    BY <2>2
<1>5. nidx = Body(nidx)
  <2> HIDE DEF Body
  <2> QED
    BY <1>4
<1> HIDE DEF nidx
<1>6. nidx[0] \in W[0]
  BY <1>0, <1>3, <1>5
<1>7. ASSUME NEW e \in 1..N, nidx[e - 1] \in W[e - 1] PROVE nidx[e] \in W[e]
  <2>1. e \in 0..N /\ e - 1 \in 0..N /\ e # 0 /\ e \in 1..Cube(n) - 1
    BY <1>0
  <2>2. nidx[e - 1] = FirstNode(e - 1, n)
    BY <1>7, <2>1
  <2>3. nidx[e] = Body(nidx)[e]
    BY <1>5
  <2>4. nidx[e] = nidx[e - 1] + 1 + (IF e % n = 0 THEN 1 ELSE 0) + (IF e % (n*n) = 0 THEN n + 1 ELSE 0)
    BY <2>1, <2>3
  <2>5. nidx[e] = FirstNode(e, n)
    <3> HIDE DEF N
    <3> QED
      BY <2>1, <2>2, <2>4, FirstNodeNext
  <2> QED
    BY <2>1, <2>5
<1> HIDE DEF W
<1>8. \A e \in 0..N : nidx[e] \in W[e]
  BY <1>0, <1>6, <1>7, StagesHold
<1>9. \A e \in 0..N : nidx[e] = FirstNode(e, n)
  BY <1>8 DEF W
<1> QED
  BY <1>1, <1>9

\* Where the corners of an element are, counted from its first node.
Corner == <<<<0, 0, 0>>, <<1, 0, 0>>, <<1, 1, 0>>, <<0, 1, 0>>,
            <<0, 0, 1>>, <<1, 0, 1>>, <<1, 1, 1>>, <<0, 1, 1>>>>

LEMMA CornerNode ==
  ASSUME NEW n \in Nat \ {0}, NEW e \in 0..Cube(n) - 1, NEW c \in 1..8
  PROVE  LET d == Digits(e, n)
         IN /\ Corner[c][1] \in 0..1 /\ Corner[c][2] \in 0..1 /\ Corner[c][3] \in 0..1
            /\ BuildMesh(n)[e][c] = Point(d.x + Corner[c][1], d.y + Corner[c][2], d.z + Corner[c][3], n + 1)
<1> DEFINE x == Digits(e, n).x
<1> DEFINE y == Digits(e, n).y
<1> DEFINE z == Digits(e, n).z
<1> DEFINE en == n + 1
<1> DEFINE f == Point(x, y, z, en)
<1>1. x \in 0..n - 1 /\ y \in 0..n - 1 /\ z \in 0..n - 1
  BY DigitsPoint
<1>2. BuildMesh(n)[e] = Nodes(f, en)
  BY BuiltMesh DEF FirstNode
<1> HIDE DEF x, y, z
<1>3. en \in Nat
  OBVIOUS
<1> HIDE DEF en
<1>4. /\ f = Point(x + 0, y + 0, z + 0, en) /\ f + 1 = Point(x + 1, y + 0, z + 0, en)
      /\ f + en + 1 = Point(x + 1, y + 1, z + 0, en) /\ f + en = Point(x + 0, y + 1, z + 0, en)
  BY <1>1, <1>3, SMT DEF Point
<1>5. /\ f + en*en = Point(x + 0, y + 0, z + 1, en) /\ f + en*en + 1 = Point(x + 1, y + 0, z + 1, en)
      /\ f + en*en + en + 1 = Point(x + 1, y + 1, z + 1, en)
      /\ f + en*en + en = Point(x + 0, y + 1, z + 1, en)
  BY <1>1, <1>3, SMT DEF Point
<1> HIDE DEF f
<1>6. /\ Corner[c][1] \in 0..1 /\ Corner[c][2] \in 0..1 /\ Corner[c][3] \in 0..1
      /\ Nodes(f, en)[c] = Point(x + Corner[c][1], y + Corner[c][2], z + Corner[c][3], en)
  <2>1. c = 1 \/ c = 2 \/ c = 3 \/ c = 4 \/ c = 5 \/ c = 6 \/ c = 7 \/ c = 8
    OBVIOUS
  <2>2. CASE c = 1
    BY <1>4, <2>2 DEF Corner, Nodes
  <2>3. CASE c = 2
    BY <1>4, <2>3 DEF Corner, Nodes
  <2>4. CASE c = 3
    BY <1>4, <2>4 DEF Corner, Nodes
  <2>5. CASE c = 4
    BY <1>4, <2>5 DEF Corner, Nodes
  <2>6. CASE c = 5
    BY <1>5, <2>6 DEF Corner, Nodes
  <2>7. CASE c = 6
    BY <1>5, <2>7 DEF Corner, Nodes
  <2>8. CASE c = 7
    BY <1>5, <2>8 DEF Corner, Nodes
  <2>9. CASE c = 8
    BY <1>5, <2>9 DEF Corner, Nodes
  <2> QED
    BY <2>1, <2>2, <2>3, <2>4, <2>5, <2>6, <2>7, <2>8, <2>9
<1> QED
  BY <1>2, <1>6 DEF x, y, z, en

\* The corners are nodes, and their digits are places of nodes.
LEMMA CornerDigits ==
  ASSUME NEW n \in Nat \ {0}, NEW e \in 0..Cube(n) - 1, NEW c \in 1..8
  PROVE  LET d == Digits(e, n)
             m == BuildMesh(n)[e][c]
         IN /\ m \in 0..Cube(n + 1) - 1
            /\ Digits(m, n + 1) = [x |-> d.x + Corner[c][1], y |-> d.y + Corner[c][2], z |-> d.z + Corner[c][3]]
<1> DEFINE x == Digits(e, n).x + Corner[c][1]
<1> DEFINE y == Digits(e, n).y + Corner[c][2]
<1> DEFINE z == Digits(e, n).z + Corner[c][3]
<1> DEFINE en == n + 1
<1> DEFINE m == BuildMesh(n)[e][c]
<1>1. /\ Digits(e, n).x \in 0..n - 1 /\ Digits(e, n).y \in 0..n - 1 /\ Digits(e, n).z \in 0..n - 1
  BY DigitsPoint
<1>2. /\ Corner[c][1] \in 0..1 /\ Corner[c][2] \in 0..1 /\ Corner[c][3] \in 0..1
      /\ m = Point(x, y, z, en)
  BY CornerNode
<1>3. x \in 0..en - 1 /\ y \in 0..en - 1 /\ z \in 0..en - 1 /\ en \in Nat \ {0}
  BY <1>1, <1>2
<1> HIDE DEF x, y, z, en, m
<1>4. m \in 0..Cube(en) - 1 /\ Digits(m, en) = [x |-> x, y |-> y, z |-> z]
  BY <1>2, <1>3, DigitsOf
<1> QED
  BY <1>4 DEF x, y, z, en, m

LEMMA LocDigits ==
  ASSUME NEW r, NEW side
  PROVE  Loc(r, side) = Digits(r, side)
  BY DEF Loc, Digits

LEMMA GlobalDigits ==
  ASSUME NEW r, NEW side, NEW n, NEW m
  PROVE  LET d == Digits(m, n + 1)
             l == Loc(r, side)
             all == side*n + 1
         IN GlobalNode(r, side, n, m) = (l.x*n + d.x) + (l.y*n + d.y)*all + (l.z*n + d.z)*all*all
  BY DEF Digits, GlobalNode

Tiled(r, side, n, nodelist) ==
  LET all == side*n + 1
      l == Loc(r, side)
  IN /\ r = l.x + side*l.y + side*side*l.z
     /\ \A e \in 0..Cube(n) - 1, c \in 1..8 :
          GlobalNode(r, side, n, nodelist[e][c]) =
            (l.x*n + (e % n) + Corner[c][1])
            + (l.y*n + ((e \div n) % n) + Corner[c][2])*all
            + (l.z*n + (e \div (n*n)) + Corner[c][3])*all*all

LEMMA MeshIsTiled ==
  ASSUME NEW n \in Nat \ {0}, NEW side \in Nat \ {0}, NEW r \in 0..Cube(side) - 1
  PROVE  Tiled(r, side, n, BuildMesh(n))
<1> DEFINE l == Loc(r, side)
<1> DEFINE all == side*n + 1
<1>1. l.x \in 0..side - 1 /\ l.y \in 0..side - 1 /\ l.z \in 0..side - 1 /\ r = Point(l.x, l.y, l.z, side)
  BY DigitsPoint, LocDigits
<1> DEFINE lx == l.x
<1> DEFINE ly == l.y
<1> DEFINE lz == l.z
<1>2. r = lx + side*ly + side*side*lz
  <2>1. lx \in 0..side - 1 /\ ly \in 0..side - 1 /\ lz \in 0..side - 1 /\ r = Point(lx, ly, lz, side)
    BY <1>1
  <2> HIDE DEF lx, ly, lz
  <2> QED
    BY <2>1, SMT DEF Point
<1>3. ASSUME NEW e \in 0..Cube(n) - 1, NEW c \in 1..8
      PROVE  GlobalNode(r, side, n, BuildMesh(n)[e][c]) =
               (lx*n + (e % n) + Corner[c][1])
               + (ly*n + ((e \div n) % n) + Corner[c][2])*all
               + (lz*n + (e \div (n*n)) + Corner[c][3])*all*all
  <2> DEFINE m == BuildMesh(n)[e][c]
  <2> DEFINE a == e % n
  <2> DEFINE b == (e \div n) % n
  <2> DEFINE d == e \div (n*n)
  <2> DEFINE c1 == Corner[c][1]
  <2> DEFINE c2 == Corner[c][2]
  <2> DEFINE c3 == Corner[c][3]
  <2>1. Digits(m, n + 1) = [x |-> a + c1, y |-> b + c2, z |-> d + c3]
    BY CornerDigits DEF Digits
  <2>2. a \in Int /\ b \in Int /\ d \in Int
    <3>1. Digits(e, n).x \in 0..n - 1 /\ Digits(e, n).y \in 0..n - 1 /\ Digits(e, n).z \in 0..n - 1
      BY DigitsPoint
    <3> QED
      BY <3>1 DEF Digits
  <2>3. c1 \in Int /\ c2 \in Int /\ c3 \in Int
    BY CornerNode
  <2>4. lx \in Int /\ ly \in Int /\ lz \in Int
    BY <1>1
  <2> HIDE DEF m, a, b, d, c1, c2, c3, lx, ly, lz
  <2>5. GlobalNode(r, side, n, m) = (lx*n + (a + c1)) + (ly*n + (b + c2))*all + (lz*n + (d + c3))*all*all
    BY <2>1, GlobalDigits DEF lx, ly, lz
  <2>6. /\ lx*n + (a + c1) = lx*n + a + c1 /\ ly*n + (b + c2) = ly*n + b + c2
        /\ lz*n + (d + c3) = lz*n + d + c3
    BY <2>2, <2>3, <2>4, SMT
  <2> QED
    BY <2>5, <2>6 DEF m, a, b, d, c1, c2, c3
<1> QED
  BY <1>2, <1>3 DEF Tiled

-----------------------------------------------------------------------------
(***************************************************************************)
(* InitMeshDecomp: the rounded cube root.                                  *)
(***************************************************************************)
LEMMA CubeGrows ==
  ASSUME NEW a \in Nat, NEW b \in Nat, a <= b
  PROVE  Cube(a) <= Cube(b) /\ Cube(a) \in Nat /\ Cube(b) \in Nat
<1>1. a*a <= b*a /\ b*a <= b*b
  BY ProductMonotone
<1> DEFINE aa == a*a
<1> DEFINE bb == b*b
<1>2. aa <= bb /\ aa \in Nat /\ bb \in Nat
  <2>1. a*a \in Nat /\ b*b \in Nat /\ b*a \in Nat
    BY SMT
  <2> QED
    BY <1>1, <2>1
<1>3. Cube(a) = aa*a /\ Cube(b) = bb*b
  BY DEF Cube
<1> HIDE DEF aa, bb
<1>4. aa*a <= bb*a /\ bb*a <= bb*b
  BY <1>2, ProductMonotone
<1>5. aa*a \in Nat /\ bb*a \in Nat /\ bb*b \in Nat
  BY <1>2, SMT
<1> QED
  BY <1>3, <1>4, <1>5

LEMMA CubeSteps ==
  ASSUME NEW t \in Nat
  PROVE  /\ Cube(2*t - 1) \in Int /\ Cube(2*t + 1) \in Nat
         /\ Cube(2*t - 1) <= 8*Cube(t) /\ 8*Cube(t) < Cube(2*t + 1)
         /\ t <= Cube(t) /\ 8*t < Cube(2*t + 1)
<1> DEFINE tt == t*t
<1> DEFINE ttt == tt*t
<1>1. /\ Cube(t) = ttt
      /\ Cube(2*t - 1) = 8*ttt - 12*tt + 6*t - 1
      /\ Cube(2*t + 1) = 8*ttt + 12*tt + 6*t + 1
  BY SMT DEF Cube
<1>2. tt \in Nat /\ ttt \in Nat
  BY SMT
<1>3. t <= tt /\ tt <= ttt
  <2>1. CASE t = 0
    BY <2>1, SMT
  <2>2. CASE t # 0
    <3>1. 1*t <= t*t
      BY <2>2, ProductMonotone
    <3>2. 1*tt <= t*tt
      <4> HIDE DEF tt
      <4> QED
        BY <2>2, <1>2, ProductMonotone
    <3>3. 1*t = t /\ 1*tt = tt /\ t*tt = ttt
      BY SMT
    <3> QED
      BY <3>1, <3>2, <3>3
  <2> QED
    BY <2>1, <2>2
<1> HIDE DEF tt, ttt
<1> QED
  BY <1>1, <1>2, <1>3

LEMMA SideIs ==
  ASSUME NEW N \in Nat
  PROVE  /\ Side(N) \in 0..N
         /\ \A t \in Nat : Cube(t) = N => Side(N) = t
<1> DEFINE Fit(t) == Cube(2*t - 1) <= 8*N /\ 8*N < Cube(2*t + 1)
<1>1. Side(N) = CHOOSE t \in 0..N : Fit(t)
  BY DEF Side
<1>2. \E t \in 0..N : Fit(t)
  <2> DEFINE T == {t \in Nat : 8*N < Cube(2*t + 1)}
  <2>1. N \in T
    BY CubeSteps
  <2>2. PICK t \in T : \A u \in T : t <= u
    <3>1. T \subseteq Nat /\ T # {}
      BY <2>1
    <3> HIDE DEF T
    <3> QED
      BY <3>1, NatHasLeast
  <2>3. t \in 0..N /\ t \in Nat
    BY <2>1, <2>2
  <2>4. CASE t = 0
    <3>1. 2*t - 1 = -1 /\ Cube(-1) = -1
      BY <2>4, SMT DEF Cube
    <3>2. Cube(2*t - 1) <= 8*N
      BY <3>1
    <3> QED
      BY <2>2, <2>3, <3>2
  <2>5. CASE t # 0
    <3>1. t - 1 \in Nat /\ t - 1 \notin T
      BY <2>2, <2>3, <2>5
    <3>2. ~(8*N < Cube(2*(t - 1) + 1)) /\ 2*(t - 1) + 1 = 2*t - 1
      BY <2>3, <3>1
    <3>3. Cube(2*t - 1) \in Int
      BY <2>3, CubeSteps
    <3>4. Cube(2*t - 1) <= 8*N
      BY <3>2, <3>3
    <3> QED
      BY <2>2, <2>3, <3>4
  <2> QED
    BY <2>4, <2>5
<1> DEFINE s == Side(N)
<1>3. s \in 0..N /\ Fit(s)
  <2> HIDE DEF Fit
  <2> QED
    BY <1>1, <1>2
<1>4. ASSUME NEW t \in Nat, Cube(t) = N PROVE s = t
  <2>1. Cube(2*t - 1) <= 8*N /\ 8*N < Cube(2*t + 1) /\ Cube(2*t - 1) \in Int /\ Cube(2*t + 1) \in Int
    BY <1>4, CubeSteps
  <2>2. Cube(2*s - 1) <= 8*N /\ 8*N < Cube(2*s + 1) /\ Cube(2*s - 1) \in Int /\ Cube(2*s + 1) \in Int
    BY <1>3, CubeSteps
  <2>3. s \in Nat
    BY <1>3
  <2> HIDE DEF s
  <2>4. ASSUME s < t PROVE FALSE
    <3> DEFINE a == 2*s + 1
    <3> DEFINE b == 2*t - 1
    <3>1. a \in Nat /\ b \in Nat /\ a <= b
      BY <2>3, <2>4
    <3>2. Cube(a) <= Cube(b)
      <4> HIDE DEF a, b
      <4> QED
        BY <3>1, CubeGrows
    <3> QED
      BY <2>1, <2>2, <3>2
  <2>5. ASSUME t < s PROVE FALSE
    <3> DEFINE a == 2*t + 1
    <3> DEFINE b == 2*s - 1
    <3>1. a \in Nat /\ b \in Nat /\ a <= b
      BY <2>3, <2>5
    <3>2. Cube(a) <= Cube(b)
      <4> HIDE DEF a, b
      <4> QED
        BY <3>1, CubeGrows
    <3> QED
      BY <2>1, <2>2, <3>2
  <2> QED
    BY <2>3, <2>4, <2>5
<1> QED
  BY <1>3, <1>4

LEMMA CubesPass ==
  ASSUME NEW N \in Nat \ {0}
  PROVE  /\ IsCube(N) => Side(N) \in 1..N /\ Cube(Side(N)) = N
         /\ ~IsCube(N) => \A t \in 1..N : Cube(t) # N
<1>1. Side(N) \in 0..N /\ \A t \in Nat : Cube(t) = N => Side(N) = t
  BY SideIs
<1>2. Cube(0) = 0
  BY SMT DEF Cube
<1> QED
  BY <1>1, <1>2 DEF IsCube

-----------------------------------------------------------------------------
(***************************************************************************)
(* The faces of a domain: an element is on one by its digit along the axis *)
(* across the face, and at a place there by the other two.                 *)
(***************************************************************************)
Depth(f, d) == IF f \in {"zetaM", "zetaP"} THEN d.z ELSE IF f \in {"etaM", "etaP"} THEN d.y ELSE d.x
Row(f, d) == IF f \in {"zetaM", "zetaP"} THEN d.y ELSE d.z
Col(f, d) == IF f \in {"xiM", "xiP"} THEN d.y ELSE d.x
Rim(f, n) == IF f \in {"zetaM", "etaM", "xiM"} THEN 0 ELSE n - 1

AtRim(f, e, n) == Depth(f, Digits(e, n)) = Rim(f, n)

LEMMA SixFaces ==
  /\ ToSet(Faces) = {"zetaM", "zetaP", "etaM", "etaP", "xiM", "xiP"}
  /\ \A i \in 1..6 : Faces[i] \in ToSet(Faces)
  /\ \A f \in ToSet(Faces) : \E i \in 1..6 : Faces[i] = f
<1>1. DOMAIN Faces = 1..6
  BY DEF Faces
<1>2. ToSet(Faces) = {Faces[i] : i \in 1..6}
  BY <1>1 DEF ToSet
<1>3. 1..6 = {1, 2, 3, 4, 5, 6}
  OBVIOUS
<1>4. {Faces[i] : i \in {1, 2, 3, 4, 5, 6}} = {"zetaM", "zetaP", "etaM", "etaP", "xiM", "xiP"}
  BY DEF Faces
<1> QED
  BY <1>2, <1>3, <1>4

LEMMA OnFacePoint ==
  ASSUME NEW n \in Nat \ {0}, NEW i \in 0..n - 1, NEW j \in 0..n - 1
  PROVE  /\ OnFace("zetaM", i, j, n) = Point(j, i, 0, n) /\ OnFace("zetaP", i, j, n) = Point(j, i, n - 1, n)
         /\ OnFace("etaM", i, j, n) = Point(j, 0, i, n) /\ OnFace("etaP", i, j, n) = Point(j, n - 1, i, n)
         /\ OnFace("xiM", i, j, n) = Point(0, j, i, n) /\ OnFace("xiP", i, j, n) = Point(n - 1, j, i, n)
<1>1. OnFace("zetaM", i, j, n) = i*n + j
  BY DEF OnFace
<1>2. OnFace("zetaP", i, j, n) = i*n + j + Cube(n) - n*n
  BY DEF OnFace
<1>3. OnFace("etaM", i, j, n) = i*n*n + j
  BY DEF OnFace
<1>4. OnFace("etaP", i, j, n) = i*n*n + j + n*n - n
  BY DEF OnFace
<1>5. OnFace("xiM", i, j, n) = i*n*n + j*n
  BY DEF OnFace
<1>6. OnFace("xiP", i, j, n) = i*n*n + j*n + n - 1
  BY DEF OnFace
<1>7. /\ i*n + j = Point(j, i, 0, n) /\ i*n + j + Cube(n) - n*n = Point(j, i, n - 1, n)
      /\ i*n*n + j = Point(j, 0, i, n) /\ i*n*n + j + n*n - n = Point(j, n - 1, i, n)
      /\ i*n*n + j*n = Point(0, j, i, n) /\ i*n*n + j*n + n - 1 = Point(n - 1, j, i, n)
  BY SMT DEF Point, Cube
<1> QED
  BY <1>1, <1>2, <1>3, <1>4, <1>5, <1>6, <1>7

\* The element at place (i, j) of a face, by its digits.
FacePoint(f, i, j, n) ==
  Point(IF f \in {"xiM", "xiP"} THEN Rim(f, n) ELSE j,
        IF f \in {"zetaM", "zetaP"} THEN i ELSE IF f \in {"xiM", "xiP"} THEN j ELSE Rim(f, n),
        IF f \in {"zetaM", "zetaP"} THEN Rim(f, n) ELSE i, n)

LEMMA OnFaceIs ==
  ASSUME NEW n \in Nat \ {0}, NEW f \in ToSet(Faces), NEW i \in 0..n - 1, NEW j \in 0..n - 1
  PROVE  OnFace(f, i, j, n) = FacePoint(f, i, j, n)
<1>1. f \in {"zetaM", "zetaP", "etaM", "etaP", "xiM", "xiP"}
  BY SixFaces
<1>2. CASE f = "zetaM"
  BY <1>2, OnFacePoint DEF FacePoint, Rim
<1>3. CASE f = "zetaP"
  BY <1>3, OnFacePoint DEF FacePoint, Rim
<1>4. CASE f = "etaM"
  BY <1>4, OnFacePoint DEF FacePoint, Rim
<1>5. CASE f = "etaP"
  BY <1>5, OnFacePoint DEF FacePoint, Rim
<1>6. CASE f = "xiM"
  BY <1>6, OnFacePoint DEF FacePoint, Rim
<1>7. CASE f = "xiP"
  BY <1>7, OnFacePoint DEF FacePoint, Rim
<1> QED
  BY <1>1, <1>2, <1>3, <1>4, <1>5, <1>6, <1>7

LEMMA FaceDigits ==
  ASSUME NEW n \in Nat \ {0}, NEW f \in ToSet(Faces), NEW i \in 0..n - 1, NEW j \in 0..n - 1
  PROVE  LET e == OnFace(f, i, j, n)
             d == Digits(e, n)
         IN e \in 0..Cube(n) - 1 /\ AtRim(f, e, n) /\ Row(f, d) = i /\ Col(f, d) = j
<1> DEFINE x == IF f \in {"xiM", "xiP"} THEN Rim(f, n) ELSE j
<1> DEFINE y == IF f \in {"zetaM", "zetaP"} THEN i ELSE IF f \in {"xiM", "xiP"} THEN j ELSE Rim(f, n)
<1> DEFINE z == IF f \in {"zetaM", "zetaP"} THEN Rim(f, n) ELSE i
<1> DEFINE e == OnFace(f, i, j, n)
<1>1. e = Point(x, y, z, n)
  BY OnFaceIs DEF FacePoint
<1>2. x \in 0..n - 1 /\ y \in 0..n - 1 /\ z \in 0..n - 1
  BY DEF Rim
<1>3. f \in {"zetaM", "zetaP", "etaM", "etaP", "xiM", "xiP"}
  BY SixFaces
<1>4. LET d == [x |-> x, y |-> y, z |-> z] IN Depth(f, d) = Rim(f, n) /\ Row(f, d) = i /\ Col(f, d) = j
  BY <1>3 DEF Depth, Row, Col
<1> HIDE DEF x, y, z, e
<1>5. e \in 0..Cube(n) - 1 /\ Digits(e, n) = [x |-> x, y |-> y, z |-> z]
  BY <1>1, <1>2, DigitsOf
<1> QED
  BY <1>4, <1>5 DEF AtRim, e

LEMMA RimOnFace ==
  ASSUME NEW n \in Nat \ {0}, NEW f \in ToSet(Faces), NEW e \in 0..Cube(n) - 1, AtRim(f, e, n)
  PROVE  LET d == Digits(e, n)
         IN Row(f, d) \in 0..n - 1 /\ Col(f, d) \in 0..n - 1 /\ OnFace(f, Row(f, d), Col(f, d), n) = e
<1> DEFINE d == Digits(e, n)
<1> DEFINE i == Row(f, d)
<1> DEFINE j == Col(f, d)
<1>1. d.x \in 0..n - 1 /\ d.y \in 0..n - 1 /\ d.z \in 0..n - 1 /\ e = Point(d.x, d.y, d.z, n)
  BY DigitsPoint
<1>2. i \in 0..n - 1 /\ j \in 0..n - 1
  BY <1>1 DEF Row, Col
<1>3. Depth(f, d) = Rim(f, n)
  BY DEF AtRim
<1>4. f \in {"zetaM", "zetaP", "etaM", "etaP", "xiM", "xiP"}
  BY SixFaces
<1>5. FacePoint(f, i, j, n) = Point(d.x, d.y, d.z, n)
  <2> HIDE DEF d
  <2>1. CASE f \in {"zetaM", "zetaP"}
    BY <1>3, <2>1 DEF Depth, Row, Col, FacePoint
  <2>2. CASE f \in {"etaM", "etaP"}
    BY <1>3, <2>2 DEF Depth, Row, Col, FacePoint
  <2>3. CASE f \in {"xiM", "xiP"}
    BY <1>3, <2>3 DEF Depth, Row, Col, FacePoint
  <2> QED
    BY <1>4, <2>1, <2>2, <2>3
<1> HIDE DEF d, i, j
<1>6. OnFace(f, i, j, n) = FacePoint(f, i, j, n)
  BY <1>2, OnFaceIs
<1> QED
  BY <1>1, <1>2, <1>5, <1>6 DEF i, j, d

-----------------------------------------------------------------------------
(***************************************************************************)
(* SetupBoundaryConditions by digits: the condition of every element face, *)
(* and the index of the ghost behind it.                                   *)
(***************************************************************************)
Shared(f, r, side) == HasNeighbour(r, side, Towards[f])

Condition(f, e, r, side, n) ==
  IF ~AtRim(f, e, n) THEN "INNER"
  ELSE IF Shared(f, r, side) THEN "COMM"
  ELSE IF f \in {"zetaM", "etaM", "xiM"} THEN "SYMM" ELSE "FREE"

GhostOf(f, e, r, side, n) ==
  GhostStart(r, side, n, f) + Row(f, Digits(e, n))*n + Col(f, Digits(e, n))

LEMMA BoundaryIs ==
  ASSUME NEW n \in Nat \ {0}, NEW r, NEW side, NEW links,
         NEW f \in ToSet(Faces), f \in DOMAIN links, NEW e \in 0..Cube(n) - 1
  PROVE  LET b == Boundary(r, side, n, links)
         IN /\ b.bc[f][e] = Condition(f, e, r, side, n)
            /\ b.links[f][e] = IF AtRim(f, e, n) /\ Shared(f, r, side) THEN GhostOf(f, e, r, side, n)
                               ELSE links[f][e]
<1> DEFINE Places == {p \in (0..n - 1) \X (0..n - 1) : OnFace(f, p[1], p[2], n) = e}
<1> DEFINE place == CHOOSE p \in Places : TRUE
<1> DEFINE i == Row(f, Digits(e, n))
<1> DEFINE j == Col(f, Digits(e, n))
<1> DEFINE b == Boundary(r, side, n, links)
<1>1. b.bc[f][e] = IF Places = {} THEN "INNER" ELSE IF Shared(f, r, side) THEN "COMM"
                   ELSE IF f \in {"zetaM", "etaM", "xiM"} THEN "SYMM" ELSE "FREE"
  BY DEF Boundary, Shared
<1>2. b.links[f][e] = IF Places = {} \/ ~Shared(f, r, side) THEN links[f][e]
                      ELSE GhostStart(r, side, n, f) + place[1]*n + place[2]
  BY DEF Boundary, Shared
<1>3. ASSUME NEW p \in Places PROVE AtRim(f, e, n) /\ p[1] = i /\ p[2] = j
  <2>1. p[1] \in 0..n - 1 /\ p[2] \in 0..n - 1 /\ OnFace(f, p[1], p[2], n) = e
    OBVIOUS
  <2> DEFINE p1 == p[1]
  <2> DEFINE p2 == p[2]
  <2>2. p1 \in 0..n - 1 /\ p2 \in 0..n - 1 /\ OnFace(f, p1, p2, n) = e
    BY <2>1
  <2> HIDE DEF p1, p2, Places, i, j
  <2>3. AtRim(f, e, n) /\ Row(f, Digits(e, n)) = p1 /\ Col(f, Digits(e, n)) = p2
    BY <2>2, FaceDigits
  <2> QED
    BY <2>3 DEF p1, p2, i, j
<1>4. ASSUME AtRim(f, e, n) PROVE <<i, j>> \in Places
  BY <1>4, RimOnFace
<1> HIDE DEF Places, i, j, b
<1>5. CASE AtRim(f, e, n)
  <2>1. Places # {} /\ place \in Places
    BY <1>4, <1>5
  <2>2. place[1] = i /\ place[2] = j
    BY <1>3, <2>1
  <2> QED
    BY <1>1, <1>2, <1>5, <2>1, <2>2 DEF Condition, GhostOf, i, j, b
<1>6. CASE ~AtRim(f, e, n)
  <2>1. Places = {}
    BY <1>3, <1>6
  <2> QED
    BY <1>1, <1>2, <1>6, <2>1 DEF Condition, b
<1> QED
  BY <1>5, <1>6

LEMMA LinksAre ==
  ASSUME NEW n \in Nat \ {0}
  PROVE  /\ DOMAIN Connectivities(n) = ToSet(Faces)
         /\ \A e \in 0..Cube(n) - 1 :
              LET c == Connectivities(n)
              IN /\ c["xiM"][e] = (IF e < 1 THEN e ELSE e - 1)
                 /\ c["xiP"][e] = (IF e >= Cube(n) - 1 THEN e ELSE e + 1)
                 /\ c["etaM"][e] = (IF e < n THEN e ELSE e - n)
                 /\ c["etaP"][e] = (IF e >= Cube(n) - n THEN e ELSE e + n)
                 /\ c["zetaM"][e] = (IF e < n*n THEN e ELSE e - n*n)
                 /\ c["zetaP"][e] = (IF e >= Cube(n) - n*n THEN e ELSE e + n*n)
<1>1. DOMAIN Connectivities(n) = {"xiM", "xiP", "etaM", "etaP", "zetaM", "zetaP"}
  BY DEF Connectivities
<1>2. DOMAIN Connectivities(n) = ToSet(Faces)
  BY <1>1, SixFaces
<1> QED
  BY <1>2 DEF Connectivities

-----------------------------------------------------------------------------
(***************************************************************************)
(* The element behind a face inside the domain is one step further along   *)
(* the axis across the face, and the corners that meet there are one node. *)
(***************************************************************************)
LEMMA SixSteps ==
  ASSUME NEW f \in ToSet(Faces)
  PROVE  /\ f \in {"zetaM", "zetaP", "etaM", "etaP", "xiM", "xiP"}
         /\ Towards[f] = IF f = "zetaM" THEN <<0, 0, -1>> ELSE IF f = "zetaP" THEN <<0, 0, 1>>
                         ELSE IF f = "etaM" THEN <<0, -1, 0>> ELSE IF f = "etaP" THEN <<0, 1, 0>>
                         ELSE IF f = "xiM" THEN <<-1, 0, 0>> ELSE <<1, 0, 0>>
  BY SixFaces DEF Towards

LEMMA LinkInside ==
  ASSUME NEW n \in Nat \ {0}, NEW f \in ToSet(Faces), NEW e \in 0..Cube(n) - 1, ~AtRim(f, e, n)
  PROVE  LET d == Digits(e, n)
             to == Towards[f]
         IN /\ d.x + to[1] \in 0..n - 1 /\ d.y + to[2] \in 0..n - 1 /\ d.z + to[3] \in 0..n - 1
            /\ Connectivities(n)[f][e] = Point(d.x + to[1], d.y + to[2], d.z + to[3], n)
<1> DEFINE x == Digits(e, n).x
<1> DEFINE y == Digits(e, n).y
<1> DEFINE z == Digits(e, n).z
<1> DEFINE u == x + Towards[f][1]
<1> DEFINE v == y + Towards[f][2]
<1> DEFINE w == z + Towards[f][3]
<1> DEFINE q == Point(u, v, w, n)
<1>1. x \in 0..n - 1 /\ y \in 0..n - 1 /\ z \in 0..n - 1 /\ e = Point(x, y, z, n)
  BY DigitsPoint
<1>2. /\ (f = "zetaM" => z # 0 /\ u = x /\ v = y /\ w = z - 1)
      /\ (f = "zetaP" => z # n - 1 /\ u = x /\ v = y /\ w = z + 1)
      /\ (f = "etaM" => y # 0 /\ u = x /\ v = y - 1 /\ w = z)
      /\ (f = "etaP" => y # n - 1 /\ u = x /\ v = y + 1 /\ w = z)
      /\ (f = "xiM" => x # 0 /\ u = x - 1 /\ v = y /\ w = z)
      /\ (f = "xiP" => x # n - 1 /\ u = x + 1 /\ v = y /\ w = z)
  BY <1>1, SixSteps DEF AtRim, Depth, Rim
<1>3. f \in {"zetaM", "zetaP", "etaM", "etaP", "xiM", "xiP"}
  BY SixFaces
<1>4. u \in 0..n - 1 /\ v \in 0..n - 1 /\ w \in 0..n - 1
  <2> HIDE DEF x, y, z, u, v, w
  <2> QED
    BY <1>1, <1>2, <1>3
<1> HIDE DEF x, y, z, u, v, w
<1>5. q \in 0..Cube(n) - 1 /\ Cube(n) \in Nat
  BY <1>4, PointRange
<1>6. /\ (f = "zetaM" => q = e - n*n) /\ (f = "zetaP" => q = e + n*n)
      /\ (f = "etaM" => q = e - n) /\ (f = "etaP" => q = e + n)
      /\ (f = "xiM" => q = e - 1) /\ (f = "xiP" => q = e + 1)
  <2>1. f = "zetaM" => q = e - n*n
    BY <1>1, <1>2, SMT DEF Point
  <2>2. f = "zetaP" => q = e + n*n
    BY <1>1, <1>2, SMT DEF Point
  <2>3. f = "etaM" => q = e - n
    BY <1>1, <1>2, SMT DEF Point
  <2>4. f = "etaP" => q = e + n
    BY <1>1, <1>2, SMT DEF Point
  <2>5. f = "xiM" => q = e - 1
    BY <1>1, <1>2, SMT DEF Point
  <2>6. f = "xiP" => q = e + 1
    BY <1>1, <1>2, SMT DEF Point
  <2> QED
    BY <2>1, <2>2, <2>3, <2>4, <2>5, <2>6
<1> DEFINE N == Cube(n)
<1> DEFINE nn == n*n
<1>7. nn \in Int /\ N \in Nat /\ q \in 0..N - 1 /\ e \in 0..N - 1
  BY <1>5
<1>8. Connectivities(n)[f][e] = q
  <2> DEFINE c == Connectivities(n)
  <2>1. /\ c["xiM"][e] = (IF e < 1 THEN e ELSE e - 1)
        /\ c["xiP"][e] = (IF e >= N - 1 THEN e ELSE e + 1)
        /\ c["etaM"][e] = (IF e < n THEN e ELSE e - n)
        /\ c["etaP"][e] = (IF e >= N - n THEN e ELSE e + n)
        /\ c["zetaM"][e] = (IF e < nn THEN e ELSE e - nn)
        /\ c["zetaP"][e] = (IF e >= N - nn THEN e ELSE e + nn)
    BY LinksAre
  <2>2. /\ (f = "zetaM" => q = e - nn) /\ (f = "zetaP" => q = e + nn)
        /\ (f = "etaM" => q = e - n) /\ (f = "etaP" => q = e + n)
        /\ (f = "xiM" => q = e - 1) /\ (f = "xiP" => q = e + 1)
    BY <1>6
  <2> HIDE DEF c, q, N, nn
  <2>3. CASE f = "zetaM"
    BY <1>7, <2>1, <2>2, <2>3 DEF c
  <2>4. CASE f = "zetaP"
    BY <1>7, <2>1, <2>2, <2>4 DEF c
  <2>5. CASE f = "etaM"
    BY <1>7, <2>1, <2>2, <2>5 DEF c
  <2>6. CASE f = "etaP"
    BY <1>7, <2>1, <2>2, <2>6 DEF c
  <2>7. CASE f = "xiM"
    BY <1>7, <2>1, <2>2, <2>7 DEF c
  <2>8. CASE f = "xiP"
    BY <1>7, <2>1, <2>2, <2>8 DEF c
  <2> QED
    BY <1>3, <2>3, <2>4, <2>5, <2>6, <2>7, <2>8
<1> QED
  BY <1>4, <1>8 DEF u, v, w, x, y, z

LEMMA MeetingCorners ==
  ASSUME NEW f \in ToSet(Faces), NEW p \in Meeting(f)
  PROVE  /\ p[1] \in 1..8 /\ p[2] \in 1..8
         /\ Corner[p[1]][1] = Towards[f][1] + Corner[p[2]][1]
         /\ Corner[p[1]][2] = Towards[f][2] + Corner[p[2]][2]
         /\ Corner[p[1]][3] = Towards[f][3] + Corner[p[2]][3]
         /\ f = "xiM" => Corner[p[1]][1] = 0
         /\ f = "etaM" => Corner[p[1]][2] = 0
         /\ f = "zetaM" => Corner[p[1]][3] = 0
<1>1. f \in {"zetaM", "zetaP", "etaM", "etaP", "xiM", "xiP"}
  BY SixFaces
<1>2. CASE f \in {"xiM", "xiP"}
  <2>1. \/ f = "xiM" /\ p \in {<<1, 2>>, <<4, 3>>, <<5, 6>>, <<8, 7>>}
        \/ f = "xiP" /\ p \in {<<2, 1>>, <<3, 4>>, <<6, 5>>, <<7, 8>>}
    BY <1>2 DEF Meeting
  <2> QED
    BY <2>1, SixSteps DEF Corner
<1>3. CASE f \in {"etaM", "etaP"}
  <2>1. \/ f = "etaM" /\ p \in {<<1, 4>>, <<2, 3>>, <<5, 8>>, <<6, 7>>}
        \/ f = "etaP" /\ p \in {<<4, 1>>, <<3, 2>>, <<8, 5>>, <<7, 6>>}
    BY <1>3 DEF Meeting
  <2> QED
    BY <2>1, SixSteps DEF Corner
<1>4. CASE f \in {"zetaM", "zetaP"}
  <2>1. \/ f = "zetaM" /\ p \in {<<1, 5>>, <<2, 6>>, <<3, 7>>, <<4, 8>>}
        \/ f = "zetaP" /\ p \in {<<5, 1>>, <<6, 2>>, <<7, 3>>, <<8, 4>>}
    BY <1>4 DEF Meeting
  <2> QED
    BY <2>1, SixSteps DEF Corner
<1> QED
  BY <1>1, <1>2, <1>3, <1>4

LEMMA CornersMeet ==
  ASSUME NEW n \in Nat \ {0}, NEW f \in ToSet(Faces), NEW e \in 0..Cube(n) - 1, ~AtRim(f, e, n),
         NEW p \in Meeting(f)
  PROVE  BuildMesh(n)[e][p[1]] = BuildMesh(n)[Connectivities(n)[f][e]][p[2]]
<1> DEFINE q == Connectivities(n)[f][e]
<1> DEFINE x == Digits(e, n).x
<1> DEFINE y == Digits(e, n).y
<1> DEFINE z == Digits(e, n).z
<1> DEFINE u == x + Towards[f][1]
<1> DEFINE v == y + Towards[f][2]
<1> DEFINE w == z + Towards[f][3]
<1> DEFINE p1 == p[1]
<1> DEFINE p2 == p[2]
<1>1. u \in 0..n - 1 /\ v \in 0..n - 1 /\ w \in 0..n - 1 /\ q = Point(u, v, w, n)
  BY LinkInside
<1>2. /\ p1 \in 1..8 /\ p2 \in 1..8 /\ Corner[p1][1] = Towards[f][1] + Corner[p2][1]
      /\ Corner[p1][2] = Towards[f][2] + Corner[p2][2] /\ Corner[p1][3] = Towards[f][3] + Corner[p2][3]
  BY MeetingCorners
<1>3. x \in 0..n - 1 /\ y \in 0..n - 1 /\ z \in 0..n - 1
  BY DigitsPoint
<1>4. Towards[f][1] \in Int /\ Towards[f][2] \in Int /\ Towards[f][3] \in Int
  BY SixSteps
<1> HIDE DEF p1, p2
<1>5. /\ Corner[p1][1] \in 0..1 /\ Corner[p1][2] \in 0..1 /\ Corner[p1][3] \in 0..1
      /\ BuildMesh(n)[e][p1] = Point(x + Corner[p1][1], y + Corner[p1][2], z + Corner[p1][3], n + 1)
  BY <1>2, CornerNode
<1> HIDE DEF q, u, v, w
<1>6. q \in 0..Cube(n) - 1 /\ Digits(q, n) = [x |-> u, y |-> v, z |-> w]
  BY <1>1, DigitsOf
<1>7. /\ Corner[p2][1] \in 0..1 /\ Corner[p2][2] \in 0..1 /\ Corner[p2][3] \in 0..1
      /\ BuildMesh(n)[q][p2] = Point(u + Corner[p2][1], v + Corner[p2][2], w + Corner[p2][3], n + 1)
  BY <1>2, <1>6, CornerNode
<1> HIDE DEF x, y, z
<1>8. x + Corner[p1][1] = u + Corner[p2][1] /\ y + Corner[p1][2] = v + Corner[p2][2]
      /\ z + Corner[p1][3] = w + Corner[p2][3]
  BY <1>2, <1>3, <1>4, <1>5, <1>7 DEF u, v, w
<1> QED
  BY <1>5, <1>7, <1>8 DEF p1, p2, q

-----------------------------------------------------------------------------
(***************************************************************************)
(* SetupSymmetryPlanes: the nodes of a plane are those whose digit across  *)
(* it is zero, on a rank at the origin of that axis.                       *)
(***************************************************************************)
XPlane(n, en) == {i*en*en + j*en : i, j \in 0..n}
YPlane(n, en) == {i*en*en + j : i, j \in 0..n}
ZPlane(n, en) == {i*en + j : i, j \in 0..n}

LEMMA NodeOnPlane ==
  ASSUME NEW n \in Nat \ {0}, NEW m \in 0..Cube(n + 1) - 1
  PROVE  LET d == Digits(m, n + 1)
         IN (d.x = 0 <=> m \in XPlane(n, n + 1)) /\ (d.y = 0 <=> m \in YPlane(n, n + 1)) /\ (d.z = 0 <=> m \in ZPlane(n, n + 1))
<1> DEFINE en == n + 1
<1> DEFINE x == Digits(m, en).x
<1> DEFINE y == Digits(m, en).y
<1> DEFINE z == Digits(m, en).z
<1>1. en \in Nat \ {0} /\ 0..n = 0..en - 1 /\ 0 \in 0..en - 1
  OBVIOUS
<1> HIDE DEF en
<1>2. m \in 0..Cube(en) - 1
  BY DEF en
<1>3. x \in 0..en - 1 /\ y \in 0..en - 1 /\ z \in 0..en - 1 /\ m = Point(x, y, z, en)
  BY <1>1, <1>2, DigitsPoint
<1>3a. x \in 0..n /\ y \in 0..n /\ z \in 0..n
  BY <1>1, <1>3
<1>4. ASSUME NEW i \in 0..n, NEW j \in 0..n
      PROVE  /\ i*en*en + j*en = Point(0, j, i, en) /\ i*en*en + j = Point(j, 0, i, en)
             /\ i*en + j = Point(j, i, 0, en)
  <2>1. en \in Int /\ i \in Int /\ j \in Int
    BY <1>1
  <2> QED
    BY <2>1, SMT DEF Point
<1>5. ASSUME NEW i \in 0..n, NEW j \in 0..n
      PROVE  /\ Digits(i*en*en + j*en, en).x = 0 /\ Digits(i*en*en + j, en).y = 0
             /\ Digits(i*en + j, en).z = 0
  <2>1. /\ Digits(Point(0, j, i, en), en) = [x |-> 0, y |-> j, z |-> i]
        /\ Digits(Point(j, 0, i, en), en) = [x |-> j, y |-> 0, z |-> i]
        /\ Digits(Point(j, i, 0, en), en) = [x |-> j, y |-> i, z |-> 0]
    BY <1>1, DigitsOf
  <2> QED
    BY <1>4, <2>1
<1> HIDE DEF x, y, z
<1>6. x = 0 => m = z*en*en + y*en
  BY <1>3, <1>3a, <1>4
<1>7. y = 0 => m = z*en*en + x
  BY <1>3, <1>3a, <1>4
<1>8. z = 0 => m = y*en + x
  BY <1>3, <1>3a, <1>4
<1>9. x = 0 <=> m \in XPlane(n, en)
  BY <1>3a, <1>5, <1>6 DEF x, XPlane
<1>10. y = 0 <=> m \in YPlane(n, en)
  BY <1>3a, <1>5, <1>7 DEF y, YPlane
<1>11. z = 0 <=> m \in ZPlane(n, en)
  BY <1>3a, <1>5, <1>8 DEF z, ZPlane
<1> QED
  BY <1>9, <1>10, <1>11 DEF x, y, z, en

LEMMA SharedBelow ==
  ASSUME NEW r, NEW side
  PROVE  /\ Shared("xiM", r, side) <=> Loc(r, side).x # 0
         /\ Shared("etaM", r, side) <=> Loc(r, side).y # 0
         /\ Shared("zetaM", r, side) <=> Loc(r, side).z # 0
<1>1. /\ Towards["xiM"] = <<-1, 0, 0>> /\ Towards["etaM"] = <<0, -1, 0>> /\ Towards["zetaM"] = <<0, 0, -1>>
  BY SixSteps, SixFaces
<1>2. -1 # 0 /\ -1 # 1 /\ 0 # 1
  OBVIOUS
<1> QED
  BY <1>1, <1>2 DEF Shared, HasNeighbour

\* The corners of the element face across an axis have the element's digit.
LEMMA FaceCorners ==
  ASSUME NEW n \in Nat \ {0}, NEW e \in 0..Cube(n) - 1
  PROVE  /\ \A p \in Meeting("xiM") : LET m == BuildMesh(n)[e][p[1]]
              IN m \in 0..Cube(n + 1) - 1 /\ Digits(m, n + 1).x = Digits(e, n).x
         /\ \A p \in Meeting("etaM") : LET m == BuildMesh(n)[e][p[1]]
              IN m \in 0..Cube(n + 1) - 1 /\ Digits(m, n + 1).y = Digits(e, n).y
         /\ \A p \in Meeting("zetaM") : LET m == BuildMesh(n)[e][p[1]]
              IN m \in 0..Cube(n + 1) - 1 /\ Digits(m, n + 1).z = Digits(e, n).z
<1>1. "xiM" \in ToSet(Faces) /\ "etaM" \in ToSet(Faces) /\ "zetaM" \in ToSet(Faces)
  BY SixFaces
<1>2. /\ Digits(e, n).x \in 0..n - 1 /\ Digits(e, n).y \in 0..n - 1 /\ Digits(e, n).z \in 0..n - 1
  BY DigitsPoint
<1>3. ASSUME NEW f \in ToSet(Faces), NEW p \in Meeting(f)
      PROVE  /\ p[1] \in 1..8 /\ BuildMesh(n)[e][p[1]] \in 0..Cube(n + 1) - 1
             /\ Digits(BuildMesh(n)[e][p[1]], n + 1)
                  = [x |-> Digits(e, n).x + Corner[p[1]][1], y |-> Digits(e, n).y + Corner[p[1]][2],
                     z |-> Digits(e, n).z + Corner[p[1]][3]]
  BY MeetingCorners, CornerDigits
<1>4. ASSUME NEW p \in Meeting("xiM") PROVE Corner[p[1]][1] = 0
  BY <1>1, MeetingCorners
<1>5. ASSUME NEW p \in Meeting("etaM") PROVE Corner[p[1]][2] = 0
  BY <1>1, MeetingCorners
<1>6. ASSUME NEW p \in Meeting("zetaM") PROVE Corner[p[1]][3] = 0
  BY <1>1, MeetingCorners
<1>7. ASSUME NEW p \in Meeting("xiM") PROVE Digits(BuildMesh(n)[e][p[1]], n + 1).x = Digits(e, n).x
  <2>1. Digits(BuildMesh(n)[e][p[1]], n + 1).x = Digits(e, n).x + Corner[p[1]][1]
    <3>1. Digits(BuildMesh(n)[e][p[1]], n + 1)
            = [x |-> Digits(e, n).x + Corner[p[1]][1], y |-> Digits(e, n).y + Corner[p[1]][2],
               z |-> Digits(e, n).z + Corner[p[1]][3]]
      BY <1>1, <1>3
    <3> QED
      BY <3>1
  <2>2. Corner[p[1]][1] = 0
    BY <1>4
  <2>3. Digits(e, n).x \in Int
    BY <1>2
  <2> QED
    BY <2>1, <2>2, <2>3
<1>8. ASSUME NEW p \in Meeting("etaM") PROVE Digits(BuildMesh(n)[e][p[1]], n + 1).y = Digits(e, n).y
  <2>1. Digits(BuildMesh(n)[e][p[1]], n + 1).y = Digits(e, n).y + Corner[p[1]][2]
    <3>1. Digits(BuildMesh(n)[e][p[1]], n + 1)
            = [x |-> Digits(e, n).x + Corner[p[1]][1], y |-> Digits(e, n).y + Corner[p[1]][2],
               z |-> Digits(e, n).z + Corner[p[1]][3]]
      BY <1>1, <1>3
    <3> QED
      BY <3>1
  <2>2. Corner[p[1]][2] = 0
    BY <1>5
  <2>3. Digits(e, n).y \in Int
    BY <1>2
  <2> QED
    BY <2>1, <2>2, <2>3
<1>9. ASSUME NEW p \in Meeting("zetaM") PROVE Digits(BuildMesh(n)[e][p[1]], n + 1).z = Digits(e, n).z
  <2>1. Digits(BuildMesh(n)[e][p[1]], n + 1).z = Digits(e, n).z + Corner[p[1]][3]
    <3>1. Digits(BuildMesh(n)[e][p[1]], n + 1)
            = [x |-> Digits(e, n).x + Corner[p[1]][1], y |-> Digits(e, n).y + Corner[p[1]][2],
               z |-> Digits(e, n).z + Corner[p[1]][3]]
      BY <1>1, <1>3
    <3> QED
      BY <3>1
  <2>2. Corner[p[1]][3] = 0
    BY <1>6
  <2>3. Digits(e, n).z \in Int
    BY <1>2
  <2> QED
    BY <2>1, <2>2, <2>3
<1> QED
  BY <1>1, <1>3, <1>7, <1>8, <1>9

SymmetricFace(f, plane, r, side, n) ==
  \A e \in 0..Cube(n) - 1 :
    (Condition(f, e, r, side, n) = "SYMM")
      <=> {BuildMesh(n)[e][q[1]] : q \in Meeting(f)} \subseteq plane

LEMMA PlanesAreFaces ==
  ASSUME NEW n \in Nat \ {0}, NEW r, NEW side
  PROVE  LET s == SymmetryPlanes(r, side, n)
         IN /\ SymmetricFace("xiM", s["x"], r, side, n) /\ SymmetricFace("etaM", s["y"], r, side, n)
            /\ SymmetricFace("zetaM", s["z"], r, side, n)
<1> DEFINE s == SymmetryPlanes(r, side, n)
<1> DEFINE l == Loc(r, side)
<1>1. ASSUME NEW m \in 0..Cube(n + 1) - 1
      PROVE  /\ m \in s["x"] <=> l.x = 0 /\ Digits(m, n + 1).x = 0
             /\ m \in s["y"] <=> l.y = 0 /\ Digits(m, n + 1).y = 0
             /\ m \in s["z"] <=> l.z = 0 /\ Digits(m, n + 1).z = 0
  <2>1. /\ Digits(m, n + 1).x = 0 <=> m \in XPlane(n, n + 1)
        /\ Digits(m, n + 1).y = 0 <=> m \in YPlane(n, n + 1)
        /\ Digits(m, n + 1).z = 0 <=> m \in ZPlane(n, n + 1)
    BY NodeOnPlane
  <2>2. s = [x |-> IF l.x # 0 THEN {} ELSE XPlane(n, n + 1), y |-> IF l.y # 0 THEN {} ELSE YPlane(n, n + 1),
             z |-> IF l.z # 0 THEN {} ELSE ZPlane(n, n + 1)]
    BY DEF SymmetryPlanes, XPlane, YPlane, ZPlane
  <2> HIDE DEF s, l
  <2> QED
    BY <2>1, <2>2
<1>2. ASSUME NEW e \in 0..Cube(n) - 1
      PROVE  /\ (Condition("xiM", e, r, side, n) = "SYMM") <=> (l.x = 0 /\ Digits(e, n).x = 0)
             /\ (Condition("etaM", e, r, side, n) = "SYMM") <=> (l.y = 0 /\ Digits(e, n).y = 0)
             /\ (Condition("zetaM", e, r, side, n) = "SYMM") <=> (l.z = 0 /\ Digits(e, n).z = 0)
  BY SharedBelow DEF Condition, AtRim, Depth, Rim
<1>3. \E p \in Meeting("xiM") : TRUE
  BY DEF Meeting
<1>4. \E p \in Meeting("etaM") : TRUE
  BY DEF Meeting
<1>5. \E p \in Meeting("zetaM") : TRUE
  BY DEF Meeting
<1> HIDE DEF s, l
<1>6. SymmetricFace("xiM", s["x"], r, side, n)
  BY <1>1, <1>2, <1>3, FaceCorners DEF SymmetricFace
<1>7. SymmetricFace("etaM", s["y"], r, side, n)
  BY <1>1, <1>2, <1>4, FaceCorners DEF SymmetricFace
<1>8. SymmetricFace("zetaM", s["z"], r, side, n)
  BY <1>1, <1>2, <1>5, FaceCorners DEF SymmetricFace
<1> QED
  BY <1>6, <1>7, <1>8 DEF s

-----------------------------------------------------------------------------
(***************************************************************************)
(* The ghosts: a shared face's ghosts follow those of the shared faces     *)
(* before it, so a face's place among them and a place on the face make    *)
(* the two digits of a ghost's number.                                     *)
(***************************************************************************)
SharedFaces(r, side) == {i \in 1..6 : Shared(Faces[i], r, side)}

LEMMA SomeShared ==
  ASSUME NEW r, NEW side
  PROVE  /\ SharedFaces(r, side) \in SUBSET (1..6) /\ SharedFaces(r, side) \in SUBSET Int
         /\ IsFiniteSet(SharedFaces(r, side)) /\ Cardinality(SharedFaces(r, side)) \in 0..6
<1> DEFINE S == SharedFaces(r, side)
<1>1. S \in SUBSET (1..6) /\ S \in SUBSET Int
  BY DEF SharedFaces
<1>2. IsFiniteSet(1..6) /\ Cardinality(1..6) = 6
  <2>1. ASSUME NEW m \in Nat PROVE IsFiniteSet(1..m) /\ Cardinality(1..m) = m
    BY FS_Interval
  <2> QED
    BY <2>1
<1> HIDE DEF S
<1>3. IsFiniteSet(S) /\ Cardinality(S) <= 6 /\ Cardinality(S) \in Nat
  BY <1>1, <1>2, FS_Subset, FS_CardinalityType
<1> QED
  BY <1>1, <1>3 DEF S

LEMMA FacesDistinct ==
  ASSUME NEW i \in 1..6, NEW j \in 1..6, Faces[i] = Faces[j]
  PROVE  i = j
<1>1. i \in {1, 2, 3, 4, 5, 6} /\ j \in {1, 2, 3, 4, 5, 6}
  OBVIOUS
<1> QED
  BY <1>1 DEF Faces

LEMMA GhostStartIs ==
  ASSUME NEW r, NEW side, NEW n, NEW j \in 1..6
  PROVE  GhostStart(r, side, n, Faces[j]) = Cube(n) + RankIn(SharedFaces(r, side), j)*n*n
<1> DEFINE before == {i \in 1..6 : /\ HasNeighbour(r, side, Towards[Faces[i]])
                                  /\ \E k \in i + 1..6 : Faces[k] = Faces[j]}
<1>1. ASSUME NEW i \in 1..6 PROVE (\E k \in i + 1..6 : Faces[k] = Faces[j]) <=> i < j
  <2>1. ASSUME NEW k \in i + 1..6, Faces[k] = Faces[j] PROVE i < j
    <3>1. k \in 1..6 /\ i < k
      OBVIOUS
    <3>2. k = j
      BY <2>1, <3>1, FacesDistinct
    <3> QED
      BY <3>1, <3>2
  <2>2. ASSUME i < j PROVE j \in i + 1..6
    BY <2>2
  <2> QED
    BY <2>1, <2>2
<1>2. before = {i \in SharedFaces(r, side) : i < j}
  BY <1>1 DEF SharedFaces, Shared
<1>3. GhostStart(r, side, n, Faces[j]) = Cube(n) + Cardinality(before)*n*n
  BY DEF GhostStart
<1> QED
  BY <1>2, <1>3 DEF RankIn

GhostRefs(r, side, n) ==
  {p \in ToSet(Faces) \X (0..Cube(n) - 1) : AtRim(p[1], p[2], n) /\ Shared(p[1], r, side)}

\* The face and the place on it that a ghost stands for.
LEMMA GhostIs ==
  ASSUME NEW n \in Nat \ {0}, NEW r, NEW side, NEW p \in GhostRefs(r, side, n)
  PROVE  LET i == Row(p[1], Digits(p[2], n))
             j == Col(p[1], Digits(p[2], n))
         IN /\ i \in 0..n - 1 /\ j \in 0..n - 1 /\ OnFace(p[1], i, j, n) = p[2]
            /\ \E a \in SharedFaces(r, side) :
                 /\ Faces[a] = p[1]
                 /\ GhostOf(p[1], p[2], r, side, n)
                      = Cube(n) + (RankIn(SharedFaces(r, side), a)*(n*n) + (i*n + j))
<1> DEFINE f == p[1]
<1> DEFINE e == p[2]
<1> DEFINE i == Row(f, Digits(e, n))
<1> DEFINE j == Col(f, Digits(e, n))
<1> DEFINE S == SharedFaces(r, side)
<1>1. f \in ToSet(Faces) /\ e \in 0..Cube(n) - 1 /\ AtRim(f, e, n) /\ Shared(f, r, side)
  BY DEF GhostRefs
<1> HIDE DEF f, e
<1>2. i \in 0..n - 1 /\ j \in 0..n - 1 /\ OnFace(f, i, j, n) = e
  BY <1>1, RimOnFace
<1>3. PICK a \in 1..6 : Faces[a] = f
  BY <1>1, SixFaces
<1>4. a \in S
  BY <1>1, <1>3 DEF SharedFaces
<1>5. GhostOf(f, e, r, side, n) = Cube(n) + RankIn(S, a)*n*n + i*n + j
  BY <1>3, GhostStartIs DEF GhostOf
<1>6. S \in SUBSET Int /\ IsFiniteSet(S)
  BY SomeShared
<1> HIDE DEF i, j, S
<1>7. RankIn(S, a) \in Int
  <2>1. Cardinality(S) \in Nat /\ RankIn(S, a) \in 0..Cardinality(S) - 1
    BY <1>4, <1>6, RankProperties
  <2> QED
    BY <2>1
<1> DEFINE k == RankIn(S, a)
<1>8. GhostOf(f, e, r, side, n) = Cube(n) + (k*(n*n) + (i*n + j))
  <2>1. k \in Int /\ i \in Int /\ j \in Int /\ Cube(n) \in Int
    BY <1>2, <1>7, SMT DEF Cube
  <2> HIDE DEF k
  <2>2. Cube(n) + k*n*n + i*n + j = Cube(n) + (k*(n*n) + (i*n + j))
    BY <2>1, SMT
  <2> QED
    BY <1>5, <2>2 DEF k
<1> QED
  BY <1>2, <1>3, <1>4, <1>8 DEF f, e, i, j, S

DenseGhosts(r, side, n) ==
  LET refs == GhostRefs(r, side, n)
      ghosts == {GhostOf(p[1], p[2], r, side, n) : p \in refs}
  IN /\ ghosts = Cube(n)..Cube(n) + Cardinality(refs) - 1
     /\ \A g \in ghosts : g < Cube(n) + 6*n*n

LEMMA GhostsAreDense ==
  ASSUME NEW n \in Nat \ {0}, NEW r, NEW side
  PROVE  DenseGhosts(r, side, n)
<1> DEFINE S == SharedFaces(r, side)
<1> DEFINE k == Cardinality(S)
<1> DEFINE b == n*n
<1> DEFINE N == Cube(n)
<1> DEFINE refs == GhostRefs(r, side, n)
<1> DEFINE num(p) == GhostOf(p[1], p[2], r, side, n)
<1> DEFINE row(p) == Row(p[1], Digits(p[2], n))
<1> DEFINE col(p) == Col(p[1], Digits(p[2], n))
<1> DEFINE T == 0..k*b - 1
<1> DEFINE f == [p \in refs |-> num(p) - N]
<1>1. b \in Nat \ {0} /\ N \in Nat
  BY SMT DEF Cube
<1>2. /\ k \in 0..6 /\ S \in SUBSET (1..6)
      /\ \A i \in S : RankIn(S, i) \in 0..k - 1
      /\ \A i, j \in S : RankIn(S, i) = RankIn(S, j) => i = j
      /\ \A q \in 0..k - 1 : \E i \in S : RankIn(S, i) = q
  <2>1. S \in SUBSET (1..6) /\ S \in SUBSET Int /\ IsFiniteSet(S) /\ k \in 0..6
    BY SomeShared
  <2> HIDE DEF S
  <2> QED
    BY <2>1, RankProperties
<1>3. \A p \in refs :
        /\ row(p) \in 0..n - 1 /\ col(p) \in 0..n - 1 /\ OnFace(p[1], row(p), col(p), n) = p[2]
        /\ \E a \in S : Faces[a] = p[1] /\ num(p) = N + (RankIn(S, a)*b + (row(p)*n + col(p)))
  BY GhostIs
<1>4. /\ \A i, j \in 0..n - 1 : i*n + j \in 0..b - 1 /\ (i*n + j) \div n = i /\ (i*n + j) % n = j
      /\ \A s \in 0..b - 1 : s \div n \in 0..n - 1 /\ s % n \in 0..n - 1 /\ s = (s \div n)*n + (s % n)
  BY TwoDigits
<1>5. /\ \A q \in 0..k - 1, s \in 0..b - 1 : q*b + s \in T /\ (q*b + s) \div b = q /\ (q*b + s) % b = s
      /\ \A x \in T : x \div b \in 0..k - 1 /\ x % b \in 0..b - 1 /\ x = (x \div b)*b + (x % b)
  <2>1. k \in Nat
    BY <1>2
  <2> HIDE DEF k, b
  <2> QED
    BY <1>1, <2>1, TwoDigits
<1> HIDE DEF S, k, b, T, N, num, row, col, refs
<1>6. T \subseteq Int /\ k*b \in Nat /\ IsFiniteSet(T) /\ Cardinality(T) = k*b
  <2>1. k \in Nat /\ k*b \in Nat
    BY <1>1, <1>2, SMT
  <2> DEFINE kb == k*b
  <2>2. kb \in Nat
    BY <2>1
  <2> HIDE DEF kb
  <2>3. IsFiniteSet(0..kb - 1) /\ Cardinality(0..kb - 1) = kb /\ 0..kb - 1 \subseteq Int
    BY <2>2, FirstNumbers
  <2> QED
    BY <2>1, <2>3 DEF T, kb
<1>7. ASSUME NEW p \in refs
      PROVE  /\ row(p)*n + col(p) \in 0..b - 1 /\ num(p) - N \in T /\ num(p) \in Int
             /\ \E a \in S : /\ Faces[a] = p[1] /\ RankIn(S, a) = (num(p) - N) \div b
                             /\ row(p)*n + col(p) = (num(p) - N) % b
  <2>1. PICK a \in S : Faces[a] = p[1] /\ num(p) = N + (RankIn(S, a)*b + (row(p)*n + col(p)))
    BY <1>3
  <2> DEFINE s == row(p)*n + col(p)
  <2> DEFINE q == RankIn(S, a)
  <2>2. s \in 0..b - 1 /\ q \in 0..k - 1 /\ num(p) = N + (q*b + s)
    BY <1>2, <1>3, <1>4, <2>1
  <2> HIDE DEF s, q
  <2>3. q*b + s \in T /\ (q*b + s) \div b = q /\ (q*b + s) % b = s
    BY <1>5, <2>2
  <2>4. q*b + s \in Int /\ num(p) - N = q*b + s
    BY <1>1, <1>6, <2>2, <2>3
  <2>5. num(p) \in Int
    BY <1>1, <2>2, <2>4
  <2> QED
    BY <2>1, <2>2, <2>3, <2>4, <2>5 DEF s, q
<1>8. ASSUME NEW p \in refs, NEW u \in refs, num(p) = num(u) PROVE p = u
  <2>1. PICK a \in S : Faces[a] = p[1] /\ RankIn(S, a) = (num(p) - N) \div b
                       /\ row(p)*n + col(p) = (num(p) - N) % b
    BY <1>7
  <2>2. PICK c \in S : Faces[c] = u[1] /\ RankIn(S, c) = (num(u) - N) \div b
                       /\ row(u)*n + col(u) = (num(u) - N) % b
    BY <1>7
  <2>3. a = c
    BY <1>2, <1>8, <2>1, <2>2
  <2>4. p[1] = u[1] /\ row(p)*n + col(p) = row(u)*n + col(u)
    BY <1>8, <2>1, <2>2, <2>3
  <2>5. row(p) = row(u) /\ col(p) = col(u)
    <3>1. /\ (row(p)*n + col(p)) \div n = row(p) /\ (row(p)*n + col(p)) % n = col(p)
          /\ (row(u)*n + col(u)) \div n = row(u) /\ (row(u)*n + col(u)) % n = col(u)
      BY <1>3, <1>4
    <3> QED
      BY <2>4, <3>1
  <2>6. p[2] = u[2]
    BY <1>3, <2>4, <2>5
  <2>7. p = <<p[1], p[2]>> /\ u = <<u[1], u[2]>>
    BY DEF refs, GhostRefs
  <2> QED
    BY <2>4, <2>6, <2>7
<1>9. ASSUME NEW x \in T PROVE \E p \in refs : num(p) = N + x
  <2>1. x \div b \in 0..k - 1 /\ x % b \in 0..b - 1 /\ x = (x \div b)*b + (x % b)
    BY <1>5
  <2>2. PICK a \in S : RankIn(S, a) = x \div b
    BY <1>2, <2>1
  <2> DEFINE s == x % b
  <2> DEFINE i == s \div n
  <2> DEFINE j == s % n
  <2>3. i \in 0..n - 1 /\ j \in 0..n - 1 /\ s = i*n + j
    BY <1>4, <2>1
  <2> DEFINE g == Faces[a]
  <2> DEFINE e == OnFace(g, i, j, n)
  <2>4. g \in ToSet(Faces) /\ a \in 1..6 /\ Shared(g, r, side)
    BY <1>2, SixFaces DEF S, SharedFaces
  <2> HIDE DEF i, j, g, s
  <2>5. e \in 0..Cube(n) - 1 /\ AtRim(g, e, n) /\ Row(g, Digits(e, n)) = i /\ Col(g, Digits(e, n)) = j
    BY <2>3, <2>4, FaceDigits
  <2> HIDE DEF e
  <2> DEFINE p == <<g, e>>
  <2>6. p \in refs /\ row(p) = i /\ col(p) = j
    BY <2>4, <2>5 DEF refs, GhostRefs, row, col
  <2>7. PICK c \in S : Faces[c] = p[1] /\ num(p) = N + (RankIn(S, c)*b + (row(p)*n + col(p)))
    BY <1>3, <2>6
  <2>8. c = a
    <3>1. Faces[c] = Faces[a] /\ c \in 1..6
      BY <1>2, <2>7 DEF g
    <3> QED
      BY <2>4, <3>1, FacesDistinct
  <2>9. num(p) = N + ((x \div b)*b + (x % b))
    BY <2>2, <2>3, <2>6, <2>7, <2>8 DEF s
  <2>10. num(p) = N + x
    BY <2>1, <2>9
  <2> QED
    BY <2>6, <2>10
<1>10. IsFiniteSet(refs) /\ Cardinality(refs) = k*b
  <2>1. f \in Injection(refs, T)
    <3>1. \A p \in refs : f[p] = num(p) - N /\ f[p] \in T
      BY <1>7
    <3>2. \A p, u \in refs : f[p] = f[u] => p = u
      <4> SUFFICES ASSUME NEW p \in refs, NEW u \in refs, f[p] = f[u] PROVE p = u
        OBVIOUS
      <4>1. num(p) - N = num(u) - N /\ num(p) \in Int /\ num(u) \in Int
        BY <1>7, <3>1
      <4>2. num(p) = num(u)
        BY <1>1, <4>1
      <4> QED
        BY <1>8, <4>2
    <3>3. f \in [refs -> T]
      BY <3>1
    <3> HIDE DEF f
    <3> QED
      BY <3>2, <3>3 DEF Injection, IsInjective
  <2>2. f \in Surjection(refs, T)
    <3>1. \A x \in T : \E p \in refs : f[p] = x
      <4> SUFFICES ASSUME NEW x \in T PROVE \E p \in refs : f[p] = x
        OBVIOUS
      <4>1. PICK p \in refs : num(p) = N + x
        BY <1>9
      <4>2. num(p) - N = x
        BY <1>1, <1>6, <4>1
      <4> QED
        BY <4>2
    <3> HIDE DEF f
    <3> QED
      BY <2>1, <3>1 DEF Injection, Surjection
  <2> HIDE DEF f
  <2> QED
    BY <1>6, <2>1, <2>2, FS_Injection
<1> DEFINE ghosts == {num(p) : p \in refs}
<1>11. ghosts = N..N + k*b - 1
  <2>1. T = 0..k*b - 1
    BY DEF T
  <2> DEFINE kb == k*b
  <2>2. T = 0..kb - 1 /\ kb \in Nat
    BY <1>6, <2>1
  <2> HIDE DEF kb
  <2>3. \A g \in ghosts : g - N \in T /\ g \in Int
    BY <1>7
  <2>4. \A g \in N..N + kb - 1 : g - N \in T /\ N + (g - N) = g
    BY <1>1, <2>2
  <2>5. N..N + kb - 1 \subseteq ghosts
    <3> SUFFICES ASSUME NEW g \in N..N + kb - 1 PROVE g \in ghosts
      OBVIOUS
    <3>1. PICK p \in refs : num(p) = N + (g - N)
      BY <1>9, <2>4
    <3> QED
      BY <2>4, <3>1
  <2>6. ghosts \subseteq N..N + kb - 1
    <3> HIDE DEF ghosts
    <3> QED
      BY <1>1, <2>2, <2>3
  <2> QED
    BY <2>5, <2>6 DEF kb
<1>12. \A g \in ghosts : g < N + 6*n*n
  <2>1. k*b <= 6*b /\ 6*b = 6*n*n
    <3>1. k*b <= 6*b
      BY <1>1, <1>2, ProductMonotone
    <3>2. 6*b = 6*n*n
      BY SMT DEF b
    <3> QED
      BY <3>1, <3>2
  <2> DEFINE kb == k*b
  <2> DEFINE most == 6*n*n
  <2>2. kb <= most /\ kb \in Nat /\ most \in Int /\ ghosts = N..N + kb - 1
    <3>1. 6*n*n \in Int
      BY SMT
    <3> QED
      BY <1>6, <1>11, <2>1, <3>1
  <2> HIDE DEF kb, most, ghosts
  <2> QED
    BY <1>1, <2>2 DEF most
<1> QED
  BY <1>10, <1>11, <1>12 DEF DenseGhosts, refs, num, N

-----------------------------------------------------------------------------
(***************************************************************************)
(* SetupThreadSupportStructures is a counting sort: entry k goes to the    *)
(* slot after the entries of smaller keys and the earlier ones of its own. *)
(***************************************************************************)
Having(key, K, m) == {k \in 0..K - 1 : key[k] = m}
Under(key, K, m) == Cardinality({k \in 0..K - 1 : key[k] < m})
Slot(key, K, k) == Under(key, K, key[k]) + RankIn(Having(key, K, key[k]), k)

Keyed(key, K, M) == \A k \in 0..K - 1 : key[k] \in 0..M - 1

LEMMA UnderSums ==
  ASSUME NEW K \in Nat, NEW M \in Nat, NEW key, Keyed(key, K, M)
  PROVE  /\ \A m \in 0..M : Under(key, K, m) \in Nat
         /\ \A m \in 0..M - 1 :
              /\ Having(key, K, m) \in SUBSET Int /\ IsFiniteSet(Having(key, K, m))
              /\ Cardinality(Having(key, K, m)) \in Nat
              /\ Under(key, K, m + 1) = Under(key, K, m) + Cardinality(Having(key, K, m))
         /\ \A m, l \in 0..M : m <= l => Under(key, K, m) <= Under(key, K, l)
         /\ Under(key, K, 0) = 0 /\ Under(key, K, M) = K
<1> DEFINE all == 0..K - 1
<1> DEFINE below(m) == {k \in all : key[k] < m}
<1> DEFINE mine(m) == Having(key, K, m)
<1>1. IsFiniteSet(all) /\ Cardinality(all) = K /\ all \subseteq Int
  BY FirstNumbers
<1>2. \A k \in all : key[k] \in Int /\ 0 <= key[k] /\ key[k] < M
  BY DEF Keyed
<1>3. \A m : below(m) \in SUBSET all /\ mine(m) \in SUBSET all /\ Under(key, K, m) = Cardinality(below(m))
  BY DEF Having, Under
<1>4. \A m \in Int : mine(m) \cap below(m) = {} /\ below(m + 1) = below(m) \cup mine(m)
  BY <1>2 DEF Having
<1>5. \A m, l \in Int : m <= l => below(m) \in SUBSET below(l)
  BY <1>2
<1>6. below(0) = {} /\ below(M) = all
  BY <1>2
<1> HIDE DEF all, below, mine
<1>7. ASSUME NEW m PROVE /\ IsFiniteSet(below(m)) /\ Cardinality(below(m)) \in Nat
                         /\ IsFiniteSet(mine(m)) /\ Cardinality(mine(m)) \in Nat
  BY <1>1, <1>3, FS_Subset, FS_CardinalityType
<1>8. ASSUME NEW m \in Int
      PROVE  Under(key, K, m + 1) = Under(key, K, m) + Cardinality(mine(m))
  <2>1. Cardinality(below(m) \cup mine(m))
          = Cardinality(below(m)) + Cardinality(mine(m)) - Cardinality(below(m) \cap mine(m))
    BY <1>7, FS_Union
  <2>2. Cardinality(below(m) \cap mine(m)) = 0
    <3>1. below(m) \cap mine(m) = {}
      BY <1>4
    <3> QED
      BY <3>1, FS_EmptySet
  <2>3. /\ Under(key, K, m + 1) = Cardinality(below(m) \cup mine(m))
        /\ Under(key, K, m) = Cardinality(below(m))
    BY <1>3, <1>4
  <2>4. Cardinality(below(m)) \in Nat /\ Cardinality(mine(m)) \in Nat
    BY <1>7
  <2> DEFINE a == Cardinality(below(m))
  <2> DEFINE b == Cardinality(mine(m))
  <2>5. a \in Nat /\ b \in Nat /\ Under(key, K, m + 1) = a + b - 0 /\ Under(key, K, m) = a
    BY <2>1, <2>2, <2>3, <2>4
  <2> HIDE DEF a
  <2> QED
    BY <2>5 DEF b
<1>9. ASSUME NEW m \in Int, NEW l \in Int, m <= l PROVE Under(key, K, m) <= Under(key, K, l)
  <2>1. below(m) \in SUBSET below(l)
    BY <1>5, <1>9
  <2> QED
    BY <1>3, <1>7, <2>1, FS_Subset
<1>10. Under(key, K, 0) = 0 /\ Under(key, K, M) = K
  BY <1>1, <1>3, <1>6, FS_EmptySet
<1>11. \A m : mine(m) \in SUBSET Int
  BY <1>1, <1>3
<1>12. \A m : Under(key, K, m) \in Nat
  BY <1>3, <1>7
<1>13. \A m \in 0..M : m \in Int
  OBVIOUS
<1>14. \A m \in 0..M - 1 : m \in Int
  OBVIOUS
<1>15. \A m \in 0..M - 1 :
         /\ mine(m) \in SUBSET Int /\ IsFiniteSet(mine(m)) /\ Cardinality(mine(m)) \in Nat
         /\ Under(key, K, m + 1) = Under(key, K, m) + Cardinality(mine(m))
  BY <1>7, <1>8, <1>11, <1>14
<1>16. \A m, l \in 0..M : m <= l => Under(key, K, m) <= Under(key, K, l)
  BY <1>9, <1>13
<1> QED
  BY <1>10, <1>12, <1>15, <1>16 DEF mine

LEMMA SlotsAre ==
  ASSUME NEW K \in Nat, NEW M \in Nat, NEW key, Keyed(key, K, M)
  PROVE  /\ \A k \in 0..K - 1 :
              Slot(key, K, k) \in Under(key, K, key[k])..Under(key, K, key[k] + 1) - 1
         /\ \A k \in 0..K - 1 : Slot(key, K, k) \in 0..K - 1
         /\ \A j, k \in 0..K - 1 : Slot(key, K, j) = Slot(key, K, k) => j = k
         /\ \A m \in 0..M - 1 : \A i \in Under(key, K, m)..Under(key, K, m + 1) - 1 :
              \E k \in Having(key, K, m) : Slot(key, K, k) = i
<1> DEFINE mine(m) == Having(key, K, m)
<1> DEFINE U(m) == Under(key, K, m)
<1>1. /\ \A m \in 0..M : U(m) \in Nat
      /\ \A m \in 0..M - 1 : mine(m) \in SUBSET Int /\ IsFiniteSet(mine(m)) /\ Cardinality(mine(m)) \in Nat
                             /\ U(m + 1) = U(m) + Cardinality(mine(m))
      /\ \A m, l \in 0..M : m <= l => U(m) <= U(l)
      /\ U(0) = 0 /\ U(M) = K
  BY UnderSums
<1>2. \A m, k : k \in mine(m) <=> (k \in 0..K - 1 /\ key[k] = m)
  BY DEF Having
<1>3. \A k : Slot(key, K, k) = U(key[k]) + RankIn(mine(key[k]), k)
  BY DEF Slot
<1>4. \A k \in 0..K - 1 : key[k] \in 0..M - 1
  BY DEF Keyed
<1> HIDE DEF mine, U
<1>5. ASSUME NEW m \in 0..M - 1
      PROVE  /\ \A k \in mine(m) : RankIn(mine(m), k) \in 0..Cardinality(mine(m)) - 1
             /\ \A j, k \in mine(m) : RankIn(mine(m), j) = RankIn(mine(m), k) => j = k
             /\ \A q \in 0..Cardinality(mine(m)) - 1 : \E k \in mine(m) : RankIn(mine(m), k) = q
  BY <1>1, RankProperties
<1>6. ASSUME NEW m \in 0..M - 1, NEW k \in mine(m)
      PROVE  Slot(key, K, k) \in U(m)..U(m + 1) - 1 /\ RankIn(mine(m), k) = Slot(key, K, k) - U(m)
  <2>1. key[k] = m
    BY <1>2
  <2>2. RankIn(mine(m), k) \in 0..Cardinality(mine(m)) - 1 /\ U(m) \in Nat /\ Cardinality(mine(m)) \in Nat
        /\ U(m + 1) = U(m) + Cardinality(mine(m)) /\ Slot(key, K, k) = U(m) + RankIn(mine(m), k)
    BY <1>1, <1>3, <1>5, <2>1
  <2> QED
    BY <2>2
<1>7. ASSUME NEW k \in 0..K - 1
      PROVE  /\ key[k] \in 0..M - 1 /\ k \in mine(key[k])
             /\ Slot(key, K, k) \in U(key[k])..U(key[k] + 1) - 1 /\ Slot(key, K, k) \in 0..K - 1
  <2> DEFINE m == key[k]
  <2>1. m \in 0..M - 1 /\ k \in mine(m)
    BY <1>2, <1>4
  <2> HIDE DEF m
  <2>2. Slot(key, K, k) \in U(m)..U(m + 1) - 1
    BY <1>6, <2>1
  <2>3. m \in 0..M /\ m + 1 \in 0..M /\ m + 1 <= M /\ M \in 0..M
    BY <2>1
  <2>4. U(m) \in Nat /\ U(m + 1) \in Nat /\ U(m + 1) <= K
    BY <1>1, <2>3
  <2>5. Slot(key, K, k) \in 0..K - 1
    BY <2>2, <2>4
  <2> QED
    BY <2>1, <2>2, <2>5 DEF m
<1>8. ASSUME NEW j \in 0..K - 1, NEW k \in 0..K - 1, Slot(key, K, j) = Slot(key, K, k)
      PROVE  ~(key[j] < key[k])
  <2> DEFINE a == key[j]
  <2> DEFINE b == key[k]
  <2> SUFFICES ASSUME a < b PROVE FALSE
    OBVIOUS
  <2>1. /\ a \in 0..M - 1 /\ b \in 0..M - 1
        /\ Slot(key, K, j) \in U(a)..U(a + 1) - 1 /\ Slot(key, K, k) \in U(b)..U(b + 1) - 1
    BY <1>7
  <2> HIDE DEF a, b
  <2>2. a + 1 \in 0..M /\ b \in 0..M /\ a + 1 <= b /\ a \in 0..M /\ b + 1 \in 0..M
    BY <2>1
  <2>3. U(a + 1) <= U(b) /\ U(a) \in Nat /\ U(a + 1) \in Nat /\ U(b) \in Nat /\ U(b + 1) \in Nat
    BY <1>1, <2>2
  <2> DEFINE s == Slot(key, K, j)
  <2>4. s \in U(a)..U(a + 1) - 1 /\ s \in U(b)..U(b + 1) - 1
    BY <1>8, <2>1
  <2> HIDE DEF s
  <2> QED
    BY <2>3, <2>4
<1>9. ASSUME NEW j \in 0..K - 1, NEW k \in 0..K - 1, Slot(key, K, j) = Slot(key, K, k)
      PROVE  j = k
  <2>1. ~(key[j] < key[k]) /\ ~(key[k] < key[j])
    BY <1>8, <1>9
  <2>2. key[j] = key[k]
    <3>1. key[j] \in Int /\ key[k] \in Int
      BY <1>4
    <3> QED
      BY <2>1, <3>1
  <2> DEFINE m == key[k]
  <2>3. m \in 0..M - 1 /\ j \in mine(m) /\ k \in mine(m)
    BY <1>7, <2>2
  <2> HIDE DEF m
  <2>4. RankIn(mine(m), j) = RankIn(mine(m), k)
    BY <1>6, <1>9, <2>3
  <2> QED
    BY <1>5, <2>3, <2>4
<1>10. ASSUME NEW m \in 0..M - 1, NEW i \in U(m)..U(m + 1) - 1
       PROVE  \E k \in mine(m) : Slot(key, K, k) = i
  <2>1. m \in 0..M /\ m + 1 \in 0..M
    OBVIOUS
  <2>2. U(m) \in Nat /\ U(m + 1) = U(m) + Cardinality(mine(m)) /\ Cardinality(mine(m)) \in Nat
    BY <1>1, <2>1
  <2>3. i - U(m) \in 0..Cardinality(mine(m)) - 1 /\ i \in Int
    BY <2>2
  <2>4. PICK k \in mine(m) : RankIn(mine(m), k) = i - U(m)
    BY <1>5, <2>3
  <2>5. Slot(key, K, k) = U(m) + RankIn(mine(m), k)
    BY <1>2, <1>3
  <2> QED
    BY <2>2, <2>3, <2>4, <2>5
<1> QED
  BY <1>7, <1>9, <1>10 DEF mine, U

Sorted(list, key, K) == \A k \in 0..K - 1 : list[Slot(key, K, k)] = k

LEMMA SortGathers ==
  ASSUME NEW K \in Nat, NEW M \in Nat, NEW key, Keyed(key, K, M), NEW list, Sorted(list, key, K),
         NEW m \in 0..M - 1
  PROVE  LET slots == Under(key, K, m)..Under(key, K, m + 1) - 1
         IN /\ {list[i] : i \in slots} = Having(key, K, m)
            /\ \A i, j \in slots : list[i] = list[j] => i = j
<1> DEFINE slots == Under(key, K, m)..Under(key, K, m + 1) - 1
<1>1. \A k \in Having(key, K, m) : k \in 0..K - 1 /\ key[k] = m /\ list[Slot(key, K, k)] = k
  BY DEF Having, Sorted
<1>2. \A i \in slots : \E k \in Having(key, K, m) : Slot(key, K, k) = i
  BY SlotsAre
<1>3. \A k \in Having(key, K, m) : Slot(key, K, k) \in slots
  <2>1. \A k \in 0..K - 1 : Slot(key, K, k) \in Under(key, K, key[k])..Under(key, K, key[k] + 1) - 1
    BY SlotsAre
  <2> QED
    BY <1>1, <2>1
<1> HIDE DEF slots
<1>4. {list[i] : i \in slots} = Having(key, K, m)
  <2>1. \A i \in slots : list[i] \in Having(key, K, m)
    BY <1>1, <1>2
  <2>2. \A k \in Having(key, K, m) : \E i \in slots : list[i] = k
    BY <1>1, <1>3
  <2> QED
    BY <2>1, <2>2
<1>5. \A i, j \in slots : list[i] = list[j] => i = j
  BY <1>1, <1>2
<1> QED
  BY <1>4, <1>5 DEF slots

Corners(nodelist, n) == [k \in 0..8*Cube(n) - 1 |-> nodelist[k \div 8][(k % 8) + 1]]

LEMMA StartsAre ==
  ASSUME NEW K \in Nat, NEW M \in Nat, NEW key, Keyed(key, K, M), NEW count,
         \A m \in 0..M - 1 : count[m] = Cardinality(Having(key, K, m)), NEW start,
         start = CHOOSE f : f = [m \in 0..M |-> IF m = 0 THEN 0 ELSE f[m - 1] + count[m - 1]]
  PROVE  \A m \in 0..M : start[m] = Under(key, K, m)
<1> DEFINE Body(f) == [m \in 0..M |-> IF m = 0 THEN 0 ELSE f[m - 1] + count[m - 1]]
<1>1. /\ \A m \in 0..M - 1 : Under(key, K, m + 1) = Under(key, K, m) + Cardinality(Having(key, K, m))
      /\ Under(key, K, 0) = 0
  BY UnderSums
<1>2. \A m \in 1..M : Under(key, K, m) = Under(key, K, m - 1) + count[m - 1]
  <2> SUFFICES ASSUME NEW m \in 1..M PROVE Under(key, K, m) = Under(key, K, m - 1) + count[m - 1]
    OBVIOUS
  <2>1. m - 1 \in 0..M - 1 /\ (m - 1) + 1 = m
    OBVIOUS
  <2> QED
    BY <1>1, <2>1
<1>3. \E f : f = Body(f)
  <2> DEFINE f == [m \in 0..M |-> Under(key, K, m)]
  <2>1. ASSUME NEW m \in 0..M PROVE f[m] = Body(f)[m]
    <3>1. CASE m = 0
      BY <1>1, <3>1
    <3>2. CASE m # 0
      <4>1. m \in 1..M /\ m - 1 \in 0..M
        BY <3>2
      <4> QED
        BY <1>2, <3>2, <4>1
    <3> QED
      BY <3>1, <3>2
  <2>2. f = Body(f)
    BY <2>1
  <2> QED
    BY <2>2
<1>4. start = Body(start)
  <2> HIDE DEF Body
  <2>1. start = CHOOSE f : f = Body(f)
    BY DEF Body
  <2> QED
    BY <1>3, <2>1
<1> DEFINE W == [m \in 0..M |-> {Under(key, K, m)}]
<1>5. start[0] \in W[0]
  <2>1. 0 \in 0..M
    OBVIOUS
  <2>2. start[0] = 0
    BY <1>4, <2>1
  <2> QED
    BY <1>1, <2>1, <2>2
<1>6. ASSUME NEW m \in 1..M, start[m - 1] \in W[m - 1] PROVE start[m] \in W[m]
  <2>1. m - 1 \in 0..M /\ m \in 0..M /\ m # 0
    OBVIOUS
  <2>2. start[m] = start[m - 1] + count[m - 1]
    BY <1>4, <2>1
  <2> QED
    BY <1>2, <1>6, <2>1, <2>2
<1> HIDE DEF W
<1>7. \A m \in 0..M : start[m] \in W[m]
  BY <1>5, <1>6, StagesHold
<1> QED
  BY <1>7 DEF W

\* The loop that fills the list, as its state after j entries.
Filled(s, key, K, M, j) ==
  /\ s.list \in [0..K - 1 -> Int] /\ s.filled \in [0..M - 1 -> Int]
  /\ \A m \in 0..M - 1 : s.filled[m] = RankIn(Having(key, K, m), j)
  /\ \A k \in 0..j - 1 : s.list[Slot(key, K, k)] = k

LEMMA FillKeeps ==
  ASSUME NEW K \in Nat, NEW M \in Nat, NEW key, Keyed(key, K, M), NEW k \in 0..K - 1,
         NEW s, Filled(s, key, K, M, k), NEW t,
         t = [list |-> [s.list EXCEPT ![Slot(key, K, k)] = k],
              filled |-> [s.filled EXCEPT ![key[k]] = s.filled[key[k]] + 1]]
  PROVE  Filled(t, key, K, M, k + 1)
<1> DEFINE p == Slot(key, K, k)
<1> DEFINE m == key[k]
<1>1. p \in 0..K - 1 /\ m \in 0..M - 1 /\ \A j \in 0..K - 1 : Slot(key, K, j) = p => j = k
  BY SlotsAre DEF Keyed
<1>2. s.list \in [0..K - 1 -> Int] /\ s.filled \in [0..M - 1 -> Int]
  BY DEF Filled
<1>3. /\ t.list = [s.list EXCEPT ![p] = k] /\ t.filled = [s.filled EXCEPT ![m] = s.filled[m] + 1]
  OBVIOUS
<1>4. \A l : k \in Having(key, K, l) <=> l = m
  BY DEF Having
<1> HIDE DEF p, m
<1>5. t.list \in [0..K - 1 -> Int] /\ t.filled \in [0..M - 1 -> Int]
  <2>1. k \in Int
    OBVIOUS
  <2>2. s.filled[m] + 1 \in Int
    BY <1>1, <1>2
  <2> QED
    BY <1>1, <1>2, <1>3, <2>1, <2>2
<1>6. ASSUME NEW l \in 0..M - 1 PROVE t.filled[l] = RankIn(Having(key, K, l), k + 1)
  <2> DEFINE S == Having(key, K, l)
  <2>1. S \in SUBSET Int /\ IsFiniteSet(S) /\ k \in Int
    BY UnderSums
  <2>2. s.filled[l] = RankIn(S, k)
    BY DEF Filled
  <2> HIDE DEF S
  <2>3. RankIn(S, k + 1) = RankIn(S, k) + (IF k \in S THEN 1 ELSE 0) /\ RankIn(S, k) \in Nat
    BY <2>1, RankNext
  <2>4. k \in S <=> l = m
    BY <1>4 DEF S
  <2>5. t.filled[l] = IF l = m THEN s.filled[l] + 1 ELSE s.filled[l]
    BY <1>1, <1>2, <1>3
  <2>6. t.filled[l] = RankIn(S, k + 1)
    BY <2>2, <2>3, <2>4, <2>5
  <2> QED
    BY <2>6 DEF S
<1>7. ASSUME NEW j \in 0..(k + 1) - 1 PROVE t.list[Slot(key, K, j)] = j
  <2>1. j \in 0..K - 1 /\ (j = k \/ j \in 0..k - 1)
    OBVIOUS
  <2>2. CASE j = k
    BY <1>1, <1>2, <1>3, <2>2 DEF p
  <2>3. CASE j # k
    <3>1. Slot(key, K, j) # p /\ s.list[Slot(key, K, j)] = j /\ Slot(key, K, j) \in 0..K - 1
      BY <1>1, <2>1, <2>3, SlotsAre DEF Filled
    <3> QED
      BY <1>2, <1>3, <3>1
  <2> QED
    BY <2>2, <2>3
<1> QED
  BY <1>5, <1>6, <1>7 DEF Filled

LEMMA ListIsSorted ==
  ASSUME NEW n \in Nat \ {0}, NEW nodelist,
         Keyed(Corners(nodelist, n), 8*Cube(n), Cube(n + 1))
  PROVE  LET c == NodeElemCorners(nodelist, n)
             key == Corners(nodelist, n)
         IN /\ \A m \in 0..Cube(n + 1) : c.start[m] = Under(key, 8*Cube(n), m)
            /\ Sorted(c.list, key, 8*Cube(n))
<1> DEFINE K == 8*Cube(n)
<1> DEFINE M == Cube(n + 1)
<1> DEFINE key == Corners(nodelist, n)
<1> DEFINE NodeOf(k) == nodelist[k \div 8][(k % 8) + 1]
<1> DEFINE nodes == 0..M - 1
<1> DEFINE count == [m \in nodes |-> Cardinality({k \in 0..K - 1 : NodeOf(k) = m})]
<1> DEFINE start == CHOOSE f : f = [m \in 0..M |-> IF m = 0 THEN 0 ELSE f[m - 1] + count[m - 1]]
<1> DEFINE b == [list |-> [i \in 0..K - 1 |-> -1], filled |-> [m \in nodes |-> 0]]
<1> DEFINE seq == [k \in 1..K |-> k - 1]
<1> DEFINE Put(s, k) == [list |-> [s.list EXCEPT ![start[NodeOf(k)] + s.filled[NodeOf(k)]] = k],
                         filled |-> [s.filled EXCEPT ![NodeOf(k)] = s.filled[NodeOf(k)] + 1]]
<1> DEFINE Body(it) == [t \in SUBSET (1..K) |-> IF t = {} THEN b ELSE Put(it[t \ {Max(t)}], seq[Max(t)])]
<1> DEFINE ch == CHOOSE it : it = Body(it)
<1> DEFINE end == ch[1..K]
<1>1. DOMAIN seq = 1..K
  OBVIOUS
<1>2. NodeElemCorners(nodelist, n) = [start |-> start, list |-> end.list]
  BY <1>1 DEF NodeElemCorners, FoldLeft, MapThenFoldSet
<1>3. K \in Nat /\ M \in Nat /\ Keyed(key, K, M)
  <2>1. Cube(n) \in Nat /\ Cube(n + 1) \in Nat
    BY SMT DEF Cube
  <2> QED
    BY <2>1
<1>4. \A k \in 0..K - 1 : NodeOf(k) = key[k] /\ key[k] \in nodes
  BY <1>3 DEF Corners, Keyed
<1>5. \A m \in nodes : count[m] = Cardinality(Having(key, K, m))
  <2> SUFFICES ASSUME NEW m \in nodes PROVE count[m] = Cardinality(Having(key, K, m))
    OBVIOUS
  <2>1. {k \in 0..K - 1 : NodeOf(k) = m} = Having(key, K, m)
    BY <1>4 DEF Having
  <2> QED
    BY <2>1
<1> HIDE DEF K, M, key, count
<1>6. \A m \in 0..M : start[m] = Under(key, K, m)
  BY <1>3, <1>5, StartsAre
<1> HIDE DEF start, NodeOf
<1> DEFINE V == [list : [0..K - 1 -> Int], filled : [nodes -> Int]]
<1> DEFINE G == [i \in 1..K |-> [s \in V |-> Put(s, i - 1)]]
<1>7. ASSUME NEW s \in V, NEW i \in 1..K PROVE Put(s, i - 1) \in V /\ seq[i] = i - 1
  <2>1. i - 1 \in 0..K - 1 /\ i - 1 \in Int
    BY <1>3
  <2>2. NodeOf(i - 1) \in nodes
    BY <1>4, <2>1
  <2> DEFINE m == NodeOf(i - 1)
  <2>3. m \in nodes /\ s.list \in [0..K - 1 -> Int] /\ s.filled \in [nodes -> Int]
    BY <2>2
  <2> HIDE DEF m, nodes
  <2>4. s.filled[m] + 1 \in Int
    BY <2>3
  <2>5. [s.filled EXCEPT ![m] = s.filled[m] + 1] \in [nodes -> Int]
    BY <2>3, <2>4
  <2>6. [s.list EXCEPT ![start[m] + s.filled[m]] = i - 1] \in [0..K - 1 -> Int]
    BY <2>1, <2>3
  <2> QED
    BY <2>5, <2>6 DEF m
<1>8. G \in [1..K -> [V -> V]]
  BY <1>7
<1>9. \A i \in 1..K : \A s \in V : G[i][s] = Put(s, seq[i])
  BY <1>7
<1>10. b \in V
  OBVIOUS
<1> HIDE DEF V, G, Put, seq
<1>11. ASSUME NEW t \in SUBSET (1..K), t # {}
       PROVE  Max(t) \in 1..K /\ t \ {Max(t)} \in SUBSET (1..K)
  <2>1. Max(t) \in t
    BY <1>3, <1>11, MaxMember, Zenon
  <2> QED
    BY <2>1
<1> HIDE DEF b
<1>12. \E it : it = Body(it)
  <2>1. PICK it : Folds(it, K, V, b, G)
    BY <1>3, <1>8, <1>10, FoldExists
  <2>2. ASSUME NEW t \in SUBSET (1..K), t # {}
        PROVE  G[Max(t)][it[t \ {Max(t)}]] = Put(it[t \ {Max(t)}], seq[Max(t)])
    <3>1. Max(t) \in 1..K /\ it[t \ {Max(t)}] \in V
      BY <1>11, <2>1, <2>2 DEF Folds
    <3> QED
      BY <1>9, <3>1
  <2>3. it = Body(it)
    BY <2>1, <2>2, Zenon DEF Folds
  <2> QED
    BY <2>3
<1>13. ch = Body(ch)
  <2> HIDE DEF Body
  <2> QED
    BY <1>12
<1> HIDE DEF ch
<1>14. ch[{}] = b
  BY <1>13
<1>15. ASSUME NEW t \in SUBSET (1..K), t # {}, ch[t \ {Max(t)}] \in V
       PROVE  ch[t] = G[Max(t)][ch[t \ {Max(t)}]]
  <2>1. ch[t] = Put(ch[t \ {Max(t)}], seq[Max(t)])
    BY <1>13, <1>15, Zenon
  <2> QED
    BY <1>9, <1>11, <1>15, <2>1
<1> HIDE DEF Body
<1>16. PICK part : Partials(part, K, V, b, G, ch[1..K])
  BY <1>3, <1>8, <1>10, <1>14, <1>15, FoldValue
<1>17. part[0] = b /\ part[K] = end /\ \A i \in 1..K : part[i] = Put(part[i - 1], i - 1)
  <2>1. ASSUME NEW i \in 1..K PROVE part[i] = Put(part[i - 1], i - 1)
    <3>1. i - 1 \in 0..K
      BY <1>3
    <3>2. part[i - 1] \in V /\ part[i] = G[i][part[i - 1]]
      BY <1>16, <3>1 DEF Partials
    <3>3. seq[i] = i - 1
      BY DEF seq
    <3> QED
      BY <1>9, <3>2, <3>3
  <2> QED
    BY <1>16, <2>1 DEF Partials
<1> DEFINE W == [j \in 0..K |-> {s \in V : Filled(s, key, K, M, j)}]
<1>18. part[0] \in W[0]
  <2>1. \A m \in nodes : RankIn(Having(key, K, m), 0) = 0
    <3> SUFFICES ASSUME NEW m \in nodes PROVE RankIn(Having(key, K, m), 0) = 0
      OBVIOUS
    <3>1. {j \in Having(key, K, m) : j < 0} = {}
      BY <1>3 DEF Having
    <3> QED
      BY <3>1, FS_EmptySet DEF RankIn
  <2>2. b.list \in [0..K - 1 -> Int] /\ b.filled \in [nodes -> Int] /\ \A m \in nodes : b.filled[m] = 0
    BY DEF b
  <2>3. \A k \in 0..0 - 1 : FALSE
    OBVIOUS
  <2>4. Filled(b, key, K, M, 0)
    BY <2>1, <2>2, <2>3 DEF Filled
  <2> QED
    BY <1>3, <1>10, <1>17, <2>4
<1>19. ASSUME NEW i \in 1..K, part[i - 1] \in W[i - 1] PROVE part[i] \in W[i]
  <2> DEFINE k == i - 1
  <2> DEFINE s == part[k]
  <2>1. k \in 0..K - 1 /\ k \in 0..K /\ k + 1 = i
    BY <1>3
  <2>2. s \in V /\ Filled(s, key, K, M, k)
    BY <1>19, <2>1
  <2>3. part[i] = Put(s, k)
    BY <1>17
  <2> HIDE DEF k, s
  <2>4. part[i] \in V
    BY <1>16 DEF Partials
  <2>5. NodeOf(k) = key[k] /\ key[k] \in nodes
    BY <1>4, <2>1
  <2>6. start[key[k]] = Under(key, K, key[k]) /\ s.filled[key[k]] = RankIn(Having(key, K, key[k]), k)
    BY <1>3, <1>6, <2>2, <2>5 DEF Filled
  <2>7. start[NodeOf(k)] + s.filled[NodeOf(k)] = Slot(key, K, k)
    BY <2>5, <2>6 DEF Slot
  <2>8. Put(s, k) = [list |-> [s.list EXCEPT ![Slot(key, K, k)] = k],
                     filled |-> [s.filled EXCEPT ![key[k]] = s.filled[key[k]] + 1]]
    BY <2>5, <2>7 DEF Put
  <2>9. Filled(part[i], key, K, M, k + 1)
    BY <1>3, <2>1, <2>2, <2>3, <2>8, FillKeeps
  <2> QED
    BY <2>1, <2>4, <2>9
<1> HIDE DEF W
<1>20. \A j \in 0..K : part[j] \in W[j]
  BY <1>3, <1>18, <1>19, StagesHold
<1>21. Filled(end, key, K, M, K)
  <2>1. K \in 0..K
    BY <1>3
  <2> QED
    BY <1>17, <1>20, <2>1 DEF W
<1>22. Sorted(end.list, key, K)
  BY <1>21 DEF Filled, Sorted
<1> HIDE DEF end
<1> QED
  BY <1>2, <1>6, <1>22 DEF K, M, key

Gathers(c, nodelist, n) ==
  \A m \in 0..Cube(n + 1) - 1 :
    LET slots == c.start[m]..c.start[m + 1] - 1
    IN /\ {c.list[i] : i \in slots} = {k \in 0..8*Cube(n) - 1 : nodelist[k \div 8][(k % 8) + 1] = m}
       /\ \A i, j \in slots : c.list[i] = c.list[j] => i = j

LEMMA CornersGather ==
  ASSUME NEW n \in Nat \ {0}
  PROVE  Gathers(NodeElemCorners(BuildMesh(n), n), BuildMesh(n), n)
<1> DEFINE N == Cube(n)
<1> DEFINE K == 8*N
<1> DEFINE M == Cube(n + 1)
<1> DEFINE nodelist == BuildMesh(n)
<1> DEFINE key == Corners(nodelist, n)
<1> DEFINE c == NodeElemCorners(nodelist, n)
<1>1. N \in Nat /\ K \in Nat /\ M \in Nat /\ K = N*8
  <2>1. Cube(n) \in Nat /\ Cube(n + 1) \in Nat
    BY SMT DEF Cube
  <2> QED
    BY <2>1
<1>2. ASSUME NEW k \in 0..K - 1
      PROVE  key[k] = nodelist[k \div 8][(k % 8) + 1] /\ key[k] \in 0..M - 1
  <2>1. \A x \in 0..N*8 - 1 : x \div 8 \in 0..N - 1 /\ x % 8 \in 0..8 - 1
    <3> HIDE DEF N
    <3>1. 8 \in Nat \ {0}
      OBVIOUS
    <3> QED
      BY <1>1, <3>1, TwoDigits
  <2>2. k \div 8 \in 0..N - 1 /\ (k % 8) + 1 \in 1..8
    <3>1. k \in 0..N*8 - 1
      BY <1>1
    <3>2. k \div 8 \in 0..N - 1 /\ k % 8 \in 0..8 - 1
      BY <2>1, <3>1
    <3> QED
      BY <3>2
  <2>3. nodelist[k \div 8][(k % 8) + 1] \in 0..M - 1
    BY <2>2, CornerDigits
  <2> QED
    BY <2>3 DEF Corners
<1>3. Keyed(key, K, M)
  BY <1>2 DEF Keyed
<1>4. (\A m \in 0..M : c.start[m] = Under(key, K, m)) /\ Sorted(c.list, key, K)
  BY <1>3, ListIsSorted
<1> HIDE DEF K, M, N, nodelist, key, c
<1>5. ASSUME NEW m \in 0..M - 1
      PROVE  LET slots == c.start[m]..c.start[m + 1] - 1
             IN /\ {c.list[i] : i \in slots} = {k \in 0..K - 1 : nodelist[k \div 8][(k % 8) + 1] = m}
                /\ \A i, j \in slots : c.list[i] = c.list[j] => i = j
  <2> DEFINE slots == Under(key, K, m)..Under(key, K, m + 1) - 1
  <2>1. c.start[m]..c.start[m + 1] - 1 = slots
    <3>1. m \in 0..M /\ m + 1 \in 0..M
      BY <1>1
    <3> QED
      BY <1>4, <3>1
  <2> DEFINE list == c.list
  <2>2. Sorted(list, key, K)
    BY <1>4
  <2> HIDE DEF list
  <2>3. {list[i] : i \in slots} = Having(key, K, m) /\ \A i, j \in slots : list[i] = list[j] => i = j
    BY <1>1, <1>3, <2>2, SortGathers
  <2>4. Having(key, K, m) = {k \in 0..K - 1 : nodelist[k \div 8][(k % 8) + 1] = m}
    BY <1>2 DEF Having
  <2> HIDE DEF slots
  <2> QED
    BY <2>1, <2>3, <2>4 DEF list
<1> QED
  BY <1>5 DEF Gathers, K, M, N, nodelist, c

-----------------------------------------------------------------------------
(***************************************************************************)
(* The constructor: what each of its steps leaves in the domain.           *)
(***************************************************************************)
DomIInv ==
  /\ numRanks \in Nat \ {0} /\ edgeElems \in Nat \ {0} /\ rank \in 0..numRanks - 1
  /\ next \in {"InitMeshDecomp", "BuildMesh", "Threads", "Symmetry", "Connect",
               "Boundary", "done", "aborted"}
  /\ next = "aborted" => ~IsCube(numRanks)
  /\ next \notin {"InitMeshDecomp", "aborted"} => IsCube(numRanks)
  /\ next \in {"Threads", "Symmetry", "Connect", "Boundary", "done"}
       => "nodelist" \in DOMAIN dom /\ dom.nodelist = BuildMesh(edgeElems)
  /\ "corners" \in DOMAIN dom => dom.corners = NodeElemCorners(BuildMesh(edgeElems), edgeElems)
  /\ next \in {"Connect", "Boundary", "done"}
       => "symm" \in DOMAIN dom /\ dom.symm = SymmetryPlanes(rank, Side(numRanks), edgeElems)
  /\ next = "Boundary" => "links" \in DOMAIN dom /\ dom.links = Connectivities(edgeElems)
  /\ next = "done" =>
       LET b == Boundary(rank, Side(numRanks), edgeElems, Connectivities(edgeElems))
       IN dom.links = b.links /\ dom.bc = b.bc

LEMMA FillDom ==
  ASSUME NEW fields, Fill(fields)
  PROVE  /\ DOMAIN dom' = DOMAIN fields \cup DOMAIN dom
         /\ \A x \in DOMAIN fields : dom'[x] = fields[x]
         /\ \A x \in DOMAIN dom \ DOMAIN fields : dom'[x] = dom[x]
  BY DEF Fill

LEMMA DomInitInv == DomInit => DomIInv
<1> SUFFICES ASSUME DomInit PROVE DomIInv
  OBVIOUS
<1>1. numRanks \in Nat \ {0} /\ edgeElems \in Nat \ {0} /\ rank \in 0..numRanks - 1
  BY LuleshAssumption DEF DomInit
<1>2. next = "InitMeshDecomp" /\ "corners" \notin DOMAIN dom
  BY DEF DomInit, NoArrays
<1> QED
  BY <1>1, <1>2 DEF DomIInv

LEMMA DecomposeInv == DomIInv /\ Decompose => DomIInv'
<1> SUFFICES ASSUME DomIInv, Decompose PROVE DomIInv'
  OBVIOUS
<1>1. /\ next = "InitMeshDecomp" /\ UNCHANGED <<numRanks, rank, edgeElems, dom>>
      /\ next' = IF IsCube(numRanks) THEN "BuildMesh" ELSE "aborted"
  BY DEF Decompose, At
<1>2. IsCube(numRanks)' <=> IsCube(numRanks)
  BY <1>1
<1>3. CASE IsCube(numRanks)
  BY <1>1, <1>2, <1>3 DEF DomIInv
<1>4. CASE ~IsCube(numRanks)
  BY <1>1, <1>2, <1>4 DEF DomIInv
<1> QED
  BY <1>3, <1>4

\* What every later step keeps.
Kept ==
  /\ numRanks \in Nat \ {0} /\ edgeElems \in Nat \ {0} /\ rank \in 0..numRanks - 1 /\ IsCube(numRanks)

LEMMA StepKeeps ==
  ASSUME DomIInv, NEW here, NEW then, At(here, then), here \notin {"InitMeshDecomp", "aborted"}
  PROVE  Kept' /\ UNCHANGED <<numRanks, rank, edgeElems>> /\ next = here /\ next' = then
<1>1. UNCHANGED <<numRanks, rank, edgeElems>> /\ next = here /\ next' = then
  BY DEF At
<1>2. Kept
  BY <1>1 DEF DomIInv, Kept
<1> QED
  BY <1>1, <1>2 DEF Kept

LEMMA BuildInv == DomIInv /\ Mesh => DomIInv'
<1> SUFFICES ASSUME DomIInv, Mesh PROVE DomIInv'
  OBVIOUS
<1>1. /\ Kept' /\ UNCHANGED <<numRanks, rank, edgeElems>> /\ next = "BuildMesh" /\ next' = "Threads"
      /\ Fill([nodelist |-> BuildMesh(edgeElems)])
  BY StepKeeps DEF Mesh
<1>2. /\ dom.nodelist' = BuildMesh(edgeElems) /\ DOMAIN dom' = {"nodelist"} \cup DOMAIN dom
      /\ "corners" \in DOMAIN dom => dom.corners' = dom.corners
  BY <1>1, FillDom
<1> QED
  BY <1>1, <1>2 DEF DomIInv, Kept

LEMMA ThreadsInv == DomIInv /\ Threads => DomIInv'
<1> SUFFICES ASSUME DomIInv, Threads PROVE DomIInv'
  OBVIOUS
<1>1. /\ Kept' /\ UNCHANGED <<numRanks, rank, edgeElems>> /\ next = "Threads" /\ next' = "Symmetry"
  BY StepKeeps DEF Threads
<1>2. "nodelist" \in DOMAIN dom /\ dom.nodelist = BuildMesh(edgeElems)
  BY <1>1 DEF DomIInv
<1>3. CASE Fill([corners |-> NodeElemCorners(dom.nodelist, edgeElems)])
  <2> DEFINE fields == [corners |-> NodeElemCorners(dom.nodelist, edgeElems)]
  <2>1. DOMAIN fields = {"corners"} /\ fields.corners = NodeElemCorners(dom.nodelist, edgeElems) /\ Fill(fields)
    BY <1>3
  <2> HIDE DEF fields
  <2>2. dom'["corners"] = fields["corners"] /\ dom'["nodelist"] = dom["nodelist"] /\ "nodelist" \in DOMAIN dom'
    BY <1>2, <2>1, FillDom
  <2> QED
    BY <1>1, <1>2, <2>1, <2>2 DEF DomIInv, Kept
<1>4. CASE UNCHANGED dom
  BY <1>1, <1>2, <1>4 DEF DomIInv, Kept
<1> QED
  BY <1>3, <1>4 DEF Threads

LEMMA SymmetryInv == DomIInv /\ Symmetry => DomIInv'
<1> SUFFICES ASSUME DomIInv, Symmetry PROVE DomIInv'
  OBVIOUS
<1> DEFINE fields == [symm |-> SymmetryPlanes(rank, Side(numRanks), edgeElems)]
<1>1. /\ Kept' /\ UNCHANGED <<numRanks, rank, edgeElems>> /\ next = "Symmetry" /\ next' = "Connect"
      /\ Fill(fields)
  BY StepKeeps DEF Symmetry
<1>2. /\ DOMAIN fields = {"symm"} /\ fields.symm = SymmetryPlanes(rank, Side(numRanks), edgeElems)
      /\ Side(numRanks)' = Side(numRanks)
  BY <1>1
<1> HIDE DEF fields
<1>3. /\ DOMAIN dom' = {"symm"} \cup DOMAIN dom /\ dom'["symm"] = fields["symm"]
      /\ \A x \in DOMAIN dom \ {"symm"} : dom'[x] = dom[x]
  BY <1>1, <1>2, FillDom
<1>4. "nodelist" \in DOMAIN dom /\ dom'["nodelist"] = dom["nodelist"]
      /\ ("corners" \in DOMAIN dom' => "corners" \in DOMAIN dom /\ dom'["corners"] = dom["corners"])
  BY <1>1, <1>3 DEF DomIInv
<1> QED
  BY <1>1, <1>2, <1>3, <1>4 DEF DomIInv, Kept

LEMMA ConnectInv == DomIInv /\ Connect => DomIInv'
<1> SUFFICES ASSUME DomIInv, Connect PROVE DomIInv'
  OBVIOUS
<1> DEFINE fields == [links |-> Connectivities(edgeElems)]
<1>1. /\ Kept' /\ UNCHANGED <<numRanks, rank, edgeElems>> /\ next = "Connect" /\ next' = "Boundary"
      /\ Fill(fields)
  BY StepKeeps DEF Connect
<1>2. /\ DOMAIN fields = {"links"} /\ fields.links = Connectivities(edgeElems)
      /\ Side(numRanks)' = Side(numRanks)
  BY <1>1
<1> HIDE DEF fields
<1>3. /\ DOMAIN dom' = {"links"} \cup DOMAIN dom /\ dom'["links"] = fields["links"]
      /\ \A x \in DOMAIN dom \ {"links"} : dom'[x] = dom[x]
  BY <1>1, <1>2, FillDom
<1>4. /\ "nodelist" \in DOMAIN dom /\ dom'["nodelist"] = dom["nodelist"]
      /\ "symm" \in DOMAIN dom /\ dom'["symm"] = dom["symm"]
      /\ ("corners" \in DOMAIN dom' => "corners" \in DOMAIN dom /\ dom'["corners"] = dom["corners"])
  BY <1>1, <1>3 DEF DomIInv
<1> QED
  BY <1>1, <1>2, <1>3, <1>4 DEF DomIInv, Kept

LEMMA BoundInv == DomIInv /\ Bound => DomIInv'
<1> SUFFICES ASSUME DomIInv, Bound PROVE DomIInv'
  OBVIOUS
<1> DEFINE fields == Boundary(rank, Side(numRanks), edgeElems, dom.links)
<1>1. /\ Kept' /\ UNCHANGED <<numRanks, rank, edgeElems>> /\ next = "Boundary" /\ next' = "done"
      /\ Fill(fields)
  BY StepKeeps DEF Bound
<1>2. DOMAIN fields = {"bc", "links"} /\ Side(numRanks)' = Side(numRanks)
  BY <1>1 DEF Boundary
<1>3. dom.links = Connectivities(edgeElems)
  BY <1>1 DEF DomIInv
<1>4. fields = Boundary(rank, Side(numRanks), edgeElems, Connectivities(edgeElems))
  BY <1>3
<1> HIDE DEF fields
<1>5. /\ DOMAIN dom' = {"bc", "links"} \cup DOMAIN dom
      /\ dom'["links"] = fields["links"] /\ dom'["bc"] = fields["bc"]
      /\ \A x \in DOMAIN dom \ {"bc", "links"} : dom'[x] = dom[x]
  BY <1>1, <1>2, FillDom
<1>6. /\ "nodelist" \in DOMAIN dom /\ dom'["nodelist"] = dom["nodelist"]
      /\ "symm" \in DOMAIN dom /\ dom'["symm"] = dom["symm"]
      /\ ("corners" \in DOMAIN dom' => "corners" \in DOMAIN dom /\ dom'["corners"] = dom["corners"])
  BY <1>1, <1>5 DEF DomIInv
<1> QED
  BY <1>1, <1>2, <1>4, <1>5, <1>6 DEF DomIInv, Kept

LEMMA DomStep == DomIInv /\ [DomNext]_domVars => DomIInv'
<1>1. DomIInv /\ UNCHANGED domVars => DomIInv'
  BY DEF DomIInv, domVars
<1>2. DomIInv /\ DomNext => DomIInv'
  BY <1>1, DecomposeInv, BuildInv, ThreadsInv, SymmetryInv, ConnectInv, BoundInv DEF DomNext, DomDone
<1> QED
  BY <1>1, <1>2

\* The arrays of a domain that is built, as the lemmas describe them.
LEMMA BuiltArrays ==
  ASSUME DomIInv, Built
  PROVE  LET n == edgeElems
             side == Side(numRanks)
         IN /\ n \in Nat \ {0} /\ side \in 1..numRanks /\ Cube(side) = numRanks
            /\ dom.nodelist = BuildMesh(n)
            /\ \A f \in ToSet(Faces) : \A e \in 0..Cube(n) - 1 :
                 /\ dom.bc[f][e] = Condition(f, e, rank, side, n)
                 /\ dom.links[f][e] = IF AtRim(f, e, n) /\ Shared(f, rank, side)
                                      THEN GhostOf(f, e, rank, side, n) ELSE Connectivities(n)[f][e]
<1> DEFINE n == edgeElems
<1> DEFINE side == Side(numRanks)
<1> DEFINE b == Boundary(rank, side, n, Connectivities(n))
<1>1. /\ n \in Nat \ {0} /\ numRanks \in Nat \ {0} /\ IsCube(numRanks)
      /\ dom.nodelist = BuildMesh(n) /\ dom.bc = b.bc /\ dom.links = b.links
  BY DEF DomIInv, Built
<1>2. side \in 1..numRanks /\ Cube(side) = numRanks
  BY <1>1, CubesPass
<1>3. DOMAIN Connectivities(n) = ToSet(Faces)
  BY <1>1, LinksAre
<1>4. \A f \in ToSet(Faces) : \A e \in 0..Cube(n) - 1 :
        /\ b.bc[f][e] = Condition(f, e, rank, side, n)
        /\ b.links[f][e] = IF AtRim(f, e, n) /\ Shared(f, rank, side)
                           THEN GhostOf(f, e, rank, side, n) ELSE Connectivities(n)[f][e]
  BY <1>1, <1>3, BoundaryIs
<1> HIDE DEF b, n, side
<1> QED
  BY <1>1, <1>2, <1>4 DEF n, side

LEMMA RootPasses == DomIInv => DomTypeOK
<1> SUFFICES ASSUME DomIInv PROVE DomTypeOK
  OBVIOUS
<1>1. numRanks \in Nat \ {0}
  BY DEF DomIInv
<1>2. next = "aborted" => \A t \in 1..numRanks : Cube(t) # numRanks
  BY <1>1, CubesPass DEF DomIInv
<1>3. Built => Side(numRanks) \in 1..numRanks /\ Cube(Side(numRanks)) = numRanks
  BY BuiltArrays
<1> QED
  BY <1>2, <1>3 DEF DomIInv, DomTypeOK

LEMMA TilesHold == DomIInv => MeshTiles
<1> SUFFICES ASSUME DomIInv, Built PROVE MeshTiles
  BY DEF MeshTiles
<1>1. /\ edgeElems \in Nat \ {0} /\ Side(numRanks) \in 1..numRanks /\ Cube(Side(numRanks)) = numRanks
      /\ dom.nodelist = BuildMesh(edgeElems)
  BY BuiltArrays
<1>2. rank \in 0..Cube(Side(numRanks)) - 1 /\ Side(numRanks) \in Nat \ {0}
  BY <1>1 DEF DomIInv
<1>3. Tiled(rank, Side(numRanks), edgeElems, dom.nodelist)
  BY <1>1, <1>2, MeshIsTiled
<1> QED
  BY <1>3 DEF MeshTiles, Tiled, Corner, Elems

LEMMA NeighboursHold == DomIInv => NeighboursShareNodes
<1> SUFFICES ASSUME DomIInv, Built, NEW e \in Elems, NEW i \in 1..6, dom.bc[Faces[i]][e] = "INNER",
                    NEW p \in Meeting(Faces[i])
             PROVE  dom.nodelist[e][p[1]] = dom.nodelist[dom.links[Faces[i]][e]][p[2]]
  BY DEF NeighboursShareNodes
<1> DEFINE f == Faces[i]
<1>1. f \in ToSet(Faces) /\ e \in 0..Cube(edgeElems) - 1
  BY SixFaces DEF Elems
<1> HIDE DEF f
<1>2. /\ edgeElems \in Nat \ {0} /\ dom.nodelist = BuildMesh(edgeElems)
      /\ dom.bc[f][e] = Condition(f, e, rank, Side(numRanks), edgeElems)
      /\ dom.links[f][e] = IF AtRim(f, e, edgeElems) /\ Shared(f, rank, Side(numRanks))
                           THEN GhostOf(f, e, rank, Side(numRanks), edgeElems)
                           ELSE Connectivities(edgeElems)[f][e]
  BY <1>1, BuiltArrays
<1>3. dom.bc[f][e] = "INNER" /\ p \in Meeting(f)
  BY DEF f
<1>4. ~AtRim(f, e, edgeElems)
  BY <1>2, <1>3 DEF Condition
<1>5. BuildMesh(edgeElems)[e][p[1]] = BuildMesh(edgeElems)[Connectivities(edgeElems)[f][e]][p[2]]
  BY <1>1, <1>2, <1>3, <1>4, CornersMeet
<1> QED
  BY <1>2, <1>4, <1>5 DEF f

LEMMA PlanesHold == DomIInv => SymmetryAgrees
<1> SUFFICES ASSUME DomIInv, Built PROVE SymmetryAgrees
  BY DEF SymmetryAgrees
<1>1. /\ edgeElems \in Nat \ {0} /\ dom.nodelist = BuildMesh(edgeElems)
      /\ \A f \in ToSet(Faces) : \A e \in 0..Cube(edgeElems) - 1 :
           dom.bc[f][e] = Condition(f, e, rank, Side(numRanks), edgeElems)
  BY BuiltArrays
<1> DEFINE s == SymmetryPlanes(rank, Side(numRanks), edgeElems)
<1>2. dom.symm = s
  BY DEF DomIInv, Built
<1>3. /\ SymmetricFace("xiM", s["x"], rank, Side(numRanks), edgeElems)
      /\ SymmetricFace("etaM", s["y"], rank, Side(numRanks), edgeElems)
      /\ SymmetricFace("zetaM", s["z"], rank, Side(numRanks), edgeElems)
  BY <1>1, PlanesAreFaces
<1> HIDE DEF s
<1>4. "xiM" \in ToSet(Faces) /\ "etaM" \in ToSet(Faces) /\ "zetaM" \in ToSet(Faces)
  BY SixFaces
<1>5. ASSUME NEW f \in ToSet(Faces), NEW axis,
             SymmetricFace(f, s[axis], rank, Side(numRanks), edgeElems), NEW e \in Elems
      PROVE  (dom.bc[f][e] = "SYMM")
               <=> {dom.nodelist[e][q[1]] : q \in Meeting(f)} \subseteq dom.symm[axis]
  BY <1>1, <1>2, <1>5 DEF SymmetricFace, Elems
<1>6. ASSUME NEW e \in Elems, NEW p \in {<<"xiM", "x">>, <<"etaM", "y">>, <<"zetaM", "z">>}
      PROVE  (dom.bc[p[1]][e] = "SYMM")
               <=> {dom.nodelist[e][q[1]] : q \in Meeting(p[1])} \subseteq dom.symm[p[2]]
  <2>1. CASE p = <<"xiM", "x">>
    BY <1>3, <1>4, <1>5, <2>1
  <2>2. CASE p = <<"etaM", "y">>
    BY <1>3, <1>4, <1>5, <2>2
  <2>3. CASE p = <<"zetaM", "z">>
    BY <1>3, <1>4, <1>5, <2>3
  <2> QED
    BY <1>6, <2>1, <2>2, <2>3
<1> QED
  BY <1>6 DEF SymmetryAgrees

LEMMA DenseHold == DomIInv => GhostsDense
<1> SUFFICES ASSUME DomIInv, Built PROVE GhostsDense
  BY DEF GhostsDense
<1> DEFINE n == edgeElems
<1> DEFINE side == Side(numRanks)
<1> DEFINE refs == {p \in ToSet(Faces) \X Elems : dom.bc[p[1]][p[2]] = "COMM"}
<1>1. /\ n \in Nat \ {0}
      /\ \A f \in ToSet(Faces) : \A e \in 0..Cube(n) - 1 :
           /\ dom.bc[f][e] = Condition(f, e, rank, side, n)
           /\ dom.links[f][e] = IF AtRim(f, e, n) /\ Shared(f, rank, side)
                                THEN GhostOf(f, e, rank, side, n) ELSE Connectivities(n)[f][e]
  BY BuiltArrays
<1>2. Elems = 0..Cube(n) - 1
  BY DEF Elems
<1> HIDE DEF n, side
<1>3. refs = GhostRefs(rank, side, n)
  BY <1>1, <1>2 DEF GhostRefs, Condition
<1>4. \A p \in refs : dom.links[p[1]][p[2]] = GhostOf(p[1], p[2], rank, side, n)
  BY <1>1, <1>3 DEF GhostRefs
<1> HIDE DEF refs
<1>5. {dom.links[p[1]][p[2]] : p \in refs} = {GhostOf(p[1], p[2], rank, side, n) : p \in GhostRefs(rank, side, n)}
  BY <1>3, <1>4
<1>6. DenseGhosts(rank, side, n)
  BY <1>1, GhostsAreDense
<1> QED
  BY <1>3, <1>5, <1>6 DEF DenseGhosts, GhostsDense, refs, n

LEMMA GatherHolds == DomIInv => GatherIsScatter
<1> SUFFICES ASSUME DomIInv, Built, "corners" \in DOMAIN dom PROVE GatherIsScatter
  BY DEF GatherIsScatter
<1>1. /\ edgeElems \in Nat \ {0} /\ dom.nodelist = BuildMesh(edgeElems)
      /\ dom.corners = NodeElemCorners(BuildMesh(edgeElems), edgeElems)
  BY BuiltArrays DEF DomIInv
<1>2. Gathers(dom.corners, dom.nodelist, edgeElems)
  BY <1>1, CornersGather
<1> QED
  BY <1>2 DEF Gathers, GatherIsScatter

(* The arrays the constructor of a Domain fills (lulesh-init.cc:118-136)   *)
(* describe one mesh, for every rank count and every edge length.          *)
THEOREM MeshInvHolds == DomSpec => []MeshInv
<1>1. DomIInv => MeshInv
  BY RootPasses, TilesHold, NeighboursHold, PlanesHold, DenseHold, GatherHolds DEF MeshInv
<1> QED
  BY <1>1, DomInitInv, DomStep, PTL DEF DomSpec
=============================================================================
