----------------------------- MODULE LuleshMesh -----------------------------
(***************************************************************************)
(* The index arithmetic of examples/lulesh, the MPI program SYMBIOMON      *)
(* monitors: how the ranks divide a cube among them (InitMeshDecomp), and  *)
(* the index arrays the constructor of one rank's Domain fills.  Every     *)
(* index is computed as the code computes it.                              *)
(***************************************************************************)
EXTENDS Integers, Sequences, FiniteSets, FiniteSetsExt, SequencesExt

(* The elements of a cube of edge t, or its nodes, or the ranks along it.  *)
Cube(t) == t*t*t

(* InitMeshDecomp: cbrt(numRanks) rounded; a rank count that is not a cube *)
(* aborts the program.  The remainder of tp^3 over numRanks is zero then.  *)
Side(n) == CHOOSE t \in 0..n : Cube(2*t - 1) <= 8*n /\ 8*n < Cube(2*t + 1)

IsCube(n) == Cube(Side(n)) = n

Loc(r, tp) == [x |-> r % tp, y |-> (r \div tp) % tp, z |-> r \div (tp*tp)]

(* Directions, one per neighbour: a step of -1, 0 or 1 along x (column),   *)
(* y (row) and z (plane).                                                  *)
HasNeighbour(r, tp, d) ==
  LET Inside(at, step) == (step = -1 => at # 0) /\ (step = 1 => at # tp - 1)
      l == Loc(r, tp)
  IN Inside(l.x, d[1]) /\ Inside(l.y, d[2]) /\ Inside(l.z, d[3])

Neighbour(r, tp, d) == r + d[1] + d[2]*tp + d[3]*tp*tp
-----------------------------------------------------------------------------
(* BuildMesh: element after element, with one node skipped at the end of a *)
(* row and a row of nodes at the end of a plane.                           *)
BuildMesh(n) ==
  LET en == n + 1
      nidx[e \in 0..Cube(n) - 1] ==
        IF e = 0 THEN 0
        ELSE nidx[e - 1] + 1 + (IF e % n = 0 THEN 1 ELSE 0)
                             + (IF e % (n*n) = 0 THEN en ELSE 0)
  IN [e \in 0..Cube(n) - 1 |->
        LET c == nidx[e]
        IN <<c, c + 1, c + en + 1, c + en,
             c + en*en, c + en*en + 1, c + en*en + en + 1, c + en*en + en>>]

\* mutant: the counts are not reset before the list is filled
NodeElemCorners_CountsKept(nodelist, n) ==
  LET NodeOf(k) == nodelist[k \div 8][(k % 8) + 1]
      start == [m \in 0..Cube(n + 1) |-> Cardinality({k \in 0..8*Cube(n) - 1 : NodeOf(k) < m})]
  IN [start |-> start,
      list |-> [i \in 0..8*Cube(n) - 1 |->
                  LET fits == {k \in 0..8*Cube(n) - 1 : start[NodeOf(k) + 1] = i}
                  IN IF fits = {} THEN -1 ELSE CHOOSE k \in fits : TRUE]]

(* SetupThreadSupportStructures: the corners of elements by node, a corner *)
(* being eight times its element plus its place in the nodelist.           *)
NodeElemCorners(nodelist, n) ==
  LET nodes == 0..Cube(n + 1) - 1
      NodeOf(k) == nodelist[k \div 8][(k % 8) + 1]
      count == [m \in nodes |-> Cardinality({k \in 0..8*Cube(n) - 1 : NodeOf(k) = m})]
      start[m \in 0..Cube(n + 1)] == IF m = 0 THEN 0 ELSE start[m - 1] + count[m - 1]
      Fill(s, k) ==
        LET m == NodeOf(k)
        IN [list |-> [s.list EXCEPT ![start[m] + s.filled[m]] = k],
            filled |-> [s.filled EXCEPT ![m] = @ + 1]]
      end == FoldLeft(Fill, [list |-> [i \in 0..8*Cube(n) - 1 |-> -1],
                             filled |-> [m \in nodes |-> 0]],
                      [k \in 1..8*Cube(n) |-> k - 1])
  IN [start |-> start, list |-> end.list]

(* SetupSymmetryPlanes: the nodes on the three planes through the origin.  *)
SymmetryPlanes(r, tp, n) ==
  LET en == n + 1
      l == Loc(r, tp)
  IN [x |-> IF l.x # 0 THEN {} ELSE {i*en*en + j*en : i, j \in 0..n},
      y |-> IF l.y # 0 THEN {} ELSE {i*en*en + j : i, j \in 0..n},
      z |-> IF l.z # 0 THEN {} ELSE {i*en + j : i, j \in 0..n}]

(* The six faces of an element in the order of ghostIdx and of CommMonoQ.  *)
Faces == <<"zetaM", "zetaP", "etaM", "etaP", "xiM", "xiP">>
Towards == [zetaM |-> <<0, 0, -1>>, zetaP |-> <<0, 0, 1>>, etaM |-> <<0, -1, 0>>,
            etaP |-> <<0, 1, 0>>, xiM |-> <<-1, 0, 0>>, xiP |-> <<1, 0, 0>>]

(* SetupElementConnectivities: the six neighbours inside the numbering; an *)
(* element at an end of it is its own neighbour.                           *)
Connectivities(n) ==
  LET Before(step) == [e \in 0..Cube(n) - 1 |-> IF e < step THEN e ELSE e - step]
      After(step) == [e \in 0..Cube(n) - 1 |-> IF e >= Cube(n) - step THEN e ELSE e + step]
  IN [xiM |-> Before(1), xiP |-> After(1), etaM |-> Before(n), etaP |-> After(n),
      zetaM |-> Before(n*n), zetaP |-> After(n*n)]

(* The element at place (i, j) of a face of the domain.                    *)
OnFace(f, i, j, n) ==
  CASE f = "zetaM" -> i*n + j
    [] f = "zetaP" -> i*n + j + Cube(n) - n*n
    [] f = "etaM"  -> i*n*n + j
    [] f = "etaP"  -> i*n*n + j + n*n - n
    [] f = "xiM"   -> i*n*n + j*n
    [] f = "xiP"   -> i*n*n + j*n + n - 1

(* ghostIdx: the ghosts of a face follow those of the faces before it that *)
(* have a neighbour.                                                       *)
GhostStart(r, tp, n, f) ==
  LET before == {i \in 1..6 : HasNeighbour(r, tp, Towards[Faces[i]])
                              /\ \E k \in i + 1..6 : Faces[k] = f}
  IN Cube(n) + Cardinality(before)*n*n

(* SetupBoundaryConditions: every element on a face of the domain gets the *)
(* face's condition, and across a face shared with a rank a ghost index.   *)
Boundary(r, tp, n, links) ==
  LET shared(f) == HasNeighbour(r, tp, Towards[f])
      kind(f) == IF shared(f) THEN "COMM"
                 ELSE IF f \in {"zetaM", "etaM", "xiM"} THEN "SYMM" ELSE "FREE"
      Places(f, e) == {p \in (0..n - 1) \X (0..n - 1) : OnFace(f, p[1], p[2], n) = e}
      Link(f, e) ==
        IF Places(f, e) = {} \/ ~shared(f) THEN links[f][e]
        ELSE LET p == CHOOSE p \in Places(f, e) : TRUE
             IN GhostStart(r, tp, n, f) + p[1]*n + p[2]
  IN [bc |-> [f \in DOMAIN links |-> [e \in 0..Cube(n) - 1 |->
                IF Places(f, e) = {} THEN "INNER" ELSE kind(f)]],
      links |-> [f \in DOMAIN links |-> [e \in 0..Cube(n) - 1 |-> Link(f, e)]]]
-----------------------------------------------------------------------------
(* The corners of an element on a face, each with the corner of the        *)
(* neighbour behind that face that is the same node.                       *)
Meeting(f) ==
  LET pairs == CASE f \in {"xiM", "xiP"}     -> {<<1, 2>>, <<4, 3>>, <<5, 6>>, <<8, 7>>}
                 [] f \in {"etaM", "etaP"}   -> {<<1, 4>>, <<2, 3>>, <<5, 8>>, <<6, 7>>}
                 [] f \in {"zetaM", "zetaP"} -> {<<1, 5>>, <<2, 6>>, <<3, 7>>, <<4, 8>>}
  IN IF f \in {"xiM", "etaM", "zetaM"} THEN pairs ELSE {<<p[2], p[1]>> : p \in pairs}

(* Where a local node lies in the cube of all ranks, as a node number of   *)
(* that cube: shared nodes of two ranks have one such number.              *)
GlobalNode(r, tp, n, m) ==
  LET en == n + 1
      l == Loc(r, tp)
      all == tp*n + 1
  IN (l.x*n + (m % en)) + (l.y*n + ((m \div en) % en))*all + (l.z*n + (m \div (en*en)))*all*all
=============================================================================
