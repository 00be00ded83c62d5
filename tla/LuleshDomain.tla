---------------------------- MODULE LuleshDomain ----------------------------
(***************************************************************************)
(* The constructor of one rank's Domain in examples/lulesh: it fills its   *)
(* index arrays one after another.  Real-valued fields are left out, and   *)
(* so are the regions (LuleshRegions) and the communication buffers        *)
(* (LuleshComm).  The properties compare the arrays with the geometry and  *)
(* with each other.                                                        *)
(***************************************************************************)
EXTENDS LuleshMesh

CONSTANTS
  RankCounts,   \* the numbers of MPI ranks the program is started with
  CubeSizes     \* opts.nx: elements along an edge of one rank's cube

ASSUME LuleshAssumption ==
  RankCounts \subseteq Nat \ {0} /\ CubeSizes \subseteq Nat \ {0}

VARIABLES
  numRanks,   \* MPI_Comm_size
  rank,       \* MPI_Comm_rank
  edgeElems,  \* opts.nx
  next,       \* the constructor's next step, "done" or "aborted"
  dom         \* the arrays filled so far

domVars == <<numRanks, rank, edgeElems, next, dom>>

NoArrays == [links |-> << >>]

DomInit ==
  /\ numRanks \in RankCounts /\ edgeElems \in CubeSizes
  /\ rank \in 0..numRanks - 1
  /\ next = "InitMeshDecomp" /\ dom = NoArrays

At(here, then) == next = here /\ next' = then /\ UNCHANGED <<numRanks, rank, edgeElems>>
Fill(fields) ==
  dom' = [a \in DOMAIN fields \cup DOMAIN dom |-> IF a \in DOMAIN fields THEN fields[a] ELSE dom[a]]

(* One step per call of the constructor, in its order.                     *)
Decompose ==
  /\ At("InitMeshDecomp", IF IsCube(numRanks) THEN "BuildMesh" ELSE "aborted")
  /\ UNCHANGED dom

Mesh == At("BuildMesh", "Threads") /\ Fill([nodelist |-> BuildMesh(edgeElems)])

(* SetupThreadSupportStructures lists corners only if several threads run. *)
Threads ==
  /\ At("Threads", "Symmetry")
  /\ \/ Fill([corners |-> NodeElemCorners(dom.nodelist, edgeElems)])
     \/ UNCHANGED dom

Symmetry ==
  At("Symmetry", "Connect") /\ Fill([symm |-> SymmetryPlanes(rank, Side(numRanks), edgeElems)])

Connect == At("Connect", "Boundary") /\ Fill([links |-> Connectivities(edgeElems)])

Bound ==
  At("Boundary", "done") /\ Fill(Boundary(rank, Side(numRanks), edgeElems, dom.links))

DomDone == next \in {"done", "aborted"} /\ UNCHANGED domVars

DomNext == Decompose \/ Mesh \/ Threads \/ Symmetry \/ Connect \/ Bound \/ DomDone
DomSpec == DomInit /\ [][DomNext]_domVars
-----------------------------------------------------------------------------
Elems == 0..Cube(edgeElems) - 1
Built == next = "done"

(* Type correctness, and that exactly the cubes get past InitMeshDecomp.   *)
DomTypeOK ==
  /\ next \in {"InitMeshDecomp", "BuildMesh", "Threads", "Symmetry", "Connect",
                "Boundary", "done", "aborted"}
  /\ next = "aborted" => \A t \in 1..numRanks : Cube(t) # numRanks
  /\ Built => \E t \in 1..numRanks : Cube(t) = numRanks /\ t = Side(numRanks)

(* The elements of all ranks tile the cube: the eight nodes BuildMesh      *)
(* gives an element are the corners of the cell its number and its rank    *)
(* stand for, counted in the cube of all ranks.                            *)
MeshTiles ==
  Built =>
    LET tp == Side(numRanks)
        all == tp*edgeElems + 1
        l == Loc(rank, tp)
        corner == <<<<0, 0, 0>>, <<1, 0, 0>>, <<1, 1, 0>>, <<0, 1, 0>>,
                    <<0, 0, 1>>, <<1, 0, 1>>, <<1, 1, 1>>, <<0, 1, 1>>>>
    IN /\ rank = l.x + tp*l.y + tp*tp*l.z
       /\ \A e \in Elems, c \in 1..8 :
            GlobalNode(rank, tp, edgeElems, dom.nodelist[e][c]) =
              (l.x*edgeElems + (e % edgeElems) + corner[c][1])
              + (l.y*edgeElems + ((e \div edgeElems) % edgeElems) + corner[c][2])*all
              + (l.z*edgeElems + (e \div (edgeElems*edgeElems)) + corner[c][3])*all*all

(* Inside a domain the neighbour an element is linked to across a face is  *)
(* the one it shares that face's four nodes with: BuildMesh and            *)
(* SetupElementConnectivities agree wherever the boundary conditions do    *)
(* not replace the link.                                                   *)
NeighboursShareNodes ==
  Built => \A e \in Elems, i \in 1..6 :
    LET f == Faces[i]
    IN dom.bc[f][e] = "INNER" =>
         \A p \in Meeting(f) :
           dom.nodelist[e][p[1]] = dom.nodelist[dom.links[f][e]][p[2]]

(* A face has the symmetry condition exactly if its four nodes are in the  *)
(* symmetry plane across it: the elements' condition and the nodes whose   *)
(* acceleration is set to zero never disagree.                             *)
SymmetryAgrees ==
  Built => \A e \in Elems, p \in {<<"xiM", "x">>, <<"etaM", "y">>, <<"zetaM", "z">>} :
    (dom.bc[p[1]][e] = "SYMM")
      <=> {dom.nodelist[e][q[1]] : q \in Meeting(p[1])} \subseteq dom.symm[p[2]]

(* The ghost elements a domain refers to are numbered without gap or       *)
(* overlap right after its own, one for each shared element face, as       *)
(* CommMonoQ fills them; none lies beyond the arrays CalcQForElems sizes.  *)
GhostsDense ==
  Built =>
    LET refs == {p \in ToSet(Faces) \X Elems : dom.bc[p[1]][p[2]] = "COMM"}
        ghosts == {dom.links[p[1]][p[2]] : p \in refs}
    IN /\ ghosts = Cube(edgeElems)..Cube(edgeElems) + Cardinality(refs) - 1
       /\ \A g \in ghosts : g < Cube(edgeElems) + 6*edgeElems*edgeElems

(* A thread that sums the corners listed for a node meets every corner at  *)
(* that node once and no other: gathering by nodes (several threads) gives *)
(* what scattering by elements (one thread) gives.                         *)
GatherIsScatter ==
  (Built /\ "corners" \in DOMAIN dom) => \A m \in 0..Cube(edgeElems + 1) - 1 :
    LET c == dom.corners
        slots == c.start[m]..c.start[m + 1] - 1
    IN /\ {c.list[i] : i \in slots}
            = {k \in 0..8*Cube(edgeElems) - 1 : dom.nodelist[k \div 8][(k % 8) + 1] = m}
       /\ \A i, j \in slots : c.list[i] = c.list[j] => i = j

(* The index arrays of a domain, each filled by another function, describe *)
(* one mesh (lulesh-init.cc:118-136).                                      *)
MeshInv ==
  /\ DomTypeOK /\ MeshTiles /\ NeighboursShareNodes
  /\ SymmetryAgrees /\ GhostsDense /\ GatherIsScatter
=============================================================================
