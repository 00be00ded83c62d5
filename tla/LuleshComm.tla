----------------------------- MODULE LuleshComm -----------------------------
(***************************************************************************)
(* One exchange of examples/lulesh over all ranks: every rank posts its    *)
(* receives (CommRecv), packs and sends (CommSend) and unpacks (CommSBN,   *)
(* CommSyncPosVel or CommMonoQ).  The tables of LuleshMessages say what;   *)
(* this module adds the buffers, the delivery and the effect on the        *)
(* fields.  The ranks take turns here: how their calls interleave is       *)
(* HaloExchange.                                                           *)
(*                                                                         *)
(* A field holds the origin of its values: the sequence of the copies of a *)
(* node, each as rank and local node, that CommSBN has summed there or of  *)
(* the one CommSyncPosVel has left there; the rank and element CommMonoQ   *)
(* has put in place of a ghost.                                            *)
(***************************************************************************)
EXTENDS LuleshMessages

CONSTANTS
  Sides,      \* ranks along an edge of the cube of ranks
  EdgeSizes   \* opts.nx: elements along an edge of one rank's cube

ASSUME CommAssumption == Sides \subseteq Nat \ {0, 1} /\ EdgeSizes \subseteq Nat \ {0}

VARIABLES
  kind,     \* which of the program's exchanges this is
  tp, nx,   \* its geometry
  turn,     \* the call being made and the rank that makes it next
  posted,   \* recvRequest of every rank: what each slot waits for
  sent,     \* sendRequest of every rank: what each slot carries
  field     \* fieldData of every rank

commVars == <<kind, tp, nx, turn, posted, sent, field>>

(* The exchanges and their arguments at the four call sites.               *)
Exchanges ==
  [mass   |-> [fields |-> 1, flag |-> TRUE,  planeOnly |-> FALSE],
   force  |-> [fields |-> 3, flag |-> TRUE,  planeOnly |-> FALSE],
   posVel |-> [fields |-> 6, flag |-> FALSE, planeOnly |-> FALSE],
   monoQ  |-> [fields |-> 3, flag |-> TRUE,  planeOnly |-> TRUE]]

Call == Exchanges[kind]
Summing == kind \in {"mass", "force"}
Ranks == 0..Cube(tp) - 1
D == IF kind = "monoQ" THEN nx ELSE nx + 1   \* dx, dy and dz

Rounded(k) == ((k + 15) \div 16)*16          \* CACHE_ALIGN_REAL of doubles
PlaneSize == Rounded((nx + 1)*(nx + 1))
EdgeSize == Rounded(nx + 1)
CornerSize == 16                             \* CACHE_COHERENCE_PAD_REAL

(* A section of an exchange is skipped where there is no neighbour, or the *)
(* caller does not ask for it.                                             *)
Exchanged(r, m) == HasNeighbour(r, tp, m.dir) /\ (m.flagged => Call.flag)

(* The messages of a table that a rank exchanges, in the table's order.    *)
Chosen(r, table) ==
  LET Take(taken, m) == IF Exchanged(r, m) THEN Append(taken, m) ELSE taken
  IN FoldLeft(Take, << >>, table)

(* pmsg, emsg and cmsg: the k-th request is slot k, its data begin after   *)
(* a plane's room for every face, an edge's for every edge, a cache line   *)
(* for every corner before it.                                             *)
Layout(r, faces, edges, corners) ==
  LET f == Chosen(r, faces)
      e == IF Call.planeOnly THEN << >> ELSE Chosen(r, edges)
      c == IF Call.planeOnly THEN << >> ELSE Chosen(r, corners)
      all == f \o e \o c
      Limit(k, n) == IF k < n THEN k ELSE n
      at(i) == Call.fields*PlaneSize*Limit(i - 1, Len(f))
               + Call.fields*EdgeSize*Limit(IF i <= Len(f) THEN 0 ELSE i - 1 - Len(f), Len(e))
               + CornerSize*(IF i <= Len(f \o e) THEN 0 ELSE i - 1 - Len(f \o e))
  IN [i \in 1..Len(all) |-> [at |-> at(i), msg |-> all[i]]]

(* SetupCommBuffers: room for every neighbour and MAX_FIELDS_PER_MPI_COMM. *)
CommBufSize(r) ==
  LET Room(table) == Cardinality({i \in DOMAIN table : HasNeighbour(r, tp, table[i].dir)})
  IN Room(RecvFaces(1, 1, 1))*PlaneSize*6 + Room(RecvEdges(1, 1, 1))*EdgeSize*6
     + Room(RecvCorners(1, 1, 1))*CornerSize

Unpacked(r) ==
  CASE Summing ->
         Layout(r, SbnFaces(D, D, D), SbnEdgesAlong(D, D, D) \o SbnEdgesAcross(D, D, D),
                SbnCorners(D, D, D))
    [] kind = "posVel" ->
         Layout(r, SyncFaces(D, D, D), SyncEdgesAlong(D, D, D) \o SyncEdgesAcross(D, D, D),
                SyncCorners(D, D, D))
    [] kind = "monoQ" -> Layout(r, MonoqFaces(D, D, D), << >>, << >>)
-----------------------------------------------------------------------------
Unset == <<"unset">>

(* Before the exchange every rank has its own values, and its ghosts none. *)
Own(r) ==
  IF kind = "monoQ"
  THEN [e \in 0..Cube(nx) + 6*nx*nx - 1 |-> IF e < Cube(nx) THEN <<r, e>> ELSE Unset]
  ELSE [m \in 0..Cube(nx + 1) - 1 |-> << <<r, m>> >>]

CommInit ==
  /\ kind \in DOMAIN Exchanges /\ tp \in Sides /\ nx \in EdgeSizes
  /\ turn = <<"CommRecv", 0>>
  /\ posted = [r \in Ranks |-> << >>] /\ sent = [r \in Ranks |-> << >>]
  /\ field = [r \in Ranks |-> Own(r)]

Turn(call, r, next) ==
  /\ turn = <<call, r>>
  /\ turn' = IF r + 1 \in Ranks THEN <<call, r + 1>> ELSE <<next, 0>>
  /\ UNCHANGED <<kind, tp, nx>>

CommRecv(r) ==
  /\ Turn("CommRecv", r, "CommSend")
  /\ posted' = [posted EXCEPT ![r] =
       Layout(r, RecvFaces(D, D, D), RecvEdges(D, D, D), RecvCorners(D, D, D))]
  /\ UNCHANGED <<sent, field>>

(* Packing copies the field as it is now, node by node.                    *)
CommSend(r) ==
  /\ Turn("CommSend", r, "Unpack")
  /\ LET packed == Layout(r, SendFaces(D, D, D),
                          SendEdgesAlong(D, D, D) \o SendEdgesAcross(D, D, D),
                          SendCorners(D, D, D))
     IN sent' = [sent EXCEPT ![r] = [i \in DOMAIN packed |->
          [at |-> packed[i].at, to |-> Neighbour(r, tp, packed[i].msg.dir),
           data |-> [k \in DOMAIN packed[i].msg.nodes |-> field[r][packed[i].msg.nodes[k]]]]]]
  /\ UNCHANGED <<posted, field>>

(* MPI: what arrives for a receive posted from a rank.                     *)
Arrived(r, post) ==
  LET from == Neighbour(r, tp, post.msg.dir)
  IN sent[from][CHOOSE i \in DOMAIN sent[from] : sent[from][i].to = r].data

(* CommSBN adds, CommSyncPosVel replaces, message after message.           *)
UnpackNodes(r) ==
  /\ kind # "monoQ" /\ Turn("Unpack", r, "done")
  /\ LET todo == Unpacked(r)
         Apply(f, i) ==
           LET data == Arrived(r, posted[r][i])
               at(m) == {k \in DOMAIN todo[i].msg.nodes : todo[i].msg.nodes[k] = m}
           IN [m \in DOMAIN f |->
                 IF at(m) = {} THEN f[m]
                 ELSE LET v == data[CHOOSE k \in at(m) : TRUE]
                      IN IF Summing THEN f[m] \o v ELSE v]
     IN field' = [field EXCEPT ![r] = FoldLeft(Apply, @, [i \in DOMAIN todo |-> i])]
  /\ UNCHANGED <<posted, sent>>

(* CommMonoQ replaces too, and fieldOffset runs on from numElem, by the    *)
(* size of every face it has unpacked.                                     *)
UnpackGhosts(r) ==
  /\ kind = "monoQ" /\ Turn("Unpack", r, "done")
  /\ LET todo == Unpacked(r)
         Apply(s, i) ==
           LET data == Arrived(r, posted[r][i])
           IN [f |-> [e \in DOMAIN s.f |->
                  IF e \in s.at..s.at + todo[i].msg.count - 1 THEN data[e - s.at + 1] ELSE s.f[e]],
               at |-> s.at + todo[i].msg.count]
     IN field' = [field EXCEPT ![r] =
          FoldLeft(Apply, [f |-> @, at |-> Cube(nx)], [i \in DOMAIN todo |-> i]).f]
  /\ UNCHANGED <<posted, sent>>

CommDone == turn = <<"done", 0>> /\ UNCHANGED commVars

CommNext ==
  \/ \E r \in Ranks : CommRecv(r) \/ CommSend(r) \/ UnpackNodes(r) \/ UnpackGhosts(r)
  \/ CommDone

CommSpec == CommInit /\ [][CommNext]_commVars
-----------------------------------------------------------------------------

(* CalcMonotonicQRegionForElems: what it takes for the velocity gradient   *)
(* across a face of an element.                                            *)
Gradient(r, f, e, box) ==
  CASE box.bc[f][e] \in {"COMM", "INNER"} -> field[r][box.links[f][e]]
    [] box.bc[f][e] = "SYMM" -> field[r][e]
    [] box.bc[f][e] = "FREE" -> <<"zero">>
-----------------------------------------------------------------------------
Done == turn[1] = "done"
Length(post) ==
  Call.fields*(IF "count" \in DOMAIN post.msg THEN post.msg.count ELSE Len(post.msg.nodes))
Copies(r, m) ==
  {c \in Ranks \X (0..Cube(nx + 1) - 1) : GlobalNode(c[1], tp, nx, c[2]) = GlobalNode(r, tp, nx, m)}

(* Type correctness: the 26 entries of the request arrays suffice, and     *)
(* every peer is a rank.                                                   *)
CommTypeOK ==
  /\ turn \in {"CommRecv", "CommSend", "Unpack", "done"} \X Ranks
  /\ \A r \in Ranks :
       /\ Len(posted[r]) <= 26 /\ Len(sent[r]) <= 26
       /\ \A i \in DOMAIN posted[r] : Neighbour(r, tp, posted[r][i].msg.dir) \in Ranks
       /\ \A i \in DOMAIN sent[r] : sent[r][i].to \in Ranks

(* What CommSend sends is what CommRecv awaits: every receive posted has   *)
(* exactly one message from that rank, of the length expected, and every   *)
(* message has a receive.  So no rank waits for a message nobody sends.    *)
MessagesMatch ==
  turn = <<"Unpack", 0>> => \A r \in Ranks :
    /\ \A i \in DOMAIN posted[r] :
         LET from == Neighbour(r, tp, posted[r][i].msg.dir)
             from_r == {k \in DOMAIN sent[from] : sent[from][k].to = r}
         IN /\ Cardinality(from_r) = 1
            /\ \A k \in from_r : Len(sent[from][k].data) = posted[r][i].msg.count
    /\ \A i \in DOMAIN sent[r] :
         LET to == sent[r][i].to
         IN \E k \in DOMAIN posted[to] : Neighbour(to, tp, posted[to][k].msg.dir) = r

(* The unpacking function numbers its requests and places its data as      *)
(* CommRecv did when it posted them: the k-th request it waits for is the  *)
(* message it takes it for, in the part of the buffer it reads.            *)
UnpacksWhatWasPosted ==
  turn[1] = "Unpack" => \A r \in Ranks :
    LET u == Unpacked(r) IN
    /\ Len(u) = Len(posted[r])
    /\ \A i \in DOMAIN u : /\ u[i].msg.dir = posted[r][i].msg.dir /\ u[i].at = posted[r][i].at
                           /\ Length(u[i]) = Length(posted[r][i])

(* SetupCommBuffers sizes both buffers for every exchange: the parts of    *)
(* different messages never overlap, and none goes past the end.           *)
BuffersFit ==
  \A r \in Ranks :
    LET Part(slot, len) == [from |-> slot.at, to |-> slot.at + len]
        out == {Part(sent[r][i], Call.fields*Len(sent[r][i].data)) : i \in DOMAIN sent[r]}
        in == {Part(posted[r][i], Length(posted[r][i])) : i \in DOMAIN posted[r]}
        Apart(parts) == \A p, q \in parts : p = q \/ p.to <= q.from \/ q.to <= p.from
    IN /\ Apart(out) /\ Apart(in)
       /\ Cardinality(out) = Len(sent[r]) /\ Cardinality(in) = Len(posted[r])
       /\ \A p \in out \cup in : p.to <= CommBufSize(r)

(* CommSBN: every copy of a node has summed the contribution of each copy  *)
(* of that node on any rank, and each once.                                *)
SharedNodesSummed ==
  Done /\ Summing => \A r \in Ranks, m \in 0..Cube(nx + 1) - 1 :
    /\ ToSet(field[r][m]) = Copies(r, m)
    /\ Len(field[r][m]) = Cardinality(Copies(r, m))

(* CommSyncPosVel: where just two ranks meet, both copies of a node have   *)
(* one value afterwards, that of one of the two.  (Where four or eight     *)
(* meet, the copies may keep values of different ranks.)                   *)
SharedFacesSynced ==
  Done /\ kind = "posVel" => \A r \in Ranks, m \in 0..Cube(nx + 1) - 1 :
    Cardinality(Copies(r, m)) = 2 =>
      /\ ToSet(field[r][m]) \subseteq Copies(r, m)
      /\ \A c \in Copies(r, m) : field[c[1]][c[2]] = field[r][m]

(* CommMonoQ with the ghost numbers of SetupBoundaryConditions: across     *)
(* every face the gradient read is that of the element next to it in the   *)
(* cube of all ranks, its own at a plane of symmetry, zero at the surface. *)
GradientsOfNeighbours ==
  Done /\ kind = "monoQ" => \A r \in Ranks :
    LET box == Boundary(r, tp, nx, Connectivities(nx))
        all == tp*nx
        l == Loc(r, tp)
        here(e) == <<l.x*nx + (e % nx), l.y*nx + ((e \div nx) % nx), l.z*nx + (e \div (nx*nx))>>
        Owner(p) == <<(p[1] \div nx) + tp*(p[2] \div nx) + tp*tp*(p[3] \div nx),
                      (p[1] % nx) + nx*(p[2] % nx) + nx*nx*(p[3] % nx)>>
    IN \A e \in 0..Cube(nx) - 1, i \in 1..6 :
         LET d == Towards[Faces[i]]
             next == [a \in 1..3 |-> here(e)[a] + d[a]]
         IN Gradient(r, Faces[i], e, box) =
              IF \E a \in 1..3 : next[a] < 0 THEN <<r, e>>
              ELSE IF \E a \in 1..3 : next[a] = all THEN <<"zero">>
              ELSE Owner(next)

(* The functions of an exchange agree with each other on who talks to whom, *)
(* on the length and on the place of every message.                        *)
ExchangeInv == CommTypeOK /\ MessagesMatch /\ UnpacksWhatWasPosted /\ BuffersFit

(* After an exchange the ranks have of each other what they should.        *)
FieldsAgree == SharedNodesSummed /\ SharedFacesSynced /\ GradientsOfNeighbours
=============================================================================
