---------------------------- MODULE LuleshMessages ----------------------------
(***************************************************************************)
(* The message tables of examples/lulesh (lulesh-comm.cc): which messages  *)
(* a rank posts receives for, sends and unpacks, in which order, and which *)
(* nodes each carries in which order.  The code writes the same geometry   *)
(* out four times, in CommRecv, CommSend, CommSBN and CommSyncPosVel, and  *)
(* the four have to agree; each table is translated from its own function. *)
(*                                                                         *)
(* A direction is <<column, row, plane>>.  Flagged messages are those the  *)
(* code exchanges only if doRecv, respectively doSend, is set.             *)
(***************************************************************************)
EXTENDS LuleshMesh

Always == FALSE
Flagged == TRUE

Post(f, d, n) == [flagged |-> f, dir |-> d, count |-> n]
Msg(f, d, ns) == [flagged |-> f, dir |-> d, nodes |-> ns]

(* The two loops a section copies its values with: base + i*step, and      *)
(* base + i*outer + j*inner with j running fastest.                        *)
Line(base, n, step) == [i \in 1..n |-> base + (i - 1)*step]
Grid(base, n, outer, m, inner) ==
  [k \in 1..n*m |-> base + ((k - 1) \div m)*outer + ((k - 1) % m)*inner]
-----------------------------------------------------------------------------
(* CommRecv.                                                               *)
RecvFaces(dx, dy, dz) == <<
  Post(Flagged, << 0,  0, -1>>, dx*dy),
  Post(Always,  << 0,  0,  1>>, dx*dy),
  Post(Flagged, << 0, -1,  0>>, dx*dz),
  Post(Always,  << 0,  1,  0>>, dx*dz),
  Post(Flagged, <<-1,  0,  0>>, dy*dz),
  Post(Always,  << 1,  0,  0>>, dy*dz) >>

RecvEdges(dx, dy, dz) == <<
  Post(Flagged, <<-1, -1,  0>>, dz),
  Post(Flagged, << 0, -1, -1>>, dx),
  Post(Flagged, <<-1,  0, -1>>, dy),
  Post(Always,  << 1,  1,  0>>, dz),
  Post(Always,  << 0,  1,  1>>, dx),
  Post(Always,  << 1,  0,  1>>, dy),
  Post(Always,  <<-1,  1,  0>>, dz),
  Post(Always,  << 0, -1,  1>>, dx),
  Post(Always,  <<-1,  0,  1>>, dy),
  Post(Flagged, << 1, -1,  0>>, dz),
  Post(Flagged, << 0,  1, -1>>, dx),
  Post(Flagged, << 1,  0, -1>>, dy) >>

RecvCorners(dx, dy, dz) == <<
  Post(Flagged, <<-1, -1, -1>>, 1),
  Post(Always,  <<-1, -1,  1>>, 1),
  Post(Flagged, << 1, -1, -1>>, 1),
  Post(Always,  << 1, -1,  1>>, 1),
  Post(Flagged, <<-1,  1, -1>>, 1),
  Post(Always,  <<-1,  1,  1>>, 1),
  Post(Flagged, << 1,  1, -1>>, 1),
  Post(Always,  << 1,  1,  1>>, 1) >>
-----------------------------------------------------------------------------
(* CommSend.                                                               *)
SendFaces(dx, dy, dz) == <<
  Msg(Always,  << 0,  0, -1>>, Line(0, dx*dy, 1)),
  Msg(Flagged, << 0,  0,  1>>, Line(dx*dy*(dz - 1), dx*dy, 1)),
  Msg(Always,  << 0, -1,  0>>, Grid(0, dz, dx*dy, dx, 1)),
  Msg(Flagged, << 0,  1,  0>>, Grid(dx*(dy - 1), dz, dx*dy, dx, 1)),
  Msg(Always,  <<-1,  0,  0>>, Grid(0, dz, dx*dy, dy, dx)),
  Msg(Flagged, << 1,  0,  0>>, Grid(dx - 1, dz, dx*dy, dy, dx)) >>

SendEdgesAlong(dx, dy, dz) == <<
  Msg(Always,  <<-1, -1,  0>>, Line(0, dz, dx*dy)),
  Msg(Always,  << 0, -1, -1>>, Line(0, dx, 1)),
  Msg(Always,  <<-1,  0, -1>>, Line(0, dy, dx)),
  Msg(Flagged, << 1,  1,  0>>, Line(dx*dy - 1, dz, dx*dy)),
  Msg(Flagged, << 0,  1,  1>>, Line(dx*(dy - 1) + dx*dy*(dz - 1), dx, 1)),
  Msg(Flagged, << 1,  0,  1>>, Line(dx*dy*(dz - 1) + dx - 1, dy, dx)) >>

SendEdgesAcross(dx, dy, dz) == <<
  Msg(Flagged, <<-1,  1,  0>>, Line(dx*(dy - 1), dz, dx*dy)),
  Msg(Flagged, << 0, -1,  1>>, Line(dx*dy*(dz - 1), dx, 1)),
  Msg(Flagged, <<-1,  0,  1>>, Line(dx*dy*(dz - 1), dy, dx)),
  Msg(Always,  << 1, -1,  0>>, Line(dx - 1, dz, dx*dy)),
  Msg(Always,  << 0,  1, -1>>, Line(dx*(dy - 1), dx, 1)),
  Msg(Always,  << 1,  0, -1>>, Line(dx - 1, dy, dx)) >>

SendCorners(dx, dy, dz) == <<
  Msg(Always,  <<-1, -1, -1>>, Line(0, 1, 1)),
  Msg(Flagged, <<-1, -1,  1>>, Line(dx*dy*(dz - 1), 1, 1)),
  Msg(Always,  << 1, -1, -1>>, Line(dx - 1, 1, 1)),
  Msg(Flagged, << 1, -1,  1>>, Line(dx*dy*(dz - 1) + dx - 1, 1, 1)),
  Msg(Always,  <<-1,  1, -1>>, Line(dx*(dy - 1), 1, 1)),
  Msg(Flagged, <<-1,  1,  1>>, Line(dx*dy*(dz - 1) + dx*(dy - 1), 1, 1)),
  Msg(Always,  << 1,  1, -1>>, Line(dx*dy - 1, 1, 1)),
  Msg(Flagged, << 1,  1,  1>>, Line(dx*dy*dz - 1, 1, 1)) >>
-----------------------------------------------------------------------------
(* CommSBN.                                                                *)
SbnFaces(dx, dy, dz) == <<
  Msg(Always,  << 0,  0, -1>>, Line(0, dx*dy, 1)),
  Msg(Always,  << 0,  0,  1>>, Line(dx*dy*(dz - 1), dx*dy, 1)),
  Msg(Always,  << 0, -1,  0>>, Grid(0, dz, dx*dy, dx, 1)),
  Msg(Always,  << 0,  1,  0>>, Grid(dx*(dy - 1), dz, dx*dy, dx, 1)),
  Msg(Always,  <<-1,  0,  0>>, Grid(0, dz, dx*dy, dy, dx)),
  Msg(Always,  << 1,  0,  0>>, Grid(dx - 1, dz, dx*dy, dy, dx)) >>

SbnEdgesAlong(dx, dy, dz) == <<
  Msg(Always,  <<-1, -1,  0>>, Line(0, dz, dx*dy)),
  Msg(Always,  << 0, -1, -1>>, Line(0, dx, 1)),
  Msg(Always,  <<-1,  0, -1>>, Line(0, dy, dx)),
  Msg(Always,  << 1,  1,  0>>, Line(dx*dy - 1, dz, dx*dy)),
  Msg(Always,  << 0,  1,  1>>, Line(dx*(dy - 1) + dx*dy*(dz - 1), dx, 1)),
  Msg(Always,  << 1,  0,  1>>, Line(dx*dy*(dz - 1) + dx - 1, dy, dx)) >>

\* mutant: two edges are unpacked in the other order
SbnEdgesAcross_Swapped(dx, dy, dz) == <<
  Msg(Always,  << 0, -1,  1>>, Line(dx*dy*(dz - 1), dx, 1)),
  Msg(Always,  <<-1,  1,  0>>, Line(dx*(dy - 1), dz, dx*dy)),
  Msg(Always,  <<-1,  0,  1>>, Line(dx*dy*(dz - 1), dy, dx)),
  Msg(Always,  << 1, -1,  0>>, Line(dx - 1, dz, dx*dy)),
  Msg(Always,  << 0,  1, -1>>, Line(dx*(dy - 1), dx, 1)),
  Msg(Always,  << 1,  0, -1>>, Line(dx - 1, dy, dx)) >>

SbnEdgesAcross(dx, dy, dz) == <<
  Msg(Always,  <<-1,  1,  0>>, Line(dx*(dy - 1), dz, dx*dy)),
  Msg(Always,  << 0, -1,  1>>, Line(dx*dy*(dz - 1), dx, 1)),
  Msg(Always,  <<-1,  0,  1>>, Line(dx*dy*(dz - 1), dy, dx)),
  Msg(Always,  << 1, -1,  0>>, Line(dx - 1, dz, dx*dy)),
  Msg(Always,  << 0,  1, -1>>, Line(dx*(dy - 1), dx, 1)),
  Msg(Always,  << 1,  0, -1>>, Line(dx - 1, dy, dx)) >>

SbnCorners(dx, dy, dz) == <<
  Msg(Always,  <<-1, -1, -1>>, Line(0, 1, 1)),
  Msg(Always,  <<-1, -1,  1>>, Line(dx*dy*(dz - 1), 1, 1)),
  Msg(Always,  << 1, -1, -1>>, Line(dx - 1, 1, 1)),
  Msg(Always,  << 1, -1,  1>>, Line(dx*dy*(dz - 1) + dx - 1, 1, 1)),
  Msg(Always,  <<-1,  1, -1>>, Line(dx*(dy - 1), 1, 1)),
  Msg(Always,  <<-1,  1,  1>>, Line(dx*dy*(dz - 1) + dx*(dy - 1), 1, 1)),
  Msg(Always,  << 1,  1, -1>>, Line(dx*dy - 1, 1, 1)),
  Msg(Always,  << 1,  1,  1>>, Line(dx*dy*dz - 1, 1, 1)) >>
-----------------------------------------------------------------------------
(* CommSyncPosVel, where doRecv is false.                                  *)
\* mutant: a face is unpacked with its loops exchanged
SyncFaces_Transposed(dx, dy, dz) == <<
  Msg(Flagged, << 0,  0, -1>>, Line(0, dx*dy, 1)),
  Msg(Always,  << 0,  0,  1>>, Line(dx*dy*(dz - 1), dx*dy, 1)),
  Msg(Flagged, << 0, -1,  0>>, Grid(0, dz, dx*dy, dx, 1)),
  Msg(Always,  << 0,  1,  0>>, Grid(dx*(dy - 1), dz, dx*dy, dx, 1)),
  Msg(Flagged, <<-1,  0,  0>>, Grid(0, dz, dx*dy, dy, dx)),
  Msg(Always,  << 1,  0,  0>>, Grid(dx - 1, dy, dx, dz, dx*dy)) >>

SyncFaces(dx, dy, dz) == <<
  Msg(Flagged, << 0,  0, -1>>, Line(0, dx*dy, 1)),
  Msg(Always,  << 0,  0,  1>>, Line(dx*dy*(dz - 1), dx*dy, 1)),
  Msg(Flagged, << 0, -1,  0>>, Grid(0, dz, dx*dy, dx, 1)),
  Msg(Always,  << 0,  1,  0>>, Grid(dx*(dy - 1), dz, dx*dy, dx, 1)),
  Msg(Flagged, <<-1,  0,  0>>, Grid(0, dz, dx*dy, dy, dx)),
  Msg(Always,  << 1,  0,  0>>, Grid(dx - 1, dz, dx*dy, dy, dx)) >>

SyncEdgesAlong(dx, dy, dz) == <<
  Msg(Flagged, <<-1, -1,  0>>, Line(0, dz, dx*dy)),
  Msg(Flagged, << 0, -1, -1>>, Line(0, dx, 1)),
  Msg(Flagged, <<-1,  0, -1>>, Line(0, dy, dx)),
  Msg(Always,  << 1,  1,  0>>, Line(dx*dy - 1, dz, dx*dy)),
  Msg(Always,  << 0,  1,  1>>, Line(dx*(dy - 1) + dx*dy*(dz - 1), dx, 1)),
  Msg(Always,  << 1,  0,  1>>, Line(dx*dy*(dz - 1) + dx - 1, dy, dx)) >>

SyncEdgesAcross(dx, dy, dz) == <<
  Msg(Always,  <<-1,  1,  0>>, Line(dx*(dy - 1), dz, dx*dy)),
  Msg(Always,  << 0, -1,  1>>, Line(dx*dy*(dz - 1), dx, 1)),
  Msg(Always,  <<-1,  0,  1>>, Line(dx*dy*(dz - 1), dy, dx)),
  Msg(Flagged, << 1, -1,  0>>, Line(dx - 1, dz, dx*dy)),
  Msg(Flagged, << 0,  1, -1>>, Line(dx*(dy - 1), dx, 1)),
  Msg(Flagged, << 1,  0, -1>>, Line(dx - 1, dy, dx)) >>

SyncCorners(dx, dy, dz) == <<
  Msg(Flagged, <<-1, -1, -1>>, Line(0, 1, 1)),
  Msg(Always,  <<-1, -1,  1>>, Line(dx*dy*(dz - 1), 1, 1)),
  Msg(Flagged, << 1, -1, -1>>, Line(dx - 1, 1, 1)),
  Msg(Always,  << 1, -1,  1>>, Line(dx*dy*(dz - 1) + dx - 1, 1, 1)),
  Msg(Flagged, <<-1,  1, -1>>, Line(dx*(dy - 1), 1, 1)),
  Msg(Always,  <<-1,  1,  1>>, Line(dx*dy*(dz - 1) + dx*(dy - 1), 1, 1)),
  Msg(Flagged, << 1,  1, -1>>, Line(dx*dy - 1, 1, 1)),
  Msg(Always,  << 1,  1,  1>>, Line(dx*dy*dz - 1, 1, 1)) >>
-----------------------------------------------------------------------------
(* CommMonoQ.                                                              *)
MonoqFaces(dx, dy, dz) == <<
  Post(Always, << 0,  0, -1>>, dx*dy),
  Post(Always, << 0,  0,  1>>, dx*dy),
  Post(Always, << 0, -1,  0>>, dx*dz),
  Post(Always, << 0,  1,  0>>, dx*dz),
  Post(Always, <<-1,  0,  0>>, dy*dz),
  Post(Always, << 1,  0,  0>>, dy*dz) >>
=============================================================================
