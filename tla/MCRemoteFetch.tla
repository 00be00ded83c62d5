---------------------------- MODULE MCRemoteFetch ----------------------------
(* RemoteFetch on small instances: the values the configurations name. *)
EXTENDS RemoteFetch, TLC

CONSTANTS u1, u2, k1, k2

OneUlt == {u1}
TwoUlts == {u1, u2}
OneCall == {k1}
TwoCalls == {k1, k2}

(* The two ULTs are interchangeable; the run that uses this checks invariants only. *)
UltSymmetry == Permutations(TwoUlts)

(* Samples told apart by value. *)
TwoVals == {1, 2}
ThreeVals == {1, 2, 3}
NoDiffs == {}

(* Negative, zero, inside the buffer, and beyond it. *)
AllRequests == {-1, 0, 1, 4}
SomeRequests == {-1, 1, 2}

JunkCounts == {9}
NoFaults == {}
AllFaults == {"register", "forward", "setup", "transfer"}
Lost == {"forward", "transfer"}
=============================================================================
