---------------------------- MODULE MCReduction ----------------------------
(* Reduction on small instances: the values the configurations name. *)
EXTENDS Reduction

CONSTANTS u1, u2, n1, n2, n3, b1, b2, b3

OneUlt == {u1}
TwoUlts == {u1, u2}
OneName == {n1}
ThreeNames == {n1, n2, n3}
TwoBlocks == {b1, b2}
ThreeBlocks == {b1, b2, b3}

(* One remote call or two; a metric without an operation is treated like one
   without samples. *)
StoreAndSum == {"STORE", "SUM"}
SumOnly == {"SUM"}

NoSizes == {}

StoreSpec == ReductionSpec /\ ReductionFairness

(* Three metrics registered and updated once each: which name and which block *)
(* belong to which makes no difference.                                       *)
ThreeRegistered ==
  /\ table = <<b1, b2, b3>>
  /\ num_metrics = 3
  /\ created = 3
  /\ metric = [b \in Blocks |->
       [name |-> IF b = b1 THEN n1 ELSE IF b = b2 THEN n2 ELSE n3,
        op |-> "SUM", gen |-> Position(b), buffer_index |-> 1]]
  /\ left = [b \in Blocks |-> Null]
  /\ listing = [ret |-> "none", ids |-> << >>]
  /\ up = TRUE

WalkInit == ThreeRegistered /\ NoReduction

WalkSpec ==
  /\ WalkInit
  /\ [][ReductionNext]_vars
  /\ ReductionFairness
=============================================================================
