--------------------------- MODULE MCMetricBuffer ---------------------------
(* MetricBuffer on small instances: the values the configurations name. *)
EXTENDS MetricBuffer

CONSTANTS u1, u2, u3

TwoUlts == {u1, u2}
ThreeUlts == {u1, u2, u3}

(* A negative argument, the first-adjustment value 1 and one on each side.  *)
SmallVals == {-1, 0, 2}
OrderVals == {-1, 0, 1, 2}
SmallDiffs == {-1, 2}

=============================================================================
