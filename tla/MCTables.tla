------------------------------- MODULE MCTables -------------------------------
(* The table of metrics on small instances: MetricRegistry, what the        *)
(* provider does with it, and HashTable, the uthash table inside.  The      *)
(* registry takes the table for a sequence, which HashTable is shown to     *)
(* implement: a behaviour here moves one of the two, and the other rests in *)
(* its initial state.                                                       *)
EXTENDS MetricRegistry, HashTable

CONSTANTS n1, n2, n3, b1, b2, b3, e1, e2, e3, e4, e5, e6

VARIABLE moving   \* the part that moves

tableVars == <<registryVars, htVars, moving>>

ThreeNames == {n1, n2, n3}
ThreeBlocks == {b1, b2, b3}
SumOnly == {"SUM"}

(* Nothing, less than the table may hold, and more. *)
AllSizes == {0, 2, 5}

(* e1 and e6 have one key; e2 and e3 collide with it entirely, which ends  *)
(* expansion; e4 and e5 have other buckets, from two and from four on.     *)
FiveKeys ==
  e1 :> 1 @@ e2 :> 2 @@ e3 :> 3 @@ e4 :> 4 @@ e5 :> 5 @@ e6 :> 1
KeyHash == <<0, 0, 0, 1, 2>>
TwoRanks ==
  e1 :> 2 @@ e2 :> 1 @@ e3 :> 2 @@ e4 :> 1 @@ e5 :> 1 @@ e6 :> 1

(* Names and blocks of the registry are interchangeable. *)
Symmetry == Permutations(ThreeNames) \cup Permutations(ThreeBlocks)

TablesInit == moving \in {"registry", "hash"} /\ RegistryInit /\ HTInit

TablesNext ==
  /\ UNCHANGED moving
  /\ \/ moving = "registry" /\ RegistryNext /\ UNCHANGED htVars
     \/ moving = "hash" /\ HTNext /\ UNCHANGED registryVars

TablesSpec == TablesInit /\ [][TablesNext]_tableVars
=============================================================================
