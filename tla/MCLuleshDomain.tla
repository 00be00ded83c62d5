--------------------------- MODULE MCLuleshDomain ---------------------------
(* One rank's domain in LULESH and what the ranks exchange of it, on small  *)
(* instances: LuleshDomain, its index arrays, LuleshRegions, its regions,   *)
(* and LuleshComm, the messages.  The first two fill different fields one   *)
(* after the other, the third starts when both are done: a behaviour here   *)
(* moves one of them, and the others rest in an initial state.              *)
(*                                                                          *)
(* Mesh: one rank, a count that is no cube, and the two smallest cubes that *)
(* have neighbours, the larger one with an inner rank.  Regions: eight      *)
(* elements, runs of two and of three (the last is cut off); one region,    *)
(* two, and five (the first number with a very expensive one); a rank below *)
(* and one above the number of regions; a negative balance and the default. *)
(* Messages: cubes of 8 ranks (each at a corner) and of 27 ranks (with an   *)
(* inner rank that has all 26 neighbours), one and two elements along an    *)
(* edge (without and with nodes inside a face).                             *)
EXTENDS LuleshDomain, LuleshRegions, LuleshComm

VARIABLE moving   \* the part that moves

domainVars == <<domVars, regVars, commVars, moving>>

MCRankCounts == {1, 7, 8, 27}
MCCubeSizes == {1, 2, 3}

MCMyRanks == {0, 3}
MCRegionCounts == {1, 2, 5}
MCBalances == {-1, 1}
MCRunLengths == {2, 3}

MCSides == {2, 3}
MCEdgeSizes == {1, 2}

DomainInit ==
  /\ moving \in {"mesh", "regions", "messages"}
  /\ DomInit /\ (moving # "mesh" => numRanks = 1 /\ edgeElems = 1)
  /\ RegInit /\ (moving # "regions" => myRank = 0 /\ numReg = 1 /\ balance = 1)
  /\ CommInit /\ (moving # "messages" => kind = "mass" /\ tp = 2 /\ nx = 1)

DomainNext ==
  /\ UNCHANGED moving
  /\ \/ moving = "mesh" /\ DomNext /\ UNCHANGED <<regVars, commVars>>
     \/ moving = "regions" /\ RegNext /\ UNCHANGED <<domVars, commVars>>
     \/ moving = "messages" /\ CommNext /\ UNCHANGED <<domVars, regVars>>

(* The fairness of RegSpec, for the part that moves.                        *)
DomainSpec ==
  /\ DomainInit /\ [][DomainNext]_domainVars
  /\ WF_domainVars(/\ moving = "regions"
                   /\ Pick \/ Assigned \/ CountRegions \/ FillSets
                   /\ UNCHANGED <<domVars, commVars, moving>>)

(* ConstructionEnds of the regions: the draws of CreateRegionIndexSets come
   to an end (lulesh-init.cc:441-488). *)
RegionsEnd == moving = "regions" => ConstructionEnds
=============================================================================
