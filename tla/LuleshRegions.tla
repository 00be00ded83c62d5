---------------------------- MODULE LuleshRegions ----------------------------
(***************************************************************************)
(* CreateRegionIndexSets of examples/lulesh: the elements of a rank are    *)
(* given to material regions in runs of random region and length, and the  *)
(* numbers are then turned into an index set per region, which the loops   *)
(* over regions (with their repetitions, rep) go through.  rand() is any   *)
(* outcome of non-zero chance.                                             *)
(***************************************************************************)
EXTENDS Integers, Sequences, FiniteSets, SequencesExt

CONSTANTS
  MyRanks,       \* myRank: by it the regions are rotated
  NumElem,       \* elements of the rank
  RegionCounts,  \* -r
  Balances,      \* -b
  RunLengths     \* the lengths of a run the bins give

ASSUME RegionsAssumption ==
  /\ MyRanks \subseteq Nat /\ NumElem \in Nat \ {0} /\ RegionCounts \subseteq Nat \ {0}
  /\ Balances \subseteq Int /\ RunLengths \subseteq 1..2048 /\ RunLengths # {}

VARIABLES
  myRank, numReg, balance,
  drawing,      \* "pick", "sets", "fill", "done"
  regNumList,   \* region numbers given so far, element after element
  lastReg,      \* the region of the last run, -1 before the first
  room,         \* the elements a region's index set is allocated for
  sets,         \* regElemlist: a sequence of elements per region, from 0
  filled        \* the elements given to the set of their region

regVars == <<myRank, numReg, balance, drawing, regNumList, lastReg, room, sets, filled>>

(* pow((i+1), balance) added to an int, region index i from 0: a negative  *)
(* power of anything but 1 is cut off.                                     *)
Weight(i) == IF balance >= 0 THEN (i + 1)^balance ELSE IF i = 0 THEN 1 ELSE 0

\* mutant: the rank is taken in place of the index
Rotated_RankOnly(i) == (myRank % numReg) + 1

(* The number of region index i on this rank.                              *)
Rotated(i) == ((i + myRank) % numReg) + 1

(* What a draw can give: regBinEnd[i] - regBinEnd[i-1] is its chance.      *)
Drawn == {Rotated(i) : i \in {i \in 0..numReg - 1 : Weight(i) > 0}}

(* "region index == regnum-1", of an element.                              *)
RegionOf(e) == regNumList[e + 1] - 1

(* ApplyMaterialPropertiesForElems: how often a region's equation of state *)
(* is evaluated, for cost c.                                               *)
Rep(r, n, c) ==
  IF r < n \div 2 THEN 1
  ELSE IF r < n - (n + 15) \div 20 THEN 1 + c
  ELSE 10*(1 + c)
-----------------------------------------------------------------------------
RegInit ==
  /\ myRank \in MyRanks /\ numReg \in RegionCounts /\ balance \in Balances
  /\ IF numReg = 1
     THEN drawing = "sets" /\ regNumList = [e \in 1..NumElem |-> 1]
     ELSE drawing = "pick" /\ regNumList = << >>
  /\ lastReg = -1 /\ room = << >> /\ sets = << >> /\ filled = 0

Take(region, n) ==
  LET run == regNumList \o [i \in 1..n |-> region]
  IN IF Len(run) <= NumElem THEN run ELSE SubSeq(run, 1, NumElem)

(* A region other than the last, and a run of it: it is cut off at the     *)
(* last element.                                                           *)
Pick ==
  /\ drawing = "pick" /\ Len(regNumList) < NumElem
  /\ \E region \in Drawn \ {lastReg}, n \in RunLengths :
       regNumList' = Take(region, n) /\ lastReg' = region
  /\ UNCHANGED <<myRank, numReg, balance, drawing, room, sets, filled>>

(* The last region was drawn again: the inner loop draws once more.        *)
Redraw ==
  /\ drawing = "pick" /\ Len(regNumList) < NumElem /\ lastReg \in Drawn
  /\ UNCHANGED regVars

Assigned ==
  /\ drawing = "pick" /\ Len(regNumList) = NumElem
  /\ drawing' = "sets" /\ UNCHANGED <<myRank, numReg, balance, regNumList, lastReg, room, sets, filled>>

\* mutant: the first element is not counted
CountRegions_FromOne ==
  /\ drawing = "sets" /\ drawing' = "fill"
  /\ room' = [r \in 0..numReg - 1 |-> Cardinality({e \in 1..NumElem - 1 : RegionOf(e) = r})]
  /\ sets' = [r \in 0..numReg - 1 |-> << >>] /\ filled' = 0
  /\ UNCHANGED <<myRank, numReg, balance, regNumList, lastReg>>

(* "First, count size of each region.  Second, allocate each region index  *)
(* set": it has room for the elements counted, and is empty.               *)
CountRegions ==
  /\ drawing = "sets" /\ drawing' = "fill"
  /\ room' = [r \in 0..numReg - 1 |-> Cardinality({e \in 0..NumElem - 1 : RegionOf(e) = r})]
  /\ sets' = [r \in 0..numReg - 1 |-> << >>] /\ filled' = 0
  /\ UNCHANGED <<myRank, numReg, balance, regNumList, lastReg>>

(* "Third, fill index sets", element after element.                        *)
FillSets ==
  /\ drawing = "fill"
  /\ IF filled < NumElem
     THEN /\ sets' = [sets EXCEPT ![RegionOf(filled)] = Append(@, filled)]
          /\ filled' = filled + 1 /\ UNCHANGED drawing
     ELSE drawing' = "done" /\ UNCHANGED <<sets, filled>>
  /\ UNCHANGED <<myRank, numReg, balance, regNumList, lastReg, room>>

RegDone == drawing = "done" /\ UNCHANGED regVars

RegNext == Pick \/ Redraw \/ Assigned \/ CountRegions \/ FillSets \/ RegDone

(* rand() does not give the last region forever if it can give another.    *)
RegSpec == RegInit /\ [][RegNext]_regVars /\ WF_regVars(Pick \/ Assigned \/ CountRegions \/ FillSets)
-----------------------------------------------------------------------------
(* Type correctness: every number given is that of a region.               *)
RegTypeOK ==
  /\ drawing \in {"pick", "sets", "fill", "done"} /\ lastReg \in {-1} \cup 1..numReg
  /\ Len(regNumList) <= NumElem /\ ToSet(regNumList) \subseteq 1..numReg

(* No element is written past the end of an index set, and in the end the  *)
(* sets are full and partition the elements: a loop over the regions meets *)
(* each element once, whatever the regions drawn, those of no element      *)
(* included.                                                               *)
SetsPartition ==
  /\ drawing \in {"fill", "done"} => \A r \in 0..numReg - 1 : Len(sets[r]) <= room[r]
  /\ drawing = "done" =>
    /\ \A r \in 0..numReg - 1 : Len(sets[r]) = room[r]
    /\ UNION {ToSet(sets[r]) : r \in 0..numReg - 1} = 0..NumElem - 1
    /\ \A r, q \in 0..numReg - 1 : r # q => ToSet(sets[r]) \cap ToSet(sets[q]) = {}
    /\ \A r \in 0..numReg - 1 : Len(sets[r]) = Cardinality(ToSet(sets[r]))

(* "make sure we don't pick the same region twice in a row": with several  *)
(* regions no stretch of one region is longer than the longest run.        *)
StretchesAreRuns ==
  numReg > 1 => \A i, j \in 1..Len(regNumList) :
    (\A k \in i..j : regNumList[k] = regNumList[i]) => \E n \in RunLengths : j - i + 1 <= n

(* "you don't get an expensive region unless you at least have 5 regions": *)
(* the tenfold cost exists from five on, always for the last region, and   *)
(* no region costs less than one before it.                                *)
ExpensiveFromFive ==
  \A c \in 0..2 :
    /\ \A r \in 0..numReg - 1, q \in 0..numReg - 1 : r <= q => Rep(r, numReg, c) <= Rep(q, numReg, c)
    /\ (Rep(numReg - 1, numReg, c) = 10*(1 + c)) <=> numReg >= 5

(* The regions drawn and the sets made of them, under every sequence of    *)
(* draws (lulesh-init.cc:401-510).                                         *)
RegionInv == RegTypeOK /\ SetsPartition /\ StretchesAreRuns /\ ExpensiveFromFive

(* The construction ends: unless the balance is negative, or there is one  *)
(* region only, the draws come to a region other than the last.            *)
ConstructionEnds == (balance >= 0 \/ numReg = 1) ~> drawing = "done"
=============================================================================
