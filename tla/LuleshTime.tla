----------------------------- MODULE LuleshTime -----------------------------
(***************************************************************************)
(* The time step control of examples/lulesh: main's loop, TimeIncrement,   *)
(* whose MPI_Allreduce makes the ranks agree on a step, and the two        *)
(* constraints on the step that a cycle's work leaves behind.  Every rank  *)
(* keeps its own time and decides by it whether to go on; a rank that goes *)
(* on waits in MPI_Allreduce for all the others.                           *)
(*                                                                         *)
(* Times are natural numbers.  The first step of a rank is computed from   *)
(* its own first element, whose coordinates are rounded by where the rank  *)
(* lies in the mesh: it is any of FirstSteps, and the ranks need not agree.*)
(* From then on equal numbers give equal results on every rank.            *)
(***************************************************************************)
EXTENDS Integers, Sequences, FiniteSets, FiniteSetsExt

CONSTANTS
  Processes,      \* the MPI processes
  StopTime,       \* stoptime
  Its,            \* opts.its: cycles at most
  DtMax,          \* dtmax
  FirstSteps,     \* what a rank's initial deltatime may be
  CourantLimits,  \* what an element's sound speed may limit the step to
  HydroLimits     \* what its change of volume may limit it to

Huge == 1000000   \* 1e+20: no element limits the step

ASSUME TimeAssumption ==
  /\ Processes # {} /\ IsFiniteSet(Processes) /\ {StopTime, Its, DtMax} \subseteq Nat \ {0}
  /\ FirstSteps \subseteq 1..Huge /\ DtMax <= Huge   \* 1e+20 is more than any time
  /\ CourantLimits \cup HydroLimits \subseteq Nat \ {0, 1}   \* a half of one is not nothing

VARIABLES
  stage,      \* where in main's loop a rank is
  time, dt,   \* time and deltatime of its domain
  cycle,      \* the cycles it has begun
  dtcourant,  \* the limits of its last cycle
  dthydro,
  offered,    \* what it brings to the MPI_Allreduce it is in
  firstdt     \* the deltatime it began with (history)

timeVars == <<stage, time, dt, cycle, dtcourant, dthydro, offered, firstdt>>

(* CalcCourantConstraintForElems and CalcHydroConstraintForElems, region   *)
(* after region and thread after thread: the least limit of any element    *)
(* that changes its volume, the initial value if none does.                *)
Constraint(limits) == Min(limits \cup {Huge})

(* What a rank brings to the reduction: the comparison with dthydro comes  *)
(* before its scaling, that with dtcourant before the halving.             *)
Offer(c, h) ==
  LET halved == IF c < Huge THEN c \div 2 ELSE Huge
  IN IF h < halved THEN (h*2) \div 3 ELSE halved

(* deltatimemultlb 1.1, deltatimemultub 1.2, and dtmax.                    *)
Adjusted(new, old) ==
  LET held == IF new >= old /\ 10*new < 11*old THEN old
              ELSE IF 10*new > 12*old THEN (12*old) \div 10
              ELSE new
  IN IF held > DtMax THEN DtMax ELSE held

\* mutant: the step before the last is not shortened
Fitted_Sliver(target, step) == IF target < step THEN target ELSE step

Fitted(target, step) ==
  LET aim == IF target > step /\ 3*target < 4*step THEN (2*step) \div 3 ELSE target
  IN IF aim < step THEN aim ELSE step
-----------------------------------------------------------------------------
TimeInit ==
  /\ stage = [r \in Processes |-> "loop"]
  /\ time = [r \in Processes |-> 0] /\ cycle = [r \in Processes |-> 0]
  /\ firstdt \in [Processes -> FirstSteps] /\ dt = firstdt
  /\ dtcourant = [r \in Processes |-> Huge] /\ dthydro = [r \in Processes |-> Huge]
  /\ offered = [r \in Processes |-> Huge]

Go(r, from, to) == stage[r] = from /\ stage' = [stage EXCEPT ![r] = to]

\* mutant: a rank no element limits does without the reduction
LoopHead_Unlimited(r) ==
  /\ IF time[r] < StopTime /\ cycle[r] < Its
     THEN IF cycle[r] # 0 /\ Offer(dtcourant[r], dthydro[r]) # Huge
          THEN /\ Go(r, "loop", "allreduce")
               /\ offered' = [offered EXCEPT ![r] = Offer(dtcourant[r], dthydro[r])]
          ELSE Go(r, "loop", "fit") /\ UNCHANGED offered
     ELSE Go(r, "loop", "out") /\ UNCHANGED offered
  /\ UNCHANGED <<time, dt, cycle, dtcourant, dthydro, firstdt>>

(* The condition of the loop, and TimeIncrement up to the reduction, which *)
(* the first cycle does without.                                           *)
LoopHead(r) ==
  /\ IF time[r] < StopTime /\ cycle[r] < Its
     THEN IF cycle[r] # 0
          THEN /\ Go(r, "loop", "allreduce")
               /\ offered' = [offered EXCEPT ![r] = Offer(dtcourant[r], dthydro[r])]
          ELSE Go(r, "loop", "fit") /\ UNCHANGED offered
     ELSE Go(r, "loop", "out") /\ UNCHANGED offered
  /\ UNCHANGED <<time, dt, cycle, dtcourant, dthydro, firstdt>>

\* mutant: every rank keeps what it brought
Allreduce_Local ==
  /\ \A r \in Processes : stage[r] = "allreduce"
  /\ stage' = [r \in Processes |-> "fit"]
  /\ dt' = [r \in Processes |-> Adjusted(offered[r], dt[r])]
  /\ UNCHANGED <<time, cycle, dtcourant, dthydro, offered, firstdt>>

(* MPI_Allreduce needs every rank; what follows it is the rank's own, and  *)
(* compares the ranks' common limit with the rank's own last step.         *)
Allreduce ==
  /\ \A r \in Processes : stage[r] = "allreduce"
  /\ stage' = [r \in Processes |-> "fit"]
  /\ dt' = [r \in Processes |-> Adjusted(Min({offered[q] : q \in Processes}), dt[r])]
  /\ UNCHANGED <<time, cycle, dtcourant, dthydro, offered, firstdt>>

(* The rest of TimeIncrement.                                              *)
Advance(r) ==
  /\ Go(r, "fit", "work")
  /\ LET step == Fitted(StopTime - time[r], dt[r])
     IN dt' = [dt EXCEPT ![r] = step] /\ time' = [time EXCEPT ![r] = @ + step]
  /\ cycle' = [cycle EXCEPT ![r] = @ + 1]
  /\ UNCHANGED <<dtcourant, dthydro, offered, firstdt>>

(* LagrangeLeapFrog, of which the time control sees the constraints.       *)
LeapFrog(r) ==
  /\ Go(r, "work", "loop")
  /\ \E c \in SUBSET CourantLimits, h \in SUBSET HydroLimits :
       /\ dtcourant' = [dtcourant EXCEPT ![r] = Constraint(c)]
       /\ dthydro' = [dthydro EXCEPT ![r] = Constraint(h)]
  /\ UNCHANGED <<time, dt, cycle, offered, firstdt>>

Wait == UNCHANGED timeVars   \* a rank that waits in a collective call polls

TimeNext == (\E r \in Processes : LoopHead(r) \/ Advance(r) \/ LeapFrog(r)) \/ Allreduce \/ Wait

(* Every rank is a process that runs; MPI completes what all have entered. *)
TimeSpec ==
  /\ TimeInit /\ [][TimeNext]_timeVars
  /\ \A r \in Processes : WF_timeVars(LoopHead(r) \/ Advance(r) \/ LeapFrog(r))
  /\ WF_timeVars(Allreduce)
-----------------------------------------------------------------------------
(* Type correctness, and no step takes the time past stoptime.             *)
TimeTypeOK ==
  /\ stage \in [Processes -> {"loop", "allreduce", "fit", "work", "out"}]
  /\ time \in [Processes -> 0..StopTime] /\ cycle \in [Processes -> 0..Its]
  /\ dt \in [Processes -> 1..Huge] /\ offered \in [Processes -> 1..Huge]
  /\ dtcourant \in [Processes -> 2..Huge] /\ dthydro \in [Processes -> 2..Huge]
  /\ firstdt \in [Processes -> FirstSteps]

(* Whatever steps the ranks began with, none is more than one cycle ahead  *)
(* of another, and what a reduction takes the least of are the limits of   *)
(* one cycle.  Ranks that began with the same step have the same time and  *)
(* step in every cycle, although each computes its own, their limits       *)
(* differ and other ranks began otherwise: so none of them waits for       *)
(* another of them that has left.                                          *)
Lockstep ==
  \A r, q \in Processes :
    /\ cycle[q] <= cycle[r] + 1
    /\ stage[r] = "allreduce" /\ stage[q] = "allreduce" => cycle[r] = cycle[q]
    /\ firstdt[r] = firstdt[q] =>
         /\ cycle[r] = cycle[q] => time[r] = time[q] /\ dt[r] = dt[q]
         /\ stage[r] = "out" => stage[q] # "allreduce"

(* TRY TO PREVENT VERY SMALL SCALING ON THE NEXT CYCLE: what a step leaves *)
(* of the time is nothing, or a third of the step at least, so the last    *)
(* step is never a sliver.                                                 *)
NoSliver ==
  \A r \in Processes : stage[r] = "work" =>
    time[r] = StopTime \/ 3*(StopTime - time[r]) >= dt[r]

(* The steps of a rank add up to stoptime at most and end without sliver.   *)
TimeInv == TimeTypeOK /\ NoSliver

(* A rank leaves main's loop, or is left for ever in a reduction by one     *)
(* that has, and that began with another step.                              *)
EveryRankStops ==
  <>[](\A r \in Processes :
         \/ stage[r] = "out"
         \/ stage[r] = "allreduce" /\ \E q \in Processes : stage[q] = "out" /\ firstdt[q] # firstdt[r])
=============================================================================
