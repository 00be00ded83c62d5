---------------------------- MODULE MCLuleshSteps ----------------------------
(* The main loop of LULESH on small instances: HaloExchange, the protocol   *)
(* of its messages, and LuleshTime, its control of time.  Neither reads     *)
(* what the other keeps: a behaviour here moves one of them, and the other  *)
(* rests in an initial state.                                               *)
(*                                                                          *)
(* Messages: in the smallest cube, of eight ranks, every rank is a          *)
(* neighbour of every other, and of three across a face; CommSyncPosVel     *)
(* receives from ranks of higher number only.  The ranks 0 to 3, one plane  *)
(* of that cube, keep all of this.  Time: three ranks, of which two or all  *)
(* begin with the same step, whose limits force a shorter step, let it stand *)
(* (growth below a tenth) or let it grow, and a stop time that takes three   *)
(* to five steps of 20 to 40.                                               *)
EXTENDS HaloExchange, LuleshTime

VARIABLE moving   \* the part that moves

stepsVars == <<haloVars, timeVars, moving>>

Plane == 0..3

Others == [r \in Ranks |-> Ranks \ {r}]
Higher == [r \in Ranks |-> {q \in Ranks : q > r}]
Lower  == [r \in Ranks |-> {q \in Ranks : q < r}]
Across == [r \in Ranks |-> {q \in Ranks : \E b \in {1, 2, 4} :
             (q = r + b /\ (r \div b) % 2 = 0) \/ (r = q + b /\ (q \div b) % 2 = 0)}]

MCReceives == [mass |-> Others, force |-> Others, posVel |-> Higher, monoQ |-> Across]
MCSends    == [mass |-> Others, force |-> Others, posVel |-> Lower,  monoQ |-> Across]

(* main with two cycles: TimeIncrement reduces from the second one on.      *)
TwoCycles == <<"mass", "barrier", "force", "posVel", "monoQ",
               "allreduce", "force", "posVel", "monoQ", "reduce">>

MCBufferings == {{}, {"mass"}, Exchanges}

ThreeProcesses == 0..2
MCFirstSteps == {31, 30}
MCCourantLimits == {66}
MCHydroLimits == {36}

(* The processes of LuleshTime are interchangeable: those with the shorter  *)
(* first step come first.                                                   *)
StepsInit ==
  /\ moving \in {"messages", "time"}
  /\ HaloInit /\ (moving # "messages" => buffered = {})
  /\ TimeInit /\ \A r, q \in Processes : r < q => firstdt[r] <= firstdt[q]
  /\ moving # "time" => \A r \in Processes : dt[r] = 30

StepsNext ==
  /\ UNCHANGED moving
  /\ \/ moving = "messages" /\ HaloNext /\ UNCHANGED timeVars
     \/ moving = "time" /\ TimeNext /\ UNCHANGED haloVars

(* The fairness of HaloSpec and of TimeSpec, for the part that moves.       *)
StepsSpec ==
  /\ StepsInit /\ [][StepsNext]_stepsVars
  /\ \A r \in Ranks : WF_stepsVars(moving = "messages" /\ Step(r) /\ UNCHANGED <<timeVars, moving>>)
  /\ \A r \in Processes : WF_stepsVars(moving = "time" /\ (LoopHead(r) \/ Advance(r) \/ LeapFrog(r))
                                       /\ UNCHANGED <<haloVars, moving>>)
  /\ WF_stepsVars(moving = "time" /\ Allreduce /\ UNCHANGED <<haloVars, moving>>)

(* EveryRankFinishes of HaloExchange: no exchange or collective call of main
   keeps a rank for ever (lulesh.cc:2660-2794). *)
MessagesEnd == moving = "messages" => EveryRankFinishes

(* EveryRankStops of LuleshTime: the loop of main ends on every rank but for
   one that waits in MPI_Allreduce for a rank that has left and that began with
   another step (lulesh.cc:188, 2747-2750). *)
LoopEnds == moving = "time" => EveryRankStops
=============================================================================
