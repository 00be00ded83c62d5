------------------------------ MODULE MCService ------------------------------
(* The small parts of SYMBIOMON on small instances: MetricHandle in a       *)
(* client, ProviderLifecycle and MetricId in a server, SampleStatistics in  *)
(* both.  None reads what another keeps: a behaviour here moves one of      *)
(* them, and the others rest in an initial state.                           *)
EXTENDS MetricHandle, ProviderLifecycle, MetricId, SampleStatistics

CONSTANTS s1, s2, h1, h2, b1, b2

VARIABLE moving   \* the part that moves

serviceVars == <<handleVars, lifeVars, idVars, statVars, moving>>

\* handles
TwoStreams == {s1, s2}
TwoHandles == {h1, h2}

\* providers
TwoIds == {1, 2}
TwoBlocks == {b1, b2}

\* identifiers: the strings "a", "ac" and "bc"; no tag, one, two in either order, one twice
ThreeStrings == {<<97>>, <<97, 99>>, <<98, 99>>}
FiveTaglists ==
  {<< >>, <<<<97>>>>, <<<<97>>, <<97, 99>>>>, <<<<97, 99>>, <<97>>>>, <<<<97>>, <<97>>>>}

\* statistics: quarters, from -1 to 1.5
Quarters == {-4, -1, 0, 1, 2, 6}
NoneToThree == 0 .. 3

ServiceInit ==
  /\ moving \in {"handles", "providers", "identifiers", "statistics"}
  /\ HandleInit /\ (moving # "handles" => at = [s \in Streams |-> h1])
  /\ LifeInit /\ (moving # "providers" => listening)
  /\ IdInit /\ (moving # "identifiers" => asked.name = <<97>>)
  /\ StatInit /\ (moving # "statistics" => type = "GAUGE")

ServiceNext ==
  /\ UNCHANGED moving
  /\ \/ moving = "handles" /\ HandleNext /\ UNCHANGED <<lifeVars, idVars, statVars>>
     \/ moving = "providers" /\ LifeNext /\ UNCHANGED <<handleVars, idVars, statVars>>
     \/ moving = "identifiers" /\ IdNext /\ UNCHANGED <<handleVars, lifeVars, statVars>>
     \/ moving = "statistics" /\ StatNext /\ UNCHANGED <<handleVars, lifeVars, idVars>>

ServiceSpec == ServiceInit /\ [][ServiceNext]_serviceVars
=============================================================================
