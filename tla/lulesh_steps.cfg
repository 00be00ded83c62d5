SPECIFICATION StepsSpec
CONSTANTS
  Ranks <- Plane
  Root = 0
  Script <- TwoCycles
  Posts <- MCReceives
  Sends <- MCSends
  Unpacks <- MCReceives
  Bufferings <- MCBufferings
  Processes <- ThreeProcesses
  StopTime = 80
  Its = 5
  DtMax = 40
  FirstSteps <- MCFirstSteps
  CourantLimits <- MCCourantLimits
  HydroLimits <- MCHydroLimits
INVARIANTS
  HaloSafe
  TimeInv
  Lockstep
PROPERTIES
  MessagesEnd
  LoopEnds
