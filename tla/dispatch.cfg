SPECIFICATION FairSpec
CONSTANTS
  MaxConns = 6
  MaxThreads = 3
  Inis <- ConfFiles
  NCpus = {0, 2}
  Ports <- PortArgs
  Paths <- Urls
CHECK_DEADLOCK FALSE
INVARIANTS
  TypeOK
  DealtToMadeLoops
  RoundRobin
  EvenSpread
  NoneLost
  OnlyNegativeCrashes
  RoutedByDumpedPath
PROPERTIES
  DealsEachOnce
  EveryAcceptedAdopted
