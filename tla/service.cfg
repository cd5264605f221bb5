SPECIFICATION FairSpec
CONSTANTS
  t1 = t1
  t2 = t2
  t3 = t3
  Threads = {t1, t2, t3}
  NoThread = NoThread
  MaxStarts = 3
  MaxKills = 1
CHECK_DEADLOCK FALSE
INVARIANTS
  TypeOK
  ListensWithFile
  FlagIsExact
  LoopsLostToSecondMain
PROPERTIES
  SettledStays
  NoTwoProxies
  StartedIsServed
