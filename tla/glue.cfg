SPECIFICATION FairSpec
CONSTANTS
  w1 = w1
  w2 = w2
  q1 = q1
  NULL = NULL
  Windows = {w1, w2}
  Queues = {q1}
  AppKinds = {TRUE, FALSE}
  MaxCalls = 6
  MaxPipe = 3
CHECK_DEADLOCK FALSE
INVARIANTS
  TypeOK
  HeldWindowIsLive
  HandlerSeesWindow
  InSyncBetweenCallbacks
  AppDoneBeforeFree
  SleepIsAnswered
PROPERTIES
  WindowsOneByOne
  SavesWhatWasMade
  NeverReturnsUnpolled
  ReturnsWhenPolled
