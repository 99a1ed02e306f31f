SPECIFICATION FairSpec
CONSTANTS
  Threads = {root, t1, t2}
  Root = root
  Runner = runner
  Mutexes = {}
  CondVars = {}
  Fds = {}
  Signums = {}
  NoEvent = NoEvent
  Forever = Forever
  Delays = {Forever}
  MaxTime = 2
  MaxQueue = 3
  Ops = {"start", "join", "finish", "raise"}
  HandlerOps = {}
PROPERTIES
  QueuedRuns
  JoinEnds
