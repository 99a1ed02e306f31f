SPECIFICATION FairSpec
CONSTANTS
  Threads = {root, t1}
  Root = root
  Runner = runner
  Mutexes = {m}
  CondVars = {}
  Fds = {}
  Signums = {}
  NoEvent = NoEvent
  Forever = Forever
  Delays = {Forever, 2}
  MaxTime = 4
  MaxQueue = 1
  Ops = {"start", "lock"}
  HandlerOps = {}
PROPERTIES
  TimedWaitEnds
