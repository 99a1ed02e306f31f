SPECIFICATION FairSpec
CONSTANTS
  Threads = {root, t1, runner}
  Root = root
  Runner = runner
  Mutexes = {}
  CondVars = {}
  Fds = {}
  Signums = {1}
  NoEvent = NoEvent
  Forever = Forever
  Delays = {Forever}
  MaxTime = 2
  MaxQueue = 3
  Ops = {"start", "join", "finish"}
  HandlerOps = {"start"}
PROPERTIES
  SignalsHandled
