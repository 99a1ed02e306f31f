SPECIFICATION Spec
CONSTANTS
  Threads = {root, t1, t2}
  Root = root
  Runner = runner
  Mutexes = {m}
  CondVars = {}
  Fds = {}
  Signums = {}
  NoEvent = NoEvent
  Forever = Forever
  Delays = {1, 2}
  MaxTime = 4
  MaxQueue = 1
  Ops = {"start", "lock", "unlock", "sleep"}
  HandlerOps = {}
SYMMETRY ThreadSymmetry
INVARIANTS
  PausedOrdered
  TimeoutIsDue
