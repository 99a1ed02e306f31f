SPECIFICATION Spec
CONSTANTS
  Threads = {root, t1, t2}
  Root = root
  Runner = runner
  Mutexes = {m}
  CondVars = {c}
  Fds = {f}
  Signums = {}
  NoEvent = NoEvent
  Forever = Forever
  Delays = {Forever}
  MaxTime = 1
  MaxQueue = 1
  Ops = {"start", "lock", "unlock", "wait", "signal", "broadcast", "join", "terminate", "block"}
  HandlerOps = {}
SYMMETRY ThreadSymmetry
INVARIANTS
  TypeOK
  NoThreadLost
  NoLostWakeup
  JoinersWoken
