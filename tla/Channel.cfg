SPECIFICATION FairSpec
CONSTANTS
  Senders = {s1, s2}
  Receivers = {r1, r2, r3}
  MaxSends = 3
  NoThread = NoThread
INVARIANTS
  RearIsLast
PROPERTIES
  Implements
  Delivered
CHECK_DEADLOCK FALSE
