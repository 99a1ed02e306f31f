SPECIFICATION Spec
CONSTANTS
  Programs <- AllPrograms
  Globals <- Names
  StackSize = 24
  MaxStack = 384
  Slack = 8
  Fuel = 600
INVARIANTS
  ResultAgrees
  StackFits
  TailCallsFlat
