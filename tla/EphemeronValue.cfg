SPECIFICATION Spec
CONSTANTS
  Kinds = {"box", "ephemeron"}
  Types <- EphemeronTypes
  Dl = "dl"
  NumVars = 2
  ValueRefs = TRUE
  HeapSize = 4
  MaxSize = 0
  MaxHeaps = 1
  MaxObjs = 3
  Nil = Nil
INVARIANTS
  EphemeronKeepsValue
