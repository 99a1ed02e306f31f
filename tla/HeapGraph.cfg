SPECIFICATION Spec
CONSTANTS
  Kinds = {"box", "vector"}
  Types <- GraphTypes
  Dl = "dl"
  NumVars = 2
  ValueRefs = FALSE
  HeapSize = 6
  MaxSize = 0
  MaxHeaps = 1
  MaxObjs = 3
  Nil = Nil
INVARIANTS
  MarkComplete
PROPERTIES
  OnlyReachableLeft
