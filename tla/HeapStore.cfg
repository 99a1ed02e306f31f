SPECIFICATION Spec
CONSTANTS
  Kinds = {"box", "ephemeron", "fileno"}
  Types <- StoreTypes
  Dl = "dl"
  NumVars = 2
  ValueRefs = FALSE
  HeapSize = 4
  MaxSize = 0
  MaxHeaps = 2
  MaxObjs = 3
  Nil = Nil
INVARIANTS
  Tiled
  Coalesced
  NoDangling
  WeakRefsValid
PROPERTIES
  WeakRefsKept
  FinalizedOnce
