SPECIFICATION Spec
CONSTANTS
  WordBits = 4
  Magnitudes = {0, 1, 7, 8, 15, 16, 240, 255, 256, 4095}
  MaxWords = 4
  Literals <- MCLiterals
  Results <- MCResults
  MaxSort = 4
  Keys = {"a", "b", "c"}
  Kinds <- MCKinds
  Class <- MCClass
  HashOf <- MCHashOf
  Raises = 6
  FirstLength = 7
  MaxCalls = 3
  ImageHeaps <- Heaps
  ContextOf <- Ctx
  LoadBase = 300
  PackBase = 200
  Chars = {127, 128, 2047, 65535, 65536}
  MaxStrings = 3
  MaxArrays = 3
  MaxLength = 2
  Users = {1, 2}
  PortSize = 3
  BUF_START = 1
  MaxWidth = 2
  Source <- MCSource
  MaxString = 4
  MaxWritten = 4
  Fds = {0, 1}
  MaxFiles = 2
  MaxPorts = 2
  Addresses = {1, 2, 3}
  LabelTable = 3
  LabelSlack = 2
  WriteBound = 4
  MaxObjects = 3
  MaxText = 5
  EqualDepth = 3
  EqualBound = 8
INVARIANTS
  SortSafe
  TableSound
  
  StringsSound
  PortWrites
  PortReads
  FilenosSound
PROPERTIES
  NumbersExact
  ReadingsAgree
  NumberTextExact
  StructuresAgree
  DataRoundTrips
  TableIsMap
CHECK_DEADLOCK FALSE
