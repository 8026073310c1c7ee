SPECIFICATION ShimSpec
CONSTANTS
  p1 = p1  p2 = p2  i1 = i1  i2 = i2  i3 = i3  t1 = t1  t2 = t2
  Nil = Nil  Nothing = Nothing  Saturated = Saturated
  Peers = {p1, p2}
  Ids = {i1, i2, i3}
  Kind = {"byte", "int"}
  MaxArrays = 2
  Lengths = {2, 3}
  Threads = {t1, t2}
  Methods <- MCMethods
  Singletons = {"eglNoContext"}
  Unlocked = {"looper", "inputDevice"}
  MaxReg = 2
  MaxObjects = 2
  MaxStreams = 2
  Length = 6
  MetadataEnd = 4
  Block = 2
  CopyCount = 3
  TrackOffsets = {5}
  MaxCreated = 3
SYMMETRY MCSymmetry
INVARIANTS
  RefsAccounted
  TokensStable
  BytesAreReal
  StreamsReachable
PROPERTIES
  ImplementsRefHeap
CHECK_DEADLOCK FALSE
