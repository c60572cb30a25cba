SPECIFICATION Spec
CONSTANTS
  Parts = {"journal"}
  ShortHistory = 1
  Names <- RootNames
  Data <- RootData
  Inodes = {i1, i2, i3}
  Partial = Partial
  NoFile = NoFile
  TailCountLimit = 1
  CommandLimit = 1
  RingLimit = 1
  Digest <- HistoryDigest
  Absent = Absent
  Writers = {w1, w2}
  Nobody = Nobody
  Temporaries = {t1, t2}
  Times = {0, 1}
  HoldLimit = 1
  MaxSequence = 1
  MaxGeneration = 2
  MaxLosses = 1
  MaxFaults = 1
  Procs = {p1, p2}
  Samples <- KeySamples
  Zero = 0
  Callers = {p1, p2}
  Pointers <- ThreePointers
  NoPointer = NoPointer
  MaxPointerLosses = 1
  MaxRuns = 2
  MaxKeyLosses = 2
SYMMETRY PublicationSymmetry
PROPERTY HoldClearsByRecord
CHECK_DEADLOCK FALSE
