CONSTANTS
  Features = {f1, f2}
  Lanes = {l1, l2}
  Batch = 2
  MaxDisc = 1
  MaxDeaths = 1
  c1 = c1  k1 = k1  e1 = e1  s1 = s1  o1 = o1  w1 = w1  Switch = Switch  Unseen = Unseen
  Pushes <- MC_Pushes
  Around <- MC_Around
  Edges = {e1}
  Skeleton = {s1}
  Once = {w1}
  Outside = {o1}
  Levels = {1, 3, 7}
  Parents = {2, Unseen}
  RingLen = 2
  MaxHits = 1
  MinRun = 2
  MinCum = 3
  LargeDelta = 3
  Room = 2
  Budget = 7
  Orders = 2
  Size = 3
  Absent = Absent
  Formats <- MC_Formats
  Width = 2
  Group = 1
  SlotGroups = 2
  Cells <- MC_Cells
  LowBits = {1}
  MaxData = 4
  MaxOut = 3
  MaxRanges = 2
  MaxLen = 2
  MaxModules = 3
  BitsPerByte = 1
  MaxMutated = 4
  WindowWidths = {1, 2, 4}
  MaxBlock = 2
  MaxRunLen = 2
  MaxFlips = 3
  MaxDelta = 2
  Near = 1
  MaxSubstitutions = 1
  Entries <- MC_Entries
  HitLists <- MC_HitLists
SYMMETRY Symmetry
SPECIFICATION MC_Spec
INVARIANTS RefusalIsFatal
