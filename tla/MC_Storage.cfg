CONSTANTS
  c1 = c1
  c2 = c2
  Coords <- MCCoords
  Zero = Zero
  MaxSeq = 4
  None = None
  Damaged = Damaged
  Ids = {i1, i2}
  Dirs <- MCDirs
  DirOf <- MCDirOf
  Procs = {1}
  Files = {11, 12, 13, 14, 15, 16, 17}
  MaxTmp = 1
  MaxKills = 1
  MaxFailures = 1
  Ref = Ref
  RefTmp = RefTmp
  Empty = Empty
  Torn = Torn
  NoFile = NoFile
SYMMETRY MCSymmetry
SPECIFICATION MC_Spec
INVARIANTS
  FsckPasses
PROPERTIES
  ImplementsRegister
  ImplementsDurableStore
