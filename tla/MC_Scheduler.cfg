CONSTANTS
  Lanes = {1, 2}
  Entries = {1, 2, 3}
  Seeds = {2}
  Table <- TableMC
  Weights <- WeightsMC
  Period = 6
  Priorities = {1, 2}
  Boost = 1
  QueueCap = 2
  ProbeCap = 1
  MaxOrders = 4
  None = None
SPECIFICATION Spec
INVARIANTS
  FrontiersAreAdmitted
  EveryClassServed
  IndicesNotRepeated
