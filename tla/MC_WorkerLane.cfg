CONSTANTS
  good = good
  crash = crash
  hang = hang
  Empty = Empty
  Torn = Torn
  None = None
  Inputs <- MCInputs
  Crashing <- MCCrashing
  Hanging <- MCHanging
  Batch = 2
  MaxOrders = 3
  MaxKills = 2
SPECIFICATION LaneSpec
INVARIANTS
  CommittedBeforeWindow
PROPERTIES
  DeathInWindowAttributed
  NoStaleBlame
