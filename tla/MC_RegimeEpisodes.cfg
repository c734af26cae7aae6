CONSTANTS
  Scale = 2
  DriftThreshold = 1
  DriftDwell = 1
  EpisodeThreshold = 2
  RecoveryThreshold = 1
  RecoveryDwell = 1
  MaxDwell = 3
  Values <- MCValues
  Still = Still
  MaxEntries = 8
  MaxStarts = 2
  Settling = 9
  None = None
  Axes = {1, 2}
  Reached = {0, 1}
  Policies <- MC_Policies
  Together <- MC_Together
  CalibrationWindows = 1
  DriftWindow = 2
  MaxEdges = 5
  MaxCampaigns = 2
  NoSpan = NoSpan
SPECIFICATION MC_Spec
INVARIANTS
  EpisodesTrue
  EpisodesApart
  NoEpisodeLost
  EpisodesDisjoint
  FlatSettles
  StructureKept
