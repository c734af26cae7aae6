CONSTANTS
  Roots = {"a", "b"}
  Profiles = {"p"}
  Lanes = {1, 2}
  MaxId = 4
  Ids <- MCIds
  MaxProbes = 1
  MaxLoaded = 4
  Enough = 2
  MaxAdmissions = 2
  MaxStops = 1
  None = None
  Summaries <- MC_Summaries
  Recipe <- MC_Recipe
  Signals = {1, 2}
  Observations <- MC_Observations
  Far = 2
  HistoryCap = 5
  Lookback = 2
  LeadMax = 3
  MaxEntries = 6
  MaxForeign = 1
SPECIFICATION MC_Spec
INVARIANTS
  OneProbePerKey
  EveryOutcomeCounted
  StatusFollowsHistory
  PersistedShapeIsRecognised
