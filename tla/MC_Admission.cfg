CONSTANTS
  Inputs <- MCInputs
  Seeds <- MCSeeds
  Values <- MCValues
  Features = {f}
  Mutators = {m}
  MaxStarts = 2
  None = None
SPECIFICATION Spec
INVARIANTS
  StartsClean
  RebuildMatchesLive
  LinksResolve
