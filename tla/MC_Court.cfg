CONSTANTS
  i1 = i1  i2 = i2  o1 = o1  o2 = o2  v1 = v1
  None = None
  Inputs = {i1, i2}
  Coords = {c1}
  Versions = {v1}
  Oracles = {o1, o2}
  Divergent <- MC_Divergent
  Configs <- MC_Configs
  Exclusive = TRUE
  MaxStarts = 2
  MaxKills = 1
  MaxEdits = 1
  Letters = {0, 2}
  Inputs2 <- MC_Inputs2
  Targets2 <- MC_Targets2
  Inputs1 <- MC_Inputs1
  Targets1 <- MC_Targets1
  MaxVerify = {0, 6, 20}
  Corpora <- MC_Corpora
  LengthWeight = 4
SPECIFICATION MC_Spec
INVARIANTS VerifiedOnOwnInput RunsConverge SkippedIsCovered ClaimsBacked LinksClosed MinimizedKeeps
