CONSTANTS
  Workers = 2
  ExecLimits <- MCExecLimits
  NoLimit = NoLimit
  TimeLimit = TRUE
  MaxStartupDeaths = 2
  MaxFrames = 3
SPECIFICATION FairSpec
INVARIANTS
  PendingIsInFlight
PROPERTIES
  NoResultDropped
  CampaignEnds
  InterruptHonoured
