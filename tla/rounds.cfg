SPECIFICATION Spec
CONSTANTS
  MaxClients = 2
  SOLANA_MAX_NUM_WITNESSES = 2
  Seeds = {0}
  EpochLimit = 2
  MaxEjections = 0
  compute_shuffled_index <- Rotate
  Configs <- ReconfigConfigs
  Models <- ReconfigModels
  Progresses <- ReconfigProgresses
  Repos = {}
  Rates = {}
  Blooms = {{1}}
INVARIANTS
  TypeOK
  RosterMatchesDraw
  PreviousRoundWasWitnessed
  RingHoldsLatestRounds
  LastStepAhead
PROPERTIES
  ImplementsRoster
  DataIsContiguous
  NoPhaseTimesOutAtOnce
CHECK_DEADLOCK FALSE
