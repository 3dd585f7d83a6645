SPECIFICATION Spec
CONSTANTS
  MaxClients = 3
  SOLANA_MAX_NUM_WITNESSES = 3
  Seeds = {0}
  EpochLimit = 10
  MaxEjections = 1
  compute_shuffled_index <- Rotate
  Configs <- WarmupConfigs
  Models <- HubModels
  Progresses = {}
  Repos = {}
  Rates = {}
  Blooms <- FullBloom
INVARIANT
  EveryClientMayWitnessWarmup
CHECK_DEADLOCK FALSE
