SPECIFICATION Spec
CONSTANTS
  MaxClients = 2
  SOLANA_MAX_NUM_WITNESSES = 3
  Seeds = {0}
  EpochLimit = 10
  MaxEjections = 1
  compute_shuffled_index <- Rotate
  Configs <- LiveConfigs
  Models <- HubModels
  Progresses = {}
  Repos = {}
  Rates <- SettleRates
  Blooms <- FullBloom
PROPERTY
  EjectionsAreCharged
CHECK_DEADLOCK FALSE
