SPECIFICATION Spec
CONSTANTS
  MaxClients = 3
  SOLANA_MAX_NUM_WITNESSES = 3
  Seeds = {0}
  EpochLimit = 10
  MaxEjections = 0
  compute_shuffled_index <- Rotate
  Configs <- ReconfigConfigs
  Models <- HubModels
  Progresses = {}
  Repos = {}
  Rates = {}
  Blooms <- FullBloom
PROPERTY
  NoMoreClientsThanBatches
CHECK_DEADLOCK FALSE
