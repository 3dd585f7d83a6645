SPECIFICATION FairSpec
CONSTANTS
  MaxClients = 2
  SOLANA_MAX_NUM_WITNESSES = 3
  Seeds = {0}
  EpochLimit = 10
  MaxEjections = 1
  compute_shuffled_index <- Rotate
  Configs <- WitnesslessConfigs
  Models <- HubModels
  Progresses = {}
  Repos = {"Hub", "Gcs"}
  Rates = {}
  Blooms <- FullBloom
PROPERTIES
  P2PHasAPeer
  EpochEnds
  PauseHappens
CHECK_DEADLOCK FALSE
