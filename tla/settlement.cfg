SPECIFICATION Spec
CONSTANTS
  MaxClients = 3
  SOLANA_MAX_NUM_WITNESSES = 3
  Seeds = {0}
  EpochLimit = 10
  MaxEjections = 1
  compute_shuffled_index <- Rotate
  Configs <- SettleConfigs
  Models <- HubModels
  Progresses = {}
  Repos = {}
  Rates <- SettleRates
  Blooms <- FullBloom
INVARIANTS
  RosterMatchesDraw
  RosterPartition
  PauseIsServed
  NoChargeWithoutEjection
  WitnessesNameTheirSenders
  WitnessesFitTheRound
PROPERTIES
  ImplementsRoster
  SettlementSharesThePool
  RatesFixedDuringEpoch
CHECK_DEADLOCK FALSE
