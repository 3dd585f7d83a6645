SPECIFICATION FairDisputesSpec
CONSTANTS
  MaxClients = 3
  SOLANA_MAX_NUM_WITNESSES = 3
  Seeds = {0, 1}
  Elections <- AllVerify
  Epochs = {0}
  Targets = {1}
  Bonded = {1, 2, 3}
  Claims = {0}
  Slashable = {2}
  Settings <- ChangingSettings
  MAX_VERDICT_VOTERS = 3
  MAX_APPEAL_VOTERS = 3
  MaxWindow = 1
  MaxEpoch = 0
  MaxHeight = 2
  compute_shuffled_index <- Rotate
INVARIANTS
  OneSideLoses
  TrainingVerdictsAreOneCommittees
PROPERTIES
  ConvictionsEnd
CHECK_DEADLOCK FALSE
