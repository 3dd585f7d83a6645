SPECIFICATION DisputesSpec
CONSTANTS
  MaxClients = 3
  SOLANA_MAX_NUM_WITNESSES = 3
  Seeds = {0}
  Elections <- TwoOfThree
  Epochs = {}
  Targets = {1}
  Bonded = {1, 2, 3}
  Claims = {0}
  Slashable = {1, 2, 3}
  Settings <- NoAppeals
  MAX_VERDICT_VOTERS = 3
  MAX_APPEAL_VOTERS = 3
  MaxWindow = 1
  MaxEpoch = 1
  MaxHeight = 1
  compute_shuffled_index <- Rotate
INVARIANT VerdictsAreOneCommittees
CHECK_DEADLOCK FALSE
