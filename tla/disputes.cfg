SPECIFICATION DisputesSpec
CONSTANTS
  MaxClients = 4
  SOLANA_MAX_NUM_WITNESSES = 3
  Seeds = {0, 1}
  Elections <- AllFourVerify
  Epochs = {0}
  Targets = {1}
  Bonded = {1, 2, 3, 4}
  Claims = {0}
  Slashable = {}
  Settings <- BenchOfTwo
  MAX_VERDICT_VOTERS = 4
  MAX_APPEAL_VOTERS = 4
  MaxWindow = 1
  MaxEpoch = 1
  MaxHeight = 0
  compute_shuffled_index <- Rotate
INVARIANTS
  DisputesTypeOK
  TrainingVerdictsAreOneCommittees
  BenchesAreDisjoint
  OneSideLoses
PROPERTIES
  UnfinishedDisputesAreKept
CHECK_DEADLOCK FALSE
