----------------------- MODULE MCCoordinatorInstance -----------------------
(* Small instances of CoordinatorInstance for TLC. *)
EXTENDS CoordinatorRefinement

(* A permutation of 0 .. total-1 that the seed rotates, one way per salt.  *)
Rotate(index, total, seed, salt) ==
    IF salt = COMMITTEE_SALT THEN (index + seed) % total
                             ELSE (index + total - (seed % total)) % total

BaseConfig ==
    [warmup_time |-> 1, cooldown_time |-> 1, max_round_train_time |-> 1,
     round_witness_time |-> 1, epoch_time |-> 3,
     waiting_for_members_extra_time |-> 1,
     total_steps |-> 3, init_min_clients |-> 2, min_clients |-> 2,
     witness_nodes |-> 0, verification_percent |-> 50,
     global_batch_size_start |-> 1, global_batch_size_end |-> 3,
     global_batch_size_warmup_tokens |-> 3]

HubModel == [checkpoint |-> "Hub", cold_start_warmup_steps |-> 0]

(* settlement: two of three clients may go on training, or an ejection     *)
(* ends the epoch or aborts the warmup.                                    *)
SettleConfigs ==
    LET three == [BaseConfig EXCEPT !.epoch_time = 2, !.init_min_clients = 3]
    IN  {[three EXCEPT !.witness_nodes = 2],
         [three EXCEPT !.witness_nodes = 1, !.min_clients = 3, !.total_steps = 2]}
HubModels == {HubModel}
SettleRates == {[earning_rate_total_shared |-> {3}, slashing_rate_per_client |-> {1}]}
FullBloom == {Client}

(* rounds: what the authority may change while the run is halted.  One     *)
(* configuration asks everybody for a witness, one is long enough to wrap  *)
(* the ring of stored rounds, and one is refused by check_error.           *)
ReconfigConfigs ==
    LET small == [BaseConfig EXCEPT !.init_min_clients = 1, !.min_clients = 1,
                                    !.global_batch_size_end = 1, !.warmup_time = 0,
                                    !.total_steps = 6, !.witness_nodes = 1]
    IN  {BaseConfig, small, [small EXCEPT !.witness_nodes = 2]}
ReconfigModels == {[checkpoint |-> "P2PGcs", cold_start_warmup_steps |-> 2]}
ReconfigProgresses == {[epoch |-> 1, step |-> 2, epoch_start_data_index |-> 7]}

(* warmup: every client of the roster is asked for a warmup witness *)
WarmupConfigs == {BaseConfig}

(* liveness: under the second configuration no witness is ever accepted *)
LiveConfig == [BaseConfig EXCEPT !.witness_nodes = 1, !.epoch_time = 2]
LiveConfigs == {LiveConfig}
WitnesslessConfigs == {LiveConfig, [LiveConfig EXCEPT !.verification_percent = 101]}
=============================================================================
