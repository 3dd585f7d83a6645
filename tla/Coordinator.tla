---------------------------- MODULE Coordinator ----------------------------
(***************************************************************************)
(* The run state machine of shared/coordinator/src/coordinator.rs, the     *)
(* library both the Solana program and the centralized server drive.       *)
(*                                                                         *)
(* A method of `Coordinator' is an operator from the coordinator's state   *)
(* (a record, here always `co') to its next state.  A method that can      *)
(* return Err, or panic, has a companion ...Ok predicate: on Solana both   *)
(* roll the whole transaction back, so an error is a disabled step.        *)
(*                                                                         *)
(* Data abstractions, each exact for what the code does with the data:     *)
(*  - Clients are numbered in the order of their first join.  The roster   *)
(*    `epoch_state.clients' is always a subsequence of that order          *)
(*    (tick_waiting_for_members copies the permanent list in order and     *)
(*    move_clients_to_exited retains it), so it is a set and a client's    *)
(*    index in it is the number of smaller members.                        *)
(*  - Unix timestamps are only ever compared with a stored start time plus *)
(*    a duration, so the state keeps the two elapsed times instead.        *)
(*  - A witness keeps the index of its proof and the set of clients in its *)
(*    participant bloom; `from' is history, for stating properties.        *)
(*  - Of a checkpoint only its variant is kept.                            *)
(***************************************************************************)
EXTENDS CommitteeSelection

CONSTANTS
    MaxClients,     \* capacity of the client lists (SOLANA_MAX_NUM_CLIENTS)
    Seeds           \* random seeds a round may be given

ASSUME CoordinatorAssumption ==
    /\ MaxClients \in Nat
    /\ Seeds \subseteq Nat
    /\ 0 \in Seeds

Client == 1 .. MaxClients

RunState == {"Uninitialized", "WaitingForMembers", "Warmup", "RoundTrain",
             "RoundWitness", "Cooldown", "Finished", "Paused"}

Training == {"RoundTrain", "RoundWitness"}

ClientState == {"Healthy", "Dropped", "Withdrawn", "Ejected"}

Checkpoint == {"Ephemeral", "Dummy", "Hub", "P2P", "Gcs", "P2PGcs"}

NUM_STORED_ROUNDS == 4
Slot == 0 .. NUM_STORED_ROUNDS - 1

Witness == [from : Client, index : Nat, bloom : SUBSET Client]

Round == [witnesses : SUBSET Witness, data_index : Nat, random_seed : Seeds,
          height : Nat, clients_len : Nat]

CoordinatorConfig ==
    [warmup_time : Nat, cooldown_time : Nat, max_round_train_time : Nat,
     round_witness_time : Nat, epoch_time : Nat,
     waiting_for_members_extra_time : Nat,
     total_steps : Nat, init_min_clients : Nat, min_clients : Nat,
     witness_nodes : Nat, verification_percent : Nat,
     global_batch_size_start : Nat, global_batch_size_end : Nat,
     global_batch_size_warmup_tokens : Nat]

CoordinatorState ==
    [run_state : RunState,
     elapsed : Nat,                 \* now - run_state_start_unix_timestamp
     config : CoordinatorConfig,
     checkpoint : Checkpoint,       \* model.checkpoint
     cold_start_warmup_steps : Nat, \* model.cold_start_warmup_steps
     epoch : Nat, step : Nat, epoch_start_data_index : Nat,     \* progress
     rounds : [Slot -> Round], rounds_head : Slot,              \* epoch_state
     clients : SUBSET Client, exited_clients : SUBSET Client,
     state : [Client -> ClientState],   \* Client::state, in either list
     start_step : Nat, last_step : Nat,
     epoch_elapsed : Nat,           \* now - epoch_state.start_timestamp
     first_round : BOOLEAN, cold_start_epoch : BOOLEAN,
     pending_pause : BOOLEAN]

-----------------------------------------------------------------------------
(* Values of a zeroed account. *)

ZeroRound == [witnesses |-> {}, data_index |-> 0, random_seed |-> 0,
              height |-> 0, clients_len |-> 0]

ZeroConfig ==
    [warmup_time |-> 0, cooldown_time |-> 0, max_round_train_time |-> 0,
     round_witness_time |-> 0, epoch_time |-> 0,
     waiting_for_members_extra_time |-> 0,
     total_steps |-> 0, init_min_clients |-> 0, min_clients |-> 0,
     witness_nodes |-> 0, verification_percent |-> 0,
     global_batch_size_start |-> 0, global_batch_size_end |-> 0,
     global_batch_size_warmup_tokens |-> 0]

ZeroCoordinator ==
    [run_state |-> "Uninitialized", elapsed |-> 0, config |-> ZeroConfig,
     checkpoint |-> "Ephemeral", cold_start_warmup_steps |-> 0,
     epoch |-> 0, step |-> 0, epoch_start_data_index |-> 0,
     rounds |-> [s \in Slot |-> ZeroRound], rounds_head |-> 0,
     clients |-> {}, exited_clients |-> {},
     state |-> [c \in Client |-> "Healthy"],
     start_step |-> 0, last_step |-> 0, epoch_elapsed |-> 0,
     first_round |-> FALSE, cold_start_epoch |-> FALSE,
     pending_pause |-> FALSE]

-----------------------------------------------------------------------------
(* Predicates and queries. *)

halted(co) == co.run_state \in {"Uninitialized", "Finished", "Paused"}

active(co) == co.run_state \in {"RoundTrain", "RoundWitness", "Cooldown"}

(* Mutant: witness_nodes is not bounded by min_clients. *)
check_config_NoWitnessBound(cfg) ==
    /\ cfg.epoch_time > 0
    /\ cfg.warmup_time < cfg.epoch_time
    /\ cfg.max_round_train_time \in 1 .. cfg.epoch_time - 1
    /\ cfg.round_witness_time > 0
    /\ cfg.min_clients \in 1 .. cfg.init_min_clients
    /\ cfg.init_min_clients <= MaxClients
    /\ cfg.global_batch_size_start \in 1 .. cfg.global_batch_size_end
    /\ cfg.total_steps > 0
    /\ cfg.witness_nodes <= SOLANA_MAX_NUM_WITNESSES
    /\ cfg.cooldown_time > 0
    /\ cfg.waiting_for_members_extra_time > 0

(* CoordinatorConfig::check_error *)
check_config(cfg) ==
    /\ cfg.epoch_time > 0
    /\ cfg.warmup_time < cfg.epoch_time
    /\ cfg.max_round_train_time > 0
    /\ cfg.max_round_train_time < cfg.epoch_time
    /\ cfg.round_witness_time > 0
    /\ cfg.min_clients > 0
    /\ cfg.min_clients <= cfg.init_min_clients
    /\ cfg.init_min_clients <= MaxClients
    /\ cfg.global_batch_size_start > 0
    /\ cfg.global_batch_size_start <= cfg.global_batch_size_end
    /\ cfg.total_steps > 0
    /\ cfg.witness_nodes <= cfg.min_clients
    /\ cfg.witness_nodes <= SOLANA_MAX_NUM_WITNESSES
    /\ cfg.cooldown_time > 0
    /\ cfg.waiting_for_members_extra_time > 0

(* The cold-start warmup has to fit in one epoch.  A zero divisor panics.   *)
check_cold_start_warmup_steps(cfg, steps) ==
    \/ steps = 0
    \/ /\ cfg.max_round_train_time # 0
       /\ steps <= (cfg.epoch_time - cfg.warmup_time) \div cfg.max_round_train_time

(* get_batch_size, with the sequence length as the unit of tokens: linear  *)
(* from start to end over the warmup, rounded half up.                     *)
get_batch_size(cfg, tokens) ==
    LET s == cfg.global_batch_size_start
        e == cfg.global_batch_size_end
        w == cfg.global_batch_size_warmup_tokens
    IN  IF tokens >= w THEN e
        ELSE (2 * (s * w + (e - s) * tokens) + w) \div (2 * w)

(* Mutant: a phase of no length is over at once. *)
check_timeout_AtOnce(co, duration) == co.elapsed >= duration

check_timeout(co, duration) == co.elapsed # 0 /\ co.elapsed >= duration

check_epoch_timeout(co) ==
    co.epoch_elapsed # 0 /\ co.epoch_elapsed >= co.config.epoch_time

last_step_set(co) == co.last_step # 0

current_round(co) == co.rounds[co.rounds_head]

(* previous_round: None in the first round, else the slot before the head. *)
has_previous_round(co) == ~(co.rounds_head = 0 /\ current_round(co).height = 0)

(* Mutant: the slot before the first one is forgotten to wrap. *)
previous_round_NoWrap(co) ==
    co.rounds[IF co.rounds_head = 0 THEN 0 ELSE co.rounds_head - 1]

previous_round(co) ==
    IF co.rounds_head = 0 THEN co.rounds[NUM_STORED_ROUNDS - 1]
                          ELSE co.rounds[co.rounds_head - 1]

witness_nodes(co) ==
    LET n == Cardinality(co.clients)
    IN  IF co.config.witness_nodes # 0 THEN co.config.witness_nodes
        ELSE IF n <= SOLANA_MAX_NUM_WITNESSES THEN n ELSE SOLANA_MAX_NUM_WITNESSES

(* witness_quorum: unreachable!() on zero, else two thirds rounded down,   *)
(* except that 2 needs 2 and 3 needs 2.                                    *)
witness_quorum_ok(co, num_witnesses) ==
    co.config.witness_nodes # 0 \/ num_witnesses # 0

witness_quorum(co, num_witnesses) ==
    LET n == IF co.config.witness_nodes = 0 THEN num_witnesses
                                            ELSE co.config.witness_nodes
    IN  IF n <= 2 THEN n ELSE (n * 2) \div 3

(* Mutant: only the bounds are checked. *)
NotDuplicate_BoundsOnly(co, from) ==
    \A w \in current_round(co).witnesses : w.index < Cardinality(co.clients)

(* No witness stored in the current round belongs to `from' by its index.  *)
(* Every stored index is read back with FixedVec's Index, which panics     *)
(* when it is out of bounds.                                               *)
NotDuplicate(co, from) ==
    \A w \in current_round(co).witnesses :
        /\ w.index < Cardinality(co.clients)
        /\ w.index # Index(co.clients, from)

-----------------------------------------------------------------------------
(* State changes shared by the methods. *)

(* change_state asserts that the state really changes; no caller below can *)
(* name the state it is in.                                                *)
change_state(co, new_state) ==
    [co EXCEPT !.run_state = new_state, !.elapsed = 0]

(* Mutant: the clients that left are copied but not removed. *)
move_clients_to_exited_Copies(co) ==
    [co EXCEPT !.exited_clients = @ \cup {c \in co.clients : co.state[c] # "Healthy"}]

move_clients_to_exited(co) ==
    LET healthy == {c \in co.clients : co.state[c] = "Healthy"}
    IN  [co EXCEPT !.clients = healthy,
                   !.exited_clients = @ \cup (co.clients \ healthy)]

withdraw_all(co) ==
    [co EXCEPT !.state = [c \in Client |->
        IF c \in co.clients /\ co.state[c] = "Healthy" THEN "Withdrawn"
                                                       ELSE co.state[c]]]

start_cooldown(co) ==
    change_state([co EXCEPT !.rounds[co.rounds_head].witnesses = {}], "Cooldown")

start_waiting_for_members(co) ==
    change_state(co, IF co.step < co.config.total_steps
                     THEN "WaitingForMembers" ELSE "Finished")

start_round_train(co, seed) ==
    LET prev == current_round(co)
        head == IF co.first_round THEN 0
                ELSE (co.rounds_head + 1) % NUM_STORED_ROUNDS
        round == [witnesses |-> {},
                  data_index |-> IF co.first_round THEN co.epoch_start_data_index
                                 ELSE prev.data_index
                                      + get_batch_size(co.config, prev.data_index),
                  random_seed |-> seed,
                  height |-> IF co.first_round THEN 0 ELSE prev.height + 1,
                  clients_len |-> Cardinality(co.clients)]
    IN  change_state([co EXCEPT !.rounds[head] = round, !.rounds_head = head],
                     "RoundTrain")

-----------------------------------------------------------------------------
(* tick, one operator per run state.  `pending' are the clients that asked *)
(* to be in the next epoch.                                                *)

(* Mutant: the checkpoint is kept when no peer of the last epoch is left. *)
tick_waiting_for_members_KeepsP2P(co, pending) ==
    IF /\ Cardinality(pending) >= co.config.init_min_clients
       /\ check_timeout(co, co.config.waiting_for_members_extra_time)
    THEN change_state([co EXCEPT
            !.rounds = [s \in Slot |-> ZeroRound], !.rounds_head = 0,
            !.clients = pending, !.exited_clients = {},
            !.state = [c \in Client |-> "Healthy"],
            !.start_step = co.step, !.last_step = 0,
            !.epoch_elapsed = 0, !.first_round = TRUE], "Warmup")
    ELSE co

tick_waiting_for_members(co, pending) ==
    LET kept == move_clients_to_exited(co).clients
        peerless == kept \cap pending = {}
        fresh == [co EXCEPT
            !.checkpoint = CASE peerless /\ @ = "P2P" -> "Hub"
                             [] peerless /\ @ = "P2PGcs" -> "Gcs"
                             [] OTHER -> @,
            !.rounds = [s \in Slot |-> ZeroRound], !.rounds_head = 0,
            !.clients = pending, !.exited_clients = {},
            !.state = [c \in Client |-> "Healthy"],
            !.start_step = co.step, !.last_step = 0,
            !.epoch_elapsed = 0, !.first_round = TRUE]
    IN  IF /\ Cardinality(pending) >= co.config.init_min_clients
           /\ check_timeout(co, co.config.waiting_for_members_extra_time)
        THEN change_state(fresh, "Warmup")
        ELSE co

tick_warmup(co, seed) ==
    LET next == IF check_timeout(co, co.config.warmup_time)
                THEN start_round_train(co, seed)
                ELSE move_clients_to_exited(co)
    IN  IF Cardinality(next.clients) < co.config.min_clients
        THEN [co |-> start_waiting_for_members(next), epoch_end |-> TRUE]
        ELSE [co |-> next, epoch_end |-> FALSE]

(* Mutant: the roster is compacted while a round is open. *)
tick_round_train_Compacts(co) ==
    IF check_timeout(co, co.config.max_round_train_time)
    THEN change_state(move_clients_to_exited(co), "RoundWitness")
    ELSE co

(* Mutant: the round waits for a witness beyond its time. *)
tick_round_train_Waits(co) ==
    IF /\ check_timeout(co, co.config.max_round_train_time)
       /\ current_round(co).witnesses # {}
    THEN change_state(co, "RoundWitness")
    ELSE co

tick_round_train(co) ==
    IF check_timeout(co, co.config.max_round_train_time)
    THEN change_state(co, "RoundWitness")
    ELSE co

(* Once the epoch's time is up, two more steps are trained. *)
SetLastStep(co) ==
    IF check_epoch_timeout(co) /\ ~last_step_set(co) /\ co.step + 2 >= 4
    THEN [co EXCEPT !.last_step = co.step + 2]
    ELSE co

(* Mutant: the last step is passed before the epoch ends. *)
EndsEpoch_Late(co, num_witnesses) ==
    \/ last_step_set(co) /\ co.step > co.last_step
    \/ Cardinality(co.clients) < co.config.min_clients
    \/ num_witnesses < witness_quorum(co, num_witnesses)
    \/ co.step >= co.config.total_steps
    \/ co.pending_pause

EndsEpoch(co, num_witnesses) ==
    \/ last_step_set(co) /\ co.step = co.last_step
    \/ Cardinality(co.clients) < co.config.min_clients
    \/ num_witnesses < witness_quorum(co, num_witnesses)
    \/ co.step >= co.config.total_steps
    \/ co.pending_pause

(* Mutant: a round without witnesses is not told apart. *)
tick_round_witness_NoEmpty(co, seed) ==
    LET num_witnesses == Cardinality(current_round(co).witnesses)
        next == SetLastStep(move_clients_to_exited(
                    [co EXCEPT !.first_round = FALSE, !.step = co.step + 1]))
    IN  IF ~check_timeout(co, co.config.round_witness_time) THEN co
        ELSE IF EndsEpoch(next, num_witnesses) THEN start_cooldown(next)
        ELSE start_round_train(next, seed)

tick_round_witness(co, seed) ==
    LET num_witnesses == Cardinality(current_round(co).witnesses)
        moved == move_clients_to_exited(
                     [co EXCEPT !.first_round = FALSE, !.step = co.step + 1])
        next == SetLastStep(moved)
    IN  IF ~check_timeout(co, co.config.round_witness_time) THEN co
        ELSE IF num_witnesses = 0 THEN start_cooldown(withdraw_all(moved))
        ELSE IF EndsEpoch(next, num_witnesses) THEN start_cooldown(next)
        ELSE start_round_train(next, seed)

(* Mutant: the next epoch starts at the last round's own data. *)
tick_cooldown_NoAdvance(co) ==
    LET moved == move_clients_to_exited([co EXCEPT
            !.epoch_start_data_index = current_round(co).data_index,
            !.epoch = co.epoch + 1])
        next == IF co.pending_pause
                THEN [change_state(withdraw_all(moved), "Paused") EXCEPT
                         !.pending_pause = FALSE, !.cold_start_epoch = TRUE]
                ELSE start_waiting_for_members(moved)
    IN  IF check_timeout(co, co.config.cooldown_time)
        THEN [co |-> next, epoch_end |-> TRUE]
        ELSE [co |-> co, epoch_end |-> FALSE]

(* Mutant: a served pause stays pending. *)
tick_cooldown_KeepsPause(co) ==
    LET moved == move_clients_to_exited([co EXCEPT !.epoch = co.epoch + 1])
    IN  IF check_timeout(co, co.config.cooldown_time)
        THEN [co |-> IF co.pending_pause
                     THEN change_state(withdraw_all(moved), "Paused")
                     ELSE start_waiting_for_members(moved),
              epoch_end |-> TRUE]
        ELSE [co |-> co, epoch_end |-> FALSE]

tick_cooldown(co) ==
    LET last == current_round(co)
        moved == move_clients_to_exited([co EXCEPT
            !.epoch_start_data_index =
                last.data_index + get_batch_size(co.config, last.data_index),
            !.epoch = co.epoch + 1,
            !.checkpoint = CASE co.checkpoint \in {"Hub", "Dummy"} -> "P2P"
                             [] co.checkpoint = "Gcs" -> "P2PGcs"
                             [] OTHER -> co.checkpoint])
        next == IF co.pending_pause
                THEN [change_state(withdraw_all(moved), "Paused") EXCEPT
                         !.pending_pause = FALSE, !.cold_start_epoch = TRUE]
                ELSE [start_waiting_for_members(moved) EXCEPT
                         !.cold_start_epoch = FALSE]
    IN  IF check_timeout(co, co.config.cooldown_time)
        THEN [co |-> next, epoch_end |-> TRUE]
        ELSE [co |-> co, epoch_end |-> FALSE]

(* Coordinator::tick; it errors when the run is halted. *)
tick(co, pending, seed) ==
    LET Ticked(next) == [co |-> next, epoch_end |-> FALSE]
    IN  CASE co.run_state = "WaitingForMembers" ->
                 Ticked(tick_waiting_for_members(co, pending))
          [] co.run_state = "Warmup" -> tick_warmup(co, seed)
          [] co.run_state = "RoundTrain" -> Ticked(tick_round_train(co))
          [] co.run_state = "RoundWitness" -> Ticked(tick_round_witness(co, seed))
          [] co.run_state = "Cooldown" -> tick_cooldown(co)
          [] OTHER -> Ticked(co)

-----------------------------------------------------------------------------
(* The methods clients and the run's authority call. *)

(* A witness of the warmup, from a client that has loaded the model.  One  *)
(* that arrives in RoundTrain is accepted and ignored.                     *)
warmup_witness_ok(co, from) ==
    \/ co.run_state = "RoundTrain"
    \/ /\ co.run_state = "Warmup"
       /\ from \in co.clients
       /\ NotDuplicate(co, from)
       /\ Cardinality(current_round(co).witnesses) < SOLANA_MAX_NUM_WITNESSES

AddWitness(co, from, bloom) ==
    [co EXCEPT !.rounds[co.rounds_head].witnesses = @ \cup
        {[from |-> from, index |-> Index(co.clients, from), bloom |-> bloom]}]

warmup_witness(co, from, bloom, seed) ==
    LET next == AddWitness(co, from, bloom)
    IN  IF co.run_state = "RoundTrain" THEN co
        ELSE IF Cardinality(current_round(next).witnesses) = witness_nodes(co)
        THEN start_round_train(next, seed)
        ELSE next

(* Mutant: anybody in the roster may witness the round. *)
witness_ok_NoLottery(co, from) ==
    /\ co.run_state \in {"RoundTrain", "RoundWitness"}
    /\ from \in co.clients
    /\ NotDuplicate(co, from)
    /\ Cardinality(current_round(co).witnesses) < SOLANA_MAX_NUM_WITNESSES

witness_ok(co, from) ==
    /\ co.run_state \in {"RoundTrain", "RoundWitness"}
    /\ ValidSelection(co.config, 0, current_round(co).clients_len)
    /\ from \in co.clients
    /\ IsWitness(co.config, current_round(co).clients_len,
                 current_round(co).random_seed, Index(co.clients, from))
    /\ NotDuplicate(co, from)
    /\ Cardinality(current_round(co).witnesses) < SOLANA_MAX_NUM_WITNESSES

witness(co, from, bloom) ==
    LET next == AddWitness(co, from, bloom)
    IN  IF /\ Cardinality(current_round(next).witnesses) = witness_nodes(co)
           /\ co.run_state # "RoundWitness"
        THEN change_state(next, "RoundWitness")
        ELSE next

(* healthy(): client c is judged by the committee its present index had in *)
(* the previous round, and by the witnesses of that round.                 *)
trainer_healthy_score_by_witnesses(co, c) ==
    Cardinality({w \in previous_round(co).witnesses : c \in w.bloom})

unhealthy(co, c) ==
    LET prev == previous_round(co)
        index == Index(co.clients, c)
        num_witnesses == Cardinality(prev.witnesses)
    IN  /\ has_previous_round(co)
        /\ c \in co.clients
        /\ index < prev.clients_len
        /\ ValidSelection(co.config, 0, prev.clients_len)
        /\ CommitteeOf(co.config, 0, prev.clients_len, prev.random_seed, index)
               = "Trainer"
        /\ witness_quorum_ok(co, num_witnesses)
        /\ trainer_healthy_score_by_witnesses(co, c)
               < witness_quorum(co, num_witnesses)

health_check_ok(co, c) ==
    /\ ~halted(co)
    /\ current_round(co).height >= 2
    /\ unhealthy(co, c)

health_check(co, c) ==
    IF co.state[c] = "Healthy" THEN [co EXCEPT !.state[c] = "Dropped"] ELSE co

(* eject looks at the roster only, not at the run state. *)
eject_ok(co, c) == c \in co.clients /\ co.state[c] \in {"Healthy", "Dropped"}

eject(co, c) == [co EXCEPT !.state[c] = "Ejected"]

(* checkpoint: the match over the current and the offered variant. *)
checkpoint(co, offered) ==
    [co EXCEPT !.checkpoint =
        CASE offered = "Hub" /\ @ \in {"P2P", "P2PGcs"} -> "P2P"
          [] offered = "Gcs" /\ @ \in {"P2P", "P2PGcs"} -> "P2PGcs"
          [] OTHER -> @]

(* Mutant: a pause is left pending in every state. *)
pause_AlwaysPending(co) == [co EXCEPT !.pending_pause = TRUE]

pause(co) ==
    IF active(co) THEN [co EXCEPT !.pending_pause = TRUE]
    ELSE [change_state(withdraw_all(co), "Paused") EXCEPT !.cold_start_epoch = TRUE]

(* Mutant: a run that has trained all its steps is resumed. *)
resume_NoCheck(co) == change_state(co, "WaitingForMembers")

resume(co) == start_waiting_for_members(co)
=============================================================================
