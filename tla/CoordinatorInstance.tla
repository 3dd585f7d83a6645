------------------------ MODULE CoordinatorInstance ------------------------
(***************************************************************************)
(* One run on chain: the instructions of the solana-coordinator program    *)
(* (instance_state.rs, clients_state.rs, lib.rs).                          *)
(*                                                                         *)
(* An instruction is one transaction: it calls a method of the coordinator *)
(* and, with the exceptions visible below, ends with tick().  Both happen  *)
(* or neither does, so an action is the method followed by Ticked, and an  *)
(* error anywhere in it disables the action.                               *)
(*                                                                         *)
(* `hist' is history: no instruction reads it.  It remembers               *)
(*   uncharged  for each client, ejections minus slashing charges,         *)
(*   data_end   the end of the data given to the latest round,             *)
(*   holders    the clients that finished the last completed epoch,        *)
(*   ejections  how many ejections there were, to bound a run.             *)
(***************************************************************************)
EXTENDS Coordinator, Integers, Functions

CONSTANTS
    Configs,        \* configurations the authority may install
    Models,         \* models the authority may install
    Progresses,     \* progress the authority may install
    Rates,          \* arguments the authority may give set_future_epoch_rates
    Blooms,         \* participant blooms a witness may send
    Repos,          \* checkpoints a client may offer
    EpochLimit,     \* largest epoch number (u16::MAX)
    MaxEjections    \* bound on the ejections of a behaviour

VARIABLES
    coordinator,    \* CoordinatorInstanceState::coordinator
    clients_state,  \* CoordinatorInstanceState::clients_state and its two flags
    hist

vars == <<coordinator, clients_state, hist>>

ModelType == [checkpoint : Checkpoint, cold_start_warmup_steps : Nat]
ProgressType == [epoch : Nat, step : Nat, epoch_start_data_index : Nat]
ClientsEpochRates ==
    [earning_rate_total_shared : Nat, slashing_rate_per_client : Nat]

(* An Option argument is the empty set for None, a singleton for Some.     *)
Option(S) == {{}} \cup {{x} : x \in S}
UnwrapOr(option, default) ==
    IF option = {} THEN default ELSE CHOOSE x \in option : TRUE

ASSUME InstanceAssumption ==
    /\ Configs \subseteq CoordinatorConfig
    /\ Models \subseteq ModelType
    /\ Progresses \subseteq ProgressType
    /\ Rates \subseteq [earning_rate_total_shared : SUBSET Nat,
                       slashing_rate_per_client : SUBSET Nat]
    /\ Blooms \subseteq SUBSET Client
    /\ Repos \subseteq Checkpoint
    /\ EpochLimit \in Nat
    /\ MaxEjections \in Nat

ZeroRates == [earning_rate_total_shared |-> 0, slashing_rate_per_client |-> 0]

(* `clients' is the length of the permanent list; `active' are the clients *)
(* whose `active' field equals next_active, so that next_active += 1 makes *)
(* it empty.                                                               *)
ClientsState ==
    [clients : 0 .. MaxClients, active : SUBSET Client,
     earned : [Client -> Nat], slashed : [Client -> Nat],
     current_epoch_rates : ClientsEpochRates,
     future_epoch_rates : ClientsEpochRates,
     is_warmup_first_tick : BOOLEAN, is_training_first_tick : BOOLEAN]

ZeroClientsState ==
    [clients |-> 0, active |-> {},
     earned |-> [c \in Client |-> 0], slashed |-> [c \in Client |-> 0],
     current_epoch_rates |-> ZeroRates, future_epoch_rates |-> ZeroRates,
     is_warmup_first_tick |-> FALSE, is_training_first_tick |-> FALSE]

Hist == [uncharged : [Client -> Int], data_end : Nat,
         holders : SUBSET Client, ejections : Nat]

(* init_coordinator leaves a zeroed account. *)
Init ==
    /\ coordinator = ZeroCoordinator
    /\ clients_state = ZeroClientsState
    /\ hist = [uncharged |-> [c \in Client |-> 0], data_end |-> 0,
               holders |-> {}, ejections |-> 0]

-----------------------------------------------------------------------------
(* CoordinatorInstanceState::tick *)

(* tick errors on a halted run; the epoch counter is a checked u16. *)
tick_ok(co) ==
    /\ ~halted(co)
    /\ ~(/\ co.run_state = "Cooldown"
         /\ check_timeout(co, co.config.cooldown_time)
         /\ co.epoch = EpochLimit)

is_warmup_just_starting(co) == co.first_round /\ co.run_state = "Warmup"
is_training_just_starting(co) == co.first_round /\ co.run_state = "RoundTrain"

(* Mutant: every client that left is charged, whatever the reason. *)
Charged_AnyExit(co) == co.exited_clients

Finishers(co) == {c \in co.clients : co.state[c] = "Healthy"}
Charged(co) == {c \in co.exited_clients : co.state[c] = "Ejected"}

(* Mutant: the pool is paid to each finisher instead of shared. *)
Settle_NoShare(co, cs) ==
    [cs EXCEPT !.earned = [c \in Client |->
        IF c <= cs.clients /\ c \in Finishers(co)
        THEN cs.earned[c] + cs.current_epoch_rates.earning_rate_total_shared
        ELSE cs.earned[c]]]

(* The epoch's settlement, matched by identity. *)
Settle(co, cs) ==
    LET rates == cs.current_epoch_rates
        finishers == Cardinality(co.clients)
        earned_share == IF finishers = 0 THEN 0
                        ELSE rates.earning_rate_total_shared \div finishers
    IN  [cs EXCEPT
            !.earned = [c \in Client |->
                IF c <= cs.clients /\ c \in Finishers(co)
                THEN cs.earned[c] + earned_share ELSE cs.earned[c]],
            !.slashed = [c \in Client |->
                IF c <= cs.clients /\ c \in Charged(co)
                THEN cs.slashed[c] + rates.slashing_rate_per_client
                ELSE cs.slashed[c]]]

(* Mutant: the rates are taken on every tick of the warmup. *)
NoteEpochStart_EveryTick(co, cs) ==
    IF is_warmup_just_starting(co)
    THEN [cs EXCEPT !.current_epoch_rates = cs.future_epoch_rates]
    ELSE cs

NoteEpochStart(co, cs) ==
    IF is_warmup_just_starting(co) /\ cs.is_warmup_first_tick
    THEN [cs EXCEPT !.current_epoch_rates = cs.future_epoch_rates,
                    !.is_warmup_first_tick = FALSE]
    ELSE IF is_training_just_starting(co) /\ cs.is_training_first_tick
    THEN [cs EXCEPT !.active = {}, !.is_training_first_tick = FALSE]
    ELSE cs

ResetFirstTicks(co, cs) ==
    IF co.run_state = "WaitingForMembers"
    THEN [cs EXCEPT !.is_warmup_first_tick = TRUE, !.is_training_first_tick = TRUE]
    ELSE cs

InstanceTick(co, cs, seed) ==
    LET pre == ResetFirstTicks(co, cs)
        ticked == tick(co, cs.active, seed)
    IN  [co |-> ticked.co, epoch_end |-> ticked.epoch_end,
         cs |-> IF ticked.epoch_end THEN Settle(ticked.co, pre)
                ELSE NoteEpochStart(ticked.co, pre)]

(* What the step from `coordinator' to `co' adds to the history. *)
Noted(co, epoch_end) ==
    LET Ejection(c) == IF /\ coordinator.state[c] # "Ejected"
                          /\ co.state[c] = "Ejected" THEN 1 ELSE 0
        Charge(c) == IF epoch_end /\ c \in Charged(co) THEN 1 ELSE 0
    IN  [hist EXCEPT
            !.uncharged = [c \in Client |->
                hist.uncharged[c] + Ejection(c) - Charge(c)],
            !.data_end =
                IF co.run_state = "RoundTrain" /\ coordinator.run_state # "RoundTrain"
                THEN current_round(co).data_index
                     + get_batch_size(co.config, current_round(co).data_index)
                ELSE @,
            !.holders = IF co.epoch # coordinator.epoch
                        THEN {c \in coordinator.clients : coordinator.state[c] = "Healthy"}
                        ELSE @]

(* The transaction's last call.  co and cs are the state the instruction's *)
(* own method left.                                                        *)
Ticked(co, cs, seed) ==
    /\ tick_ok(co)
    /\ LET t == InstanceTick(co, cs, seed)
       IN  /\ coordinator' = t.co
           /\ clients_state' = t.cs
           /\ hist' = Noted(t.co, t.epoch_end)

-----------------------------------------------------------------------------
(* The instructions. *)

Tick == \E seed \in Seeds : Ticked(coordinator, clients_state, seed)

IsKnown(c) == c <= clients_state.clients     \* find_signer

(* Mutant: a client that joins again is added to the permanent list again. *)
Join_Again(c) ==
    LET n == clients_state.clients
        cs == [clients_state EXCEPT !.clients = n + 1, !.active = @ \cup {c}]
    IN  /\ c <= n + 1
        /\ coordinator.config.global_batch_size_end # n
        /\ IF halted(coordinator)
           THEN clients_state' = cs /\ UNCHANGED <<coordinator, hist>>
           ELSE \E seed \in Seeds : Ticked(coordinator, cs, seed)

Join(c) ==
    LET n == clients_state.clients
        cs == [clients_state EXCEPT
                  !.clients = IF c = n + 1 THEN n + 1 ELSE @,
                  !.active = @ \cup {c}]
    IN  /\ c <= n + 1
        /\ c = n + 1 => coordinator.config.global_batch_size_end # n
        /\ IF halted(coordinator)
           THEN clients_state' = cs /\ UNCHANGED <<coordinator, hist>>
           ELSE \E seed \in Seeds : Ticked(coordinator, cs, seed)

Witnesses(c) ==
    /\ IsKnown(c)
    /\ witness_ok(coordinator, c)
    /\ \E bloom \in Blooms, seed \in Seeds :
          Ticked(witness(coordinator, c, bloom), clients_state, seed)

WarmupWitnesses(c) ==
    /\ IsKnown(c)
    /\ warmup_witness_ok(coordinator, c)
    /\ \E bloom \in Blooms, seed \in Seeds :
          Ticked(warmup_witness(coordinator, c, bloom, seed), clients_state, seed)

(* Any client of the run may report client c. *)
HealthCheck(c) ==
    /\ clients_state.clients > 0
    /\ health_check_ok(coordinator, c)
    /\ \E seed \in Seeds :
          Ticked(health_check(coordinator, c), clients_state, seed)

(* slash_client, by the run's authority (the treasurer's dispute paths). *)
Slash(c) ==
    /\ eject_ok(coordinator, c)
    /\ hist.ejections < MaxEjections
    /\ coordinator' = eject(coordinator, c)
    /\ hist' = [Noted(eject(coordinator, c), FALSE) EXCEPT !.ejections = @ + 1]
    /\ UNCHANGED clients_state

Checkpoints(c) ==
    /\ IsKnown(c)
    /\ c \in coordinator.clients
    /\ \E offered \in Repos, seed \in Seeds :
          LET co == checkpoint(coordinator, offered)
          IN  IF halted(co)
              THEN coordinator' = co /\ UNCHANGED <<clients_state, hist>>
              ELSE Ticked(co, clients_state, seed)

(* set_paused(true) does not tick. *)
Pause ==
    /\ ~halted(coordinator)
    /\ coordinator' = pause(coordinator)
    /\ UNCHANGED <<clients_state, hist>>

(* set_paused(false), also the only way out of Uninitialized. *)
Resume ==
    LET co == IF coordinator.run_state = "Uninitialized"
              THEN [coordinator EXCEPT !.run_state = "Paused", !.step = 1]
              ELSE coordinator
    IN  /\ check_config(co.config)
        /\ co.checkpoint # "Ephemeral"
        /\ check_cold_start_warmup_steps(co.config, co.cold_start_warmup_steps)
        /\ co.step > 0
        /\ co.run_state = "Paused"
        /\ \E seed \in Seeds :
              Ticked(resume(co), [clients_state EXCEPT !.active = {}], seed)

(* update on a halted run that is not finished; each argument is an Option. *)
Update(config, model, progress) ==
    LET co == coordinator
        new_config == UnwrapOr(config, co.config)
        new_model == UnwrapOr(model,
            [checkpoint |-> co.checkpoint,
             cold_start_warmup_steps |-> co.cold_start_warmup_steps])
        new_progress == UnwrapOr(progress,
            [epoch |-> co.epoch, step |-> co.step,
             epoch_start_data_index |-> co.epoch_start_data_index])
    IN  /\ co.run_state \in {"Uninitialized", "Paused"}
        /\ config # {} => check_config(new_config)
        /\ model # {} => new_model.checkpoint # "Ephemeral"
        /\ config # {} \/ model # {} =>
              check_cold_start_warmup_steps(new_config,
                                            new_model.cold_start_warmup_steps)
        /\ progress # {} => new_progress.step > 0
        /\ coordinator' = [co EXCEPT
              !.config = new_config,
              !.checkpoint = new_model.checkpoint,
              !.cold_start_warmup_steps = new_model.cold_start_warmup_steps,
              !.epoch = new_progress.epoch,
              !.step = new_progress.step,
              !.epoch_start_data_index = new_progress.epoch_start_data_index]
        /\ hist' = [hist EXCEPT !.data_end =
              IF progress = {} THEN @ ELSE new_progress.epoch_start_data_index]
        /\ UNCHANGED clients_state

SetFutureEpochRates(rates) ==
    LET old == clients_state.future_epoch_rates
        new == [earning_rate_total_shared |->
                    UnwrapOr(rates.earning_rate_total_shared,
                             old.earning_rate_total_shared),
                slashing_rate_per_client |->
                    UnwrapOr(rates.slashing_rate_per_client,
                             old.slashing_rate_per_client)]
    IN  /\ clients_state' = [clients_state EXCEPT !.future_epoch_rates = new]
        /\ UNCHANGED <<coordinator, hist>>

-----------------------------------------------------------------------------
(* Time.  Elapsed times stop growing at the largest duration they will be  *)
(* compared with before they are reset, which no comparison can notice.    *)

RunStateDuration(co) ==
    CASE co.run_state = "WaitingForMembers" -> co.config.waiting_for_members_extra_time
      [] co.run_state = "Warmup" ->
             IF co.config.warmup_time = 0 THEN 1 ELSE co.config.warmup_time
      [] co.run_state = "RoundTrain" -> co.config.max_round_train_time
      [] co.run_state = "RoundWitness" -> co.config.round_witness_time
      [] co.run_state = "Cooldown" -> co.config.cooldown_time
      [] OTHER -> 0

EpochIsTimed(co) == co.run_state \in {"Warmup", "RoundTrain", "RoundWitness"}

Elapse ==
    LET co == coordinator
        Later(t, most) == IF t < most THEN t + 1 ELSE t
        next == [co EXCEPT
            !.elapsed = Later(@, RunStateDuration(co)),
            !.epoch_elapsed = IF EpochIsTimed(co) THEN Later(@, co.config.epoch_time)
                                                  ELSE @]
    IN  /\ next # co
        /\ coordinator' = next
        /\ UNCHANGED <<clients_state, hist>>

-----------------------------------------------------------------------------
Authority ==
    \/ Pause
    \/ Resume
    \/ \E config \in Option(Configs), model \in Option(Models),
          progress \in Option(Progresses) : Update(config, model, progress)
    \/ \E rates \in Rates : SetFutureEpochRates(rates)

ClientCalls(c) ==
    \/ Join(c)
    \/ Witnesses(c)
    \/ WarmupWitnesses(c)
    \/ HealthCheck(c)
    \/ Checkpoints(c)
    \/ Slash(c)

Next ==
    \/ Tick
    \/ Elapse
    \/ Authority
    \/ \E c \in Client : ClientCalls(c)

Spec == Init /\ [][Next]_vars

(* The clock advances and somebody keeps calling the permissionless tick.  *)
FairSpec == Spec /\ WF_vars(Elapse) /\ WF_vars(Tick)

-----------------------------------------------------------------------------
(* Safety. *)

TypeOK ==
    /\ coordinator \in CoordinatorState
    /\ clients_state \in ClientsState
    /\ hist \in Hist

(* In warmup and training the roster never falls below min_clients, and    *)
(* while training it is exactly the roster the current round was drawn     *)
(* over.  So CommitteeSelection::new, called by every witness, errors only *)
(* on a verification_percent above 100 (which check_error lets through),   *)
(* whatever configurations were installed while the run was paused         *)
(* (tick_warmup, tick_round_witness, update).                              *)
RosterMatchesDraw ==
    /\ coordinator.run_state \in Training \cup {"Warmup"} =>
          Cardinality(coordinator.clients) >= coordinator.config.min_clients
    /\ coordinator.run_state \in Training =>
          /\ current_round(coordinator).clients_len = Cardinality(coordinator.clients)
          /\ coordinator.config.verification_percent <= 100 =>
                ValidSelection(coordinator.config, 0,
                               current_round(coordinator).clients_len)

(* No client is in both lists of an epoch, and everyone in exited_clients  *)
(* left for a reason.  It is what makes exited_clients.push(..).unwrap()   *)
(* in move_clients_to_exited safe and a settlement pay or charge, never    *)
(* both.                                                                   *)
RosterPartition ==
    /\ coordinator.clients \cap coordinator.exited_clients = {}
    /\ \A c \in coordinator.exited_clients : coordinator.state[c] # "Healthy"

(* While a round trains, every stored witness still carries the index of   *)
(* the client that sent it, and no client has two: the duplicate check of  *)
(* witness(), which reads the roster at the stored indices, compares with  *)
(* the right clients and stays within bounds.                              *)
WitnessesNameTheirSenders ==
    coordinator.run_state \in Training =>
        LET ws == current_round(coordinator).witnesses
        IN  /\ \A w \in ws : /\ w.from \in coordinator.clients
                             /\ w.index = Index(coordinator.clients, w.from)
            /\ \A v, w \in ws : v.from = w.from => v = w

(* The lottery elects no more witnesses than the round waits for, so the   *)
(* count meets witness_nodes with == (opportunistic witnessing) and never  *)
(* overflows the list, whatever the order in which witnesses arrive.       *)
WitnessesFitTheRound ==
    coordinator.run_state \in Training =>
        Cardinality(current_round(coordinator).witnesses) <= witness_nodes(coordinator)

(* Every round that was followed by another had a witness, so the          *)
(* unreachable!() of witness_quorum is not reached from a health check     *)
(* even when the configuration asks for "all" witnesses (0).               *)
PreviousRoundWasWitnessed ==
    has_previous_round(coordinator) => previous_round(coordinator).witnesses # {}

(* The ring of stored rounds: the head holds height h at slot h % 4, and   *)
(* the slots behind it the heights before h.  previous_round() is the      *)
(* round before the current one, across the wrap.                          *)
RingHoldsLatestRounds ==
    LET h == current_round(coordinator).height
    IN  /\ coordinator.rounds_head = h % NUM_STORED_ROUNDS
        /\ \A back \in 0 .. NUM_STORED_ROUNDS - 1 :
              back <= h =>
                  coordinator.rounds[(h - back) % NUM_STORED_ROUNDS].height = h - back
        /\ has_previous_round(coordinator) =>
              previous_round(coordinator).height = h - 1

(* A pending pause is only ever carried by an active epoch, so the Cooldown *)
(* that ends the epoch always serves it.                                   *)
PauseIsServed == coordinator.pending_pause => active(coordinator)

(* Once the epoch's last step is set the step count approaches it without  *)
(* jumping over: tick_round_witness compares with ==.                      *)
LastStepAhead ==
    /\ coordinator.run_state \in Training /\ last_step_set(coordinator) =>
          coordinator.step < coordinator.last_step
    /\ coordinator.run_state \in Training \cup {"Warmup", "WaitingForMembers"} =>
          coordinator.step < coordinator.config.total_steps

(* No client is charged the slashing rate more often than it was ejected,  *)
(* however epochs end, abort, pause and restart (the settlement in tick).  *)
NoChargeWithoutEjection == \A c \in Client : hist.uncharged[c] >= 0

SumEarned(cs) == FoldFunction(+, 0, cs.earned)

(* A settlement shares the pool.  Whatever ends an epoch, all the clients  *)
(* together are paid no more than the pool in force and nobody is paid and *)
(* charged at once; the ledgers move in no other step; and an epoch that   *)
(* completes with no pause pending pays each client left in the roster an  *)
(* equal share, forgets none of them and pays nobody else (tick and its    *)
(* settlement).  That an aborted warmup settles as well is what the code   *)
(* does and not what rewards.md says: OnlyFinishersAreRewarded.            *)
SettlementSharesThePool ==
    [][ LET cs == clients_state
            pool == cs.current_epoch_rates.earning_rate_total_shared
            Paid(c) == clients_state'.earned[c] - cs.earned[c]
            Fined(c) == clients_state'.slashed[c] - cs.slashed[c]
            completed == coordinator.run_state = "Cooldown" /\ coordinator'.run_state # "Cooldown"
            aborted == coordinator.run_state = "Warmup" /\ coordinator'.run_state \in
                           {"WaitingForMembers", "Finished"}
            share == pool \div Cardinality(coordinator'.clients)
        IN  /\ SumEarned(clients_state') - SumEarned(cs) \in 0 .. pool
            /\ \A c \in Client : Paid(c) = 0 \/ Fined(c) = 0
            /\ (\E c \in Client : Paid(c) # 0 \/ Fined(c) # 0) => completed \/ aborted
            /\ completed /\ ~coordinator.pending_pause =>
                  \A c \in Client :
                      Paid(c) = IF c \in coordinator'.clients THEN share ELSE 0
      ]_vars

(* The rates an epoch is settled at are the ones announced when its warmup *)
(* began: set_future_epoch_rates never reaches an epoch under way.         *)
RatesFixedDuringEpoch ==
    [][ coordinator.run_state \in Training \cup {"Warmup", "Cooldown"} =>
            clients_state'.current_epoch_rates = clients_state.current_epoch_rates
      ]_vars

(* No batch of data is trained twice or skipped: a round starts where the  *)
(* latest one ended, across rounds, epochs, aborted warmups and pauses     *)
(* (start_round_train and the epoch_start_data_index of tick_cooldown).    *)
DataIsContiguous ==
    [][ coordinator.run_state # "RoundTrain" /\ coordinator'.run_state = "RoundTrain"
        => current_round(coordinator').data_index = hist.data_end ]_vars

(* A peer-to-peer checkpoint at the start of a warmup means somebody in    *)
(* the new roster finished the last completed epoch and holds the model    *)
(* (the all_prev_clients_disconnected test of tick_waiting_for_members).   *)
P2PHasAPeer ==
    [][ /\ coordinator.run_state = "WaitingForMembers"
        /\ coordinator'.run_state = "Warmup"
        /\ coordinator'.checkpoint \in {"P2P", "P2PGcs"}
        => coordinator'.clients \cap hist.holders # {} ]_vars

(* A phase takes time: in the second in which the run entered its present  *)
(* state it leaves it only by the authority's pause or resume, by the      *)
(* instruction that brings the last witness the phase waits for, or        *)
(* because the warmup lost too many clients.  However many ticks one       *)
(* second brings, none of them passes a phase by timeout, a configured     *)
(* time of 0 included (check_timeout, change_state).                       *)
AwaitsOneWitness(co) ==
    Cardinality(current_round(co).witnesses) + 1 = witness_nodes(co)

NoPhaseTimesOutAtOnce ==
    [][ coordinator.elapsed = 0 /\ coordinator'.run_state # coordinator.run_state =>
            \/ halted(coordinator) /\ coordinator'.run_state = "WaitingForMembers"
            \/ ~active(coordinator) /\ coordinator'.run_state = "Paused"
            \/ /\ <<coordinator.run_state, coordinator'.run_state>> \in
                      {<<"Warmup", "RoundTrain">>, <<"RoundTrain", "RoundWitness">>}
               /\ AwaitsOneWitness(coordinator)
               /\ ~Tick
            \/ /\ coordinator.run_state = "Warmup"
               /\ coordinator'.run_state = "WaitingForMembers"
               /\ Cardinality(coordinator'.clients) < coordinator.config.min_clients
      ]_vars

-----------------------------------------------------------------------------
(* Liveness, under FairSpec. *)

(* An epoch that starts always ends. *)
EpochEnds ==
    coordinator.run_state = "Warmup" ~>
        coordinator.run_state \in {"WaitingForMembers", "Finished", "Paused"}

(* A requested pause is eventually in force. *)
PauseHappens == coordinator.pending_pause ~> coordinator.run_state = "Paused"

-----------------------------------------------------------------------------
(* What documents and comments say, and the code does not do. *)

(* "Each client is rewarded at the end of an epoch if the client           *)
(* successfully completed the whole epoch" (rewards.md).                   *)
FinishersAreRewarded ==
    [][ coordinator.run_state = "Cooldown" /\ coordinator'.epoch # coordinator.epoch =>
            LET finishers == {c \in coordinator.clients :
                                  coordinator.state[c] = "Healthy"}
            IN  \A c \in finishers :
                    clients_state'.earned[c] = clients_state.earned[c] +
                        clients_state.current_epoch_rates.earning_rate_total_shared
                            \div Cardinality(finishers) ]_vars

(* The same sentence: nobody is rewarded for an epoch that was not         *)
(* completed.                                                              *)
OnlyFinishersAreRewarded ==
    [][ clients_state'.earned # clients_state.earned =>
            coordinator.run_state = "Cooldown" ]_vars

(* "an ejected client is moved into exited_clients at the epoch boundary,  *)
(* where the slashing rate is applied" (eject): by the time the epoch      *)
(* state is zeroed for a new epoch, every ejection has been charged.       *)
EjectionsAreCharged ==
    [][ coordinator.run_state = "WaitingForMembers" /\ coordinator'.run_state = "Warmup"
        => \A c \in Client : hist.uncharged[c] = 0 ]_vars

(* "every client witnesses once, from its own index" (the test             *)
(* warmup_witness_index.rs): in warmup, a client that has not sent its     *)
(* witness is not refused as a duplicate, nor by an out-of-bounds read.    *)
EveryClientMayWitnessWarmup ==
    coordinator.run_state = "Warmup" =>
        \A c \in coordinator.clients :
            (\A w \in current_round(coordinator).witnesses : w.from # c)
                => NotDuplicate(coordinator, c)

(* MoreClientsThanBatches, "There are more clients than total number of    *)
(* batches to assign": a client is admitted to the permanent list only     *)
(* while every client can be given a batch.                                *)
NoMoreClientsThanBatches ==
    [][ clients_state'.clients > clients_state.clients =>
            clients_state'.clients <= coordinator.config.global_batch_size_end ]_vars
=============================================================================
