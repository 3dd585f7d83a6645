----------------------- MODULE CoordinatorRefinement -----------------------
(***************************************************************************)
(* CoordinatorInstance implements EpochRoster: what the treasurer's        *)
(* disputes see of a run moves only as EpochRoster says, whatever          *)
(* instruction moves it.                                                   *)
(***************************************************************************)
EXTENDS CoordinatorInstance

PhaseOf(run_state) ==
    CASE run_state = "WaitingForMembers" -> "waiting"
      [] run_state = "Warmup" -> "warmup"
      [] run_state \in Training -> "training"
      [] run_state = "Cooldown" -> "cooldown"
      [] run_state = "Finished" -> "finished"
      [] OTHER -> "halted"

ElectionOf(config) == [init_min_clients |-> config.init_min_clients,
                       min_clients |-> config.min_clients,
                       witness_nodes |-> config.witness_nodes,
                       verification_percent |-> config.verification_percent]

ViewOf(co) ==
    [phase |-> PhaseOf(co.run_state), config |-> ElectionOf(co.config),
     epoch |-> co.epoch, height |-> current_round(co).height,
     random_seed |-> current_round(co).random_seed,
     clients_len |-> current_round(co).clients_len,
     clients |-> co.clients, state |-> [c \in co.clients |-> co.state[c]]]

Roster == INSTANCE EpochRoster WITH
    view <- ViewOf(coordinator),
    Elections <- {ElectionOf(config) : config \in Configs},
    Epochs <- {progress.epoch : progress \in Progresses}

(* Every instruction changes the clients, their states, the current round  *)
(* and the epoch the way EpochRoster allows: the roster shrinks only       *)
(* between rounds and only by clients that are not healthy, a draw is over *)
(* the whole roster, and nothing but slash_client ejects.                  *)
ImplementsRoster == Roster!RosterSpec
=============================================================================
