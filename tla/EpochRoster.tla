---------------------------- MODULE EpochRoster ----------------------------
(***************************************************************************)
(* What the treasurer's disputes rely on of a coordinator: which clients   *)
(* are in the epoch and in what state, which round is current and from     *)
(* which draw its committees come.  An abstract specification, implemented *)
(* by CoordinatorInstance (see CoordinatorRefinement).                     *)
(*                                                                         *)
(* Compared with the coordinator it forgets witnesses, data, steps, time   *)
(* and rewards: a round, a warmup or an epoch may end at any moment.       *)
(***************************************************************************)
EXTENDS CommitteeSelection

CONSTANTS
    MaxClients,     \* capacity of the client lists
    Seeds,          \* random seeds a round may be given
    Elections,      \* the parts of a configuration that move the roster
    Epochs          \* epoch numbers the authority may install

VARIABLE view

Client == 1 .. MaxClients

ClientState == {"Healthy", "Dropped", "Withdrawn", "Ejected"}

(* halted: Uninitialized or Paused; training: RoundTrain or RoundWitness. *)
Phase == {"halted", "finished", "waiting", "warmup", "training", "cooldown"}

Election == [init_min_clients : Nat, min_clients : Nat, witness_nodes : Nat,
             verification_percent : Nat]

ASSUME RosterAssumption ==
    /\ MaxClients \in Nat
    /\ Seeds \subseteq Nat
    /\ Elections \subseteq Election
    /\ Epochs \subseteq Nat

ZeroElection == [init_min_clients |-> 0, min_clients |-> 0,
                 witness_nodes |-> 0, verification_percent |-> 0]

RosterInit ==
    view = [phase |-> "halted", config |-> ZeroElection, epoch |-> 0,
            height |-> 0, random_seed |-> 0, clients_len |-> 0,
            clients |-> {}, state |-> <<>>]

View == [phase : Phase, config : Election, epoch : Nat, height : Nat,
         random_seed : Nat, clients_len : Nat, clients : SUBSET Client,
         state : UNION {[S -> ClientState] : S \in SUBSET Client}]

RosterTypeOK == view \in View /\ view.state \in [view.clients -> ClientState]

-----------------------------------------------------------------------------
Healthy(v) == {c \in v.clients : v.state[c] = "Healthy"}

(* move_clients_to_exited *)
Compacted(v) ==
    [v EXCEPT !.clients = Healthy(v), !.state = [c \in Healthy(v) |-> "Healthy"]]

(* withdraw_all *)
Withdrawn(v) ==
    [v EXCEPT !.state = [c \in v.clients |->
        IF v.state[c] = "Healthy" THEN "Withdrawn" ELSE v.state[c]]]

(* What an accepted health check may leave; none is accepted before the    *)
(* round of height 2.                                                      *)
Reported(v) ==
    {v} \cup {[v EXCEPT !.state[c] = "Dropped"] :
                  c \in IF v.height >= 2 THEN Healthy(v) ELSE {}}

Enough(v) == Cardinality(v.clients) >= v.config.min_clients

(* start_round_train *)
Drawn(v, seed) ==
    [v EXCEPT !.phase = "training", !.random_seed = seed,
              !.clients_len = Cardinality(v.clients)]

-----------------------------------------------------------------------------
Report ==
    /\ view.phase \notin {"halted", "finished"}
    /\ view' \in Reported(view)

(* tick_waiting_for_members: a new roster; the stored rounds are zeroed. *)
Gather(clients) ==
    /\ view.phase = "waiting"
    /\ Cardinality(clients) >= view.config.init_min_clients
    /\ view' = [view EXCEPT !.phase = "warmup",
                    !.height = 0, !.random_seed = 0, !.clients_len = 0,
                    !.clients = clients,
                    !.state = [c \in clients |-> "Healthy"]]

(* tick_warmup, before its time is up and when it is up *)
Compact ==
    /\ view.phase = "warmup"
    /\ view' = [Compacted(view) EXCEPT
                   !.phase = IF Enough(Compacted(view)) THEN @ ELSE "waiting"]

Start(seed) ==
    /\ view.phase = "warmup"
    /\ view' = Drawn(view, seed)

(* tick_round_witness, from what a health check in the same transaction    *)
(* may have left.                                                          *)
NextRound(seed) ==
    /\ view.phase = "training"
    /\ \E v \in Reported(view) :
          /\ Enough(Compacted(v))
          /\ view' = [Drawn(Compacted(v), seed) EXCEPT !.height = v.height + 1]

Stop ==
    /\ view.phase = "training"
    /\ \E v \in Reported(view) :
          view' \in {[w EXCEPT !.phase = "cooldown"] :
                        w \in {Compacted(v), Withdrawn(Compacted(v))}}

(* tick_cooldown: wait again, finish, or serve a pending pause *)
Close ==
    /\ view.phase = "cooldown"
    /\ \E v \in Reported(view) :
          LET closed == [Compacted(v) EXCEPT !.epoch = @ + 1]
          IN  view' \in {[closed EXCEPT !.phase = "waiting"],
                         [closed EXCEPT !.phase = "finished"],
                         [Withdrawn(closed) EXCEPT !.phase = "halted"]}

(* pause, outside an active epoch *)
Pause ==
    /\ view.phase \in {"waiting", "warmup"}
    /\ view' = [Withdrawn(view) EXCEPT !.phase = "halted"]

(* resume, with a configuration that passes its check; there may be no     *)
(* steps left to train                                                     *)
Resume ==
    /\ view.phase = "halted"
    /\ view.config.min_clients > 0
    /\ view' \in {[view EXCEPT !.phase = phase] : phase \in {"waiting", "finished"}}

(* update, on a halted run *)
Update(config, epoch) ==
    /\ view.phase = "halted"
    /\ view' = [view EXCEPT !.config = config, !.epoch = epoch]

(* slash_client *)
eject_ok(c) == c \in view.clients /\ view.state[c] \in {"Healthy", "Dropped"}
Eject(c) == eject_ok(c) /\ view' = [view EXCEPT !.state[c] = "Ejected"]

(* What the coordinator does without the treasurer's disputes. *)
RosterMoves ==
    \/ Report
    \/ \E clients \in SUBSET Client : Gather(clients)
    \/ Compact
    \/ \E seed \in Seeds : Start(seed) \/ NextRound(seed)
    \/ Stop
    \/ Close
    \/ Pause
    \/ Resume
    \/ \E config \in Elections \cup {view.config}, epoch \in Epochs \cup {view.epoch} :
          Update(config, epoch)

RosterNext == RosterMoves \/ \E c \in Client : Eject(c)

RosterSpec == RosterInit /\ [][RosterNext]_view
=============================================================================
