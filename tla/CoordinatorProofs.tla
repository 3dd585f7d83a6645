------------------------- MODULE CoordinatorProofs -------------------------
(* What the methods of Coordinator preserve, for every coordinator state.  *)
EXTENDS Coordinator, FiniteSetTheorems, TLAPS

-----------------------------------------------------------------------------
(* The inductive invariant of a coordinator, part by part. *)

ConfigInv(co) == co.run_state # "Uninitialized" => check_config(co.config)

RosterInv(co) ==
    /\ co.run_state \in Training \cup {"Warmup"} =>
          Cardinality(co.clients) >= co.config.min_clients
    /\ co.run_state \in Training =>
          current_round(co).clients_len = Cardinality(co.clients)

PartitionInv(co) ==
    /\ co.clients \cap co.exited_clients = {}
    /\ \A c \in co.exited_clients : co.state[c] # "Healthy"

RingInv(co) ==
    /\ co.rounds_head = current_round(co).height % NUM_STORED_ROUNDS
    /\ \A back \in 0 .. NUM_STORED_ROUNDS - 1 :
          back <= current_round(co).height =>
              co.rounds[(current_round(co).height - back) % NUM_STORED_ROUNDS].height
                  = current_round(co).height - back

WitnessInv(co) ==
    co.run_state \in Training =>
        /\ \A w \in current_round(co).witnesses :
              w.from \in co.clients /\ w.index = Index(co.clients, w.from)
        /\ \A v, w \in current_round(co).witnesses : v.from = w.from => v = w

PreviousInv(co) == has_previous_round(co) => previous_round(co).witnesses # {}

PauseInv(co) == co.pending_pause => active(co)

StepInv(co) ==
    /\ co.run_state \in Training /\ last_step_set(co) => co.step < co.last_step
    /\ co.run_state \in Training \cup {"Warmup", "WaitingForMembers"} =>
          co.step < co.config.total_steps
    /\ co.run_state = "Warmup" => ~last_step_set(co) /\ co.first_round

CoInv(co) ==
    /\ co \in CoordinatorState
    /\ ConfigInv(co)
    /\ RosterInv(co)
    /\ PartitionInv(co)
    /\ RingInv(co)
    /\ WitnessInv(co)
    /\ PreviousInv(co)
    /\ PauseInv(co)
    /\ StepInv(co)

-----------------------------------------------------------------------------
(* A set of clients is finite and counts to a natural number. *)
LEMMA ClientsFinite ==
    ASSUME NEW S \in SUBSET Client
    PROVE  IsFiniteSet(S) /\ Cardinality(S) \in Nat
<1>1. IsFiniteSet(Client)
  BY FS_Interval, CoordinatorAssumption DEF Client
<1>2. IsFiniteSet(S)
  BY <1>1, FS_Subset
<1> QED
  BY <1>2, FS_CardinalityType

(* change_state writes the run state and its start time, nothing else. *)
LEMMA ChangeStateFields ==
    ASSUME NEW co \in CoordinatorState, NEW s \in RunState
    PROVE  LET n == change_state(co, s)
           IN  /\ n \in CoordinatorState
               /\ n.run_state = s /\ n.elapsed = 0
               /\ n.config = co.config /\ n.checkpoint = co.checkpoint
               /\ n.epoch = co.epoch /\ n.step = co.step
               /\ n.epoch_start_data_index = co.epoch_start_data_index
               /\ n.rounds = co.rounds /\ n.rounds_head = co.rounds_head
               /\ n.clients = co.clients /\ n.exited_clients = co.exited_clients
               /\ n.state = co.state /\ n.last_step = co.last_step
               /\ n.first_round = co.first_round
               /\ n.pending_pause = co.pending_pause
BY DEF change_state, CoordinatorState

(* move_clients_to_exited writes the two client lists, nothing else. *)
LEMMA MoveClientsFields ==
    ASSUME NEW co \in CoordinatorState
    PROVE  LET n == move_clients_to_exited(co)
               healthy == {c \in co.clients : co.state[c] = "Healthy"}
           IN  /\ n \in CoordinatorState
               /\ n.run_state = co.run_state /\ n.elapsed = co.elapsed
               /\ n.config = co.config /\ n.checkpoint = co.checkpoint
               /\ n.epoch = co.epoch /\ n.step = co.step
               /\ n.epoch_start_data_index = co.epoch_start_data_index
               /\ n.rounds = co.rounds /\ n.rounds_head = co.rounds_head
               /\ n.clients = healthy
               /\ n.exited_clients = co.exited_clients \cup (co.clients \ healthy)
               /\ n.state = co.state /\ n.last_step = co.last_step
               /\ n.first_round = co.first_round
               /\ n.pending_pause = co.pending_pause
BY DEF move_clients_to_exited, CoordinatorState

(* withdraw_all writes the state of the healthy clients, nothing else. *)
LEMMA WithdrawAllFields ==
    ASSUME NEW co \in CoordinatorState
    PROVE  LET n == withdraw_all(co)
           IN  /\ n \in CoordinatorState
               /\ n.run_state = co.run_state /\ n.elapsed = co.elapsed
               /\ n.config = co.config /\ n.checkpoint = co.checkpoint
               /\ n.epoch = co.epoch /\ n.step = co.step
               /\ n.epoch_start_data_index = co.epoch_start_data_index
               /\ n.rounds = co.rounds /\ n.rounds_head = co.rounds_head
               /\ n.clients = co.clients /\ n.exited_clients = co.exited_clients
               /\ \A c \in Client : n.state[c] =
                     IF c \in co.clients /\ co.state[c] = "Healthy"
                     THEN "Withdrawn" ELSE co.state[c]
               /\ n.last_step = co.last_step
               /\ n.first_round = co.first_round
               /\ n.pending_pause = co.pending_pause
BY DEF withdraw_all, CoordinatorState, ClientState

(* The batch size of a valid configuration is a natural number. *)
LEMMA BatchSizeType ==
    ASSUME NEW cfg \in CoordinatorConfig, check_config(cfg), NEW t \in Nat
    PROVE  get_batch_size(cfg, t) \in Nat
<1> DEFINE s == cfg.global_batch_size_start
           e == cfg.global_batch_size_end
           w == cfg.global_batch_size_warmup_tokens
<1>1. s \in Nat /\ e \in Nat /\ w \in Nat /\ s <= e
  BY DEF CoordinatorConfig, check_config
<1>2. CASE t >= w
  BY <1>1, <1>2 DEF get_batch_size
<1>3. CASE ~(t >= w)
  <2> HIDE DEF s, e, w
  <2>1. s * w \in Nat /\ (e - s) \in Nat
    BY <1>1
  <2>2. (e - s) * t \in Nat
    BY <2>1
  <2>3. 2 * (s * w + (e - s) * t) + w \in Nat /\ 2 * w \in Nat \ {0}
    BY <1>1, <1>3, <2>1, <2>2
  <2>4. \A a \in Nat, b \in Nat \ {0} : a \div b \in Nat
    OBVIOUS
  <2>5. (2 * (s * w + (e - s) * t) + w) \div (2 * w) \in Nat
    BY <2>3, <2>4
  <2> QED
    BY <1>3, <2>5 DEF get_batch_size, s, e, w
<1> QED
  BY <1>2, <1>3

(* start_round_train fills one slot of the ring and moves the head to it. *)
LEMMA StartRoundTrainFields ==
    ASSUME NEW co \in CoordinatorState, check_config(co.config), NEW seed \in Seeds
    PROVE  LET n == start_round_train(co, seed)
               head == IF co.first_round THEN 0
                       ELSE (co.rounds_head + 1) % NUM_STORED_ROUNDS
           IN  /\ n \in CoordinatorState
               /\ n.run_state = "RoundTrain" /\ n.elapsed = 0
               /\ n.config = co.config /\ n.checkpoint = co.checkpoint
               /\ n.epoch = co.epoch /\ n.step = co.step
               /\ n.epoch_start_data_index = co.epoch_start_data_index
               /\ head \in Slot /\ n.rounds_head = head
               /\ \A s \in Slot \ {head} : n.rounds[s] = co.rounds[s]
               /\ n.rounds[head].witnesses = {}
               /\ n.rounds[head].clients_len = Cardinality(co.clients)
               /\ n.rounds[head].height =
                     IF co.first_round THEN 0 ELSE current_round(co).height + 1
               /\ n.rounds[head].data_index =
                     IF co.first_round THEN co.epoch_start_data_index
                     ELSE current_round(co).data_index
                          + get_batch_size(co.config, current_round(co).data_index)
               /\ n.clients = co.clients /\ n.exited_clients = co.exited_clients
               /\ n.state = co.state /\ n.last_step = co.last_step
               /\ n.first_round = co.first_round
               /\ n.pending_pause = co.pending_pause
<1> DEFINE prev == current_round(co)
           head == IF co.first_round THEN 0
                   ELSE (co.rounds_head + 1) % NUM_STORED_ROUNDS
           data_index == IF co.first_round THEN co.epoch_start_data_index
                         ELSE prev.data_index + get_batch_size(co.config, prev.data_index)
           height == IF co.first_round THEN 0 ELSE prev.height + 1
           round == [witnesses |-> {}, data_index |-> data_index,
                     random_seed |-> seed, height |-> height,
                     clients_len |-> Cardinality(co.clients)]
           mid == [co EXCEPT !.rounds[head] = round, !.rounds_head = head]
<1>1. prev \in Round /\ co.config \in CoordinatorConfig
  BY DEF CoordinatorState, current_round
<1>2. prev.data_index \in Nat /\ prev.height \in Nat
  BY <1>1 DEF Round
<1>3. get_batch_size(co.config, prev.data_index) \in Nat
  BY <1>1, <1>2, BatchSizeType
<1>4. head \in Slot
  BY DEF CoordinatorState, Slot, NUM_STORED_ROUNDS
<1>5. data_index \in Nat /\ height \in Nat
  BY <1>2, <1>3 DEF CoordinatorState
<1>6. Cardinality(co.clients) \in Nat
  BY ClientsFinite DEF CoordinatorState
<1>7. round \in Round
  BY <1>5, <1>6 DEF Round
<1>8. [co.rounds EXCEPT ![head] = round] \in [Slot -> Round]
  BY <1>4, <1>7 DEF CoordinatorState
<1> HIDE DEF data_index, height, head
<1>9. /\ mid \in CoordinatorState
      /\ mid.config = co.config /\ mid.checkpoint = co.checkpoint
      /\ mid.epoch = co.epoch /\ mid.step = co.step
      /\ mid.epoch_start_data_index = co.epoch_start_data_index
      /\ mid.rounds_head = head
      /\ mid.rounds = [co.rounds EXCEPT ![head] = round]
      /\ mid.clients = co.clients /\ mid.exited_clients = co.exited_clients
      /\ mid.state = co.state /\ mid.last_step = co.last_step
      /\ mid.first_round = co.first_round
      /\ mid.pending_pause = co.pending_pause
  BY <1>4, <1>7, <1>8 DEF CoordinatorState
<1>10. start_round_train(co, seed) = change_state(mid, "RoundTrain")
  BY DEF start_round_train, head, data_index, height
<1>11. /\ \A s \in Slot \ {head} : mid.rounds[s] = co.rounds[s]
       /\ mid.rounds[head] = round
  BY <1>4, <1>9 DEF CoordinatorState
<1> HIDE DEF mid
<1>12. "RoundTrain" \in RunState
  BY DEF RunState
<1> DEFINE n == start_round_train(co, seed)
<1>13. /\ n \in CoordinatorState
       /\ n.run_state = "RoundTrain" /\ n.elapsed = 0
       /\ n.config = mid.config /\ n.checkpoint = mid.checkpoint
       /\ n.epoch = mid.epoch /\ n.step = mid.step
       /\ n.epoch_start_data_index = mid.epoch_start_data_index
       /\ n.rounds = mid.rounds /\ n.rounds_head = mid.rounds_head
       /\ n.clients = mid.clients /\ n.exited_clients = mid.exited_clients
       /\ n.state = mid.state /\ n.last_step = mid.last_step
       /\ n.first_round = mid.first_round
       /\ n.pending_pause = mid.pending_pause
  BY <1>9, <1>10, <1>12, ChangeStateFields
<1>14. /\ round.witnesses = {} /\ round.clients_len = Cardinality(co.clients)
       /\ round.height = height /\ round.data_index = data_index
  OBVIOUS
<1> HIDE DEF n, round
<1>15. /\ n \in CoordinatorState
       /\ n.run_state = "RoundTrain" /\ n.elapsed = 0
       /\ n.config = co.config /\ n.checkpoint = co.checkpoint
       /\ n.epoch = co.epoch /\ n.step = co.step
       /\ n.epoch_start_data_index = co.epoch_start_data_index
       /\ head \in Slot /\ n.rounds_head = head
       /\ \A s \in Slot \ {head} : n.rounds[s] = co.rounds[s]
       /\ n.rounds[head] = round
       /\ n.clients = co.clients /\ n.exited_clients = co.exited_clients
       /\ n.state = co.state /\ n.last_step = co.last_step
       /\ n.first_round = co.first_round
       /\ n.pending_pause = co.pending_pause
  BY <1>4, <1>9, <1>11, <1>13
<1> QED
  BY <1>14, <1>15 DEF n, head, data_index, height

(* start_cooldown empties the current round's witnesses and changes the state. *)
LEMMA StartCooldownFields ==
    ASSUME NEW co \in CoordinatorState
    PROVE  LET n == start_cooldown(co)
           IN  /\ n \in CoordinatorState
               /\ n.run_state = "Cooldown" /\ n.elapsed = 0
               /\ n.config = co.config /\ n.checkpoint = co.checkpoint
               /\ n.epoch = co.epoch /\ n.step = co.step
               /\ n.epoch_start_data_index = co.epoch_start_data_index
               /\ n.rounds_head = co.rounds_head
               /\ \A s \in Slot : /\ n.rounds[s].height = co.rounds[s].height
                                  /\ n.rounds[s].data_index = co.rounds[s].data_index
               /\ \A s \in Slot \ {co.rounds_head} : n.rounds[s] = co.rounds[s]
               /\ n.clients = co.clients /\ n.exited_clients = co.exited_clients
               /\ n.state = co.state /\ n.last_step = co.last_step
               /\ n.first_round = co.first_round
               /\ n.pending_pause = co.pending_pause
<1> DEFINE head == co.rounds_head
           round == [co.rounds[head] EXCEPT !.witnesses = {}]
           rounds == [co.rounds EXCEPT ![head] = round]
           mid == [co EXCEPT !.rounds = rounds]
<1>1. head \in Slot /\ co.rounds \in [Slot -> Round] /\ co.rounds[head] \in Round
  BY DEF CoordinatorState
<1>2. /\ round \in Round
      /\ round.height = co.rounds[head].height
      /\ round.data_index = co.rounds[head].data_index
  BY <1>1 DEF Round
<1> HIDE DEF round
<1>3. /\ rounds \in [Slot -> Round]
      /\ \A s \in Slot : /\ rounds[s].height = co.rounds[s].height
                         /\ rounds[s].data_index = co.rounds[s].data_index
      /\ \A s \in Slot \ {head} : rounds[s] = co.rounds[s]
  BY <1>1, <1>2
<1>4. start_cooldown(co) = change_state(mid, "Cooldown")
  BY DEF start_cooldown, round
<1> HIDE DEF rounds, head
<1>5. /\ mid \in CoordinatorState
      /\ mid.config = co.config /\ mid.checkpoint = co.checkpoint
      /\ mid.epoch = co.epoch /\ mid.step = co.step
      /\ mid.epoch_start_data_index = co.epoch_start_data_index
      /\ mid.rounds_head = co.rounds_head
      /\ mid.rounds = rounds
      /\ mid.clients = co.clients /\ mid.exited_clients = co.exited_clients
      /\ mid.state = co.state /\ mid.last_step = co.last_step
      /\ mid.first_round = co.first_round
      /\ mid.pending_pause = co.pending_pause
  BY <1>3 DEF CoordinatorState
<1> HIDE DEF mid
<1>6. "Cooldown" \in RunState
  BY DEF RunState
<1> QED
  BY <1>3, <1>4, <1>5, <1>6, ChangeStateFields DEF head

(* Storing a witness writes the current round's witnesses, nothing else. *)
LEMMA AddWitnessFields ==
    ASSUME NEW co \in CoordinatorState, NEW from \in Client,
           NEW bloom \in SUBSET Client
    PROVE  LET n == AddWitness(co, from, bloom)
               w == [from |-> from, index |-> Index(co.clients, from), bloom |-> bloom]
           IN  /\ n \in CoordinatorState
               /\ n.run_state = co.run_state /\ n.elapsed = co.elapsed
               /\ n.config = co.config /\ n.checkpoint = co.checkpoint
               /\ n.epoch = co.epoch /\ n.step = co.step
               /\ n.epoch_start_data_index = co.epoch_start_data_index
               /\ n.rounds_head = co.rounds_head
               /\ \A s \in Slot : /\ n.rounds[s].height = co.rounds[s].height
                                  /\ n.rounds[s].data_index = co.rounds[s].data_index
                                  /\ n.rounds[s].clients_len = co.rounds[s].clients_len
               /\ \A s \in Slot \ {co.rounds_head} : n.rounds[s] = co.rounds[s]
               /\ current_round(n).witnesses = current_round(co).witnesses \cup {w}
               /\ n.clients = co.clients /\ n.exited_clients = co.exited_clients
               /\ n.state = co.state /\ n.last_step = co.last_step
               /\ n.first_round = co.first_round
               /\ n.pending_pause = co.pending_pause
<1> DEFINE head == co.rounds_head
           w == [from |-> from, index |-> Index(co.clients, from), bloom |-> bloom]
           ws == co.rounds[head].witnesses \cup {w}
           round == [co.rounds[head] EXCEPT !.witnesses = ws]
           rounds == [co.rounds EXCEPT ![head] = round]
           n == [co EXCEPT !.rounds = rounds]
<1>1. head \in Slot /\ co.rounds \in [Slot -> Round] /\ co.rounds[head] \in Round
  BY DEF CoordinatorState
<1>2. Index(co.clients, from) \in Nat
  <2>1. {d \in co.clients : d < from} \in SUBSET Client
    BY DEF CoordinatorState
  <2> QED
    BY <2>1, ClientsFinite DEF Index
<1>3. w \in Witness
  BY <1>2 DEF Witness
<1> HIDE DEF w
<1>4. /\ round \in Round
      /\ round.witnesses = ws
      /\ round.height = co.rounds[head].height
      /\ round.data_index = co.rounds[head].data_index
      /\ round.clients_len = co.rounds[head].clients_len
  BY <1>1, <1>3 DEF Round
<1> HIDE DEF round
<1>5. /\ rounds \in [Slot -> Round]
      /\ \A s \in Slot : /\ rounds[s].height = co.rounds[s].height
                         /\ rounds[s].data_index = co.rounds[s].data_index
                         /\ rounds[s].clients_len = co.rounds[s].clients_len
      /\ \A s \in Slot \ {head} : rounds[s] = co.rounds[s]
      /\ rounds[head].witnesses = ws
  BY <1>1, <1>4
<1>6. AddWitness(co, from, bloom) = n
  BY DEF AddWitness, round, w
<1> HIDE DEF rounds, head
<1>7. /\ n \in CoordinatorState
      /\ n.run_state = co.run_state /\ n.elapsed = co.elapsed
      /\ n.config = co.config /\ n.checkpoint = co.checkpoint
      /\ n.epoch = co.epoch /\ n.step = co.step
      /\ n.epoch_start_data_index = co.epoch_start_data_index
      /\ n.rounds_head = co.rounds_head
      /\ n.rounds = rounds
      /\ n.clients = co.clients /\ n.exited_clients = co.exited_clients
      /\ n.state = co.state /\ n.last_step = co.last_step
      /\ n.first_round = co.first_round
      /\ n.pending_pause = co.pending_pause
  BY <1>5 DEF CoordinatorState
<1> HIDE DEF n
<1> QED
  BY <1>5, <1>6, <1>7 DEF head, w, current_round

-----------------------------------------------------------------------------
(* Parts of the invariant that only look at the stored rounds. *)

(* The ring invariant reads heights and the head only. *)
LEMMA RingStable ==
    ASSUME NEW co \in CoordinatorState, NEW n \in CoordinatorState,
           RingInv(co), n.rounds_head = co.rounds_head,
           \A s \in Slot : n.rounds[s].height = co.rounds[s].height
    PROVE  RingInv(n)
<1>1. co.rounds_head \in Slot /\ co.rounds[co.rounds_head] \in Round
  BY DEF CoordinatorState
<1>2. current_round(n).height = current_round(co).height
  BY <1>1 DEF current_round
<1>3. current_round(co).height \in Nat
  BY <1>1 DEF current_round, Round
<1>4. \A back \in 0 .. NUM_STORED_ROUNDS - 1 : back <= current_round(co).height =>
          (current_round(co).height - back) % NUM_STORED_ROUNDS \in Slot
  BY <1>3 DEF Slot, NUM_STORED_ROUNDS
<1> QED
  BY <1>2, <1>4 DEF RingInv

(* What is known of the previous round survives a change elsewhere. *)
LEMMA PreviousStable ==
    ASSUME NEW co \in CoordinatorState, NEW n \in CoordinatorState,
           PreviousInv(co), n.rounds_head = co.rounds_head,
           \A s \in Slot : n.rounds[s].height = co.rounds[s].height,
           \A s \in Slot \ {co.rounds_head} : n.rounds[s] = co.rounds[s]
    PROVE  PreviousInv(n)
<1>1. co.rounds_head \in Slot
  BY DEF CoordinatorState
<1>2. has_previous_round(n) <=> has_previous_round(co)
  BY <1>1 DEF has_previous_round, current_round
<1>3. previous_round(n) = previous_round(co)
  BY <1>1 DEF previous_round, Slot, NUM_STORED_ROUNDS
<1> QED
  BY <1>2, <1>3 DEF PreviousInv

(* A round may start from any state that has a large enough roster, whose  *)
(* last round, if there was one, was witnessed, and whose steps are not    *)
(* used up.                                                                *)
LEMMA StartRoundTrainInv ==
    ASSUME NEW co \in CoordinatorState, NEW seed \in Seeds,
           check_config(co.config), PartitionInv(co), RingInv(co),
           Cardinality(co.clients) >= co.config.min_clients,
           co.first_round \/ current_round(co).witnesses # {},
           co.step < co.config.total_steps,
           last_step_set(co) => co.step < co.last_step
    PROVE  CoInv(start_round_train(co, seed))
<1> DEFINE n == start_round_train(co, seed)
           head == IF co.first_round THEN 0
                   ELSE (co.rounds_head + 1) % NUM_STORED_ROUNDS
           h == current_round(co).height
<1>1. /\ n \in CoordinatorState
      /\ n.run_state = "RoundTrain"
      /\ n.config = co.config /\ n.step = co.step
      /\ head \in Slot /\ n.rounds_head = head
      /\ \A s \in Slot \ {head} : n.rounds[s] = co.rounds[s]
      /\ n.rounds[head].witnesses = {}
      /\ n.rounds[head].clients_len = Cardinality(co.clients)
      /\ n.rounds[head].height = IF co.first_round THEN 0 ELSE h + 1
      /\ n.clients = co.clients /\ n.exited_clients = co.exited_clients
      /\ n.state = co.state /\ n.last_step = co.last_step
  BY StartRoundTrainFields
<1> HIDE DEF n
<1>2. /\ co.rounds_head \in Slot /\ co.rounds[co.rounds_head] \in Round
      /\ co.first_round \in BOOLEAN
  BY DEF CoordinatorState
<1>3. h \in Nat /\ co.rounds_head = h % 4
  BY <1>2 DEF current_round, Round, RingInv, NUM_STORED_ROUNDS
<1> HIDE DEF h
<1>4. ConfigInv(n) /\ RosterInv(n) /\ PartitionInv(n) /\ WitnessInv(n)
  BY <1>1 DEF ConfigInv, RosterInv, PartitionInv, WitnessInv, current_round
<1>5. PauseInv(n) /\ StepInv(n)
  BY <1>1 DEF PauseInv, StepInv, active, last_step_set
<1>6. RingInv(n) /\ PreviousInv(n)
  <2>1. CASE co.first_round
    <3>1. n.rounds_head = 0 /\ current_round(n).height = 0 /\ n.rounds[0].height = 0
      BY <1>1, <2>1 DEF current_round
    <3>2. RingInv(n)
      <4>1. \A back \in 0 .. 3 : back <= 0 => (0 - back) % 4 = 0 /\ 0 - back = 0
        OBVIOUS
      <4> QED
        BY <3>1, <4>1 DEF RingInv, NUM_STORED_ROUNDS
    <3> QED
      BY <3>1, <3>2 DEF PreviousInv, has_previous_round
  <2>2. CASE ~co.first_round
    <3>1. head = (h + 1) % 4 /\ head # co.rounds_head
      BY <1>3, <2>2 DEF NUM_STORED_ROUNDS
    <3>2. n.rounds_head = (h + 1) % 4 /\ current_round(n).height = h + 1
      BY <1>1, <2>2, <3>1 DEF current_round
    <3>3. ASSUME NEW back \in 0 .. 3, back <= h + 1
          PROVE  n.rounds[(h + 1 - back) % 4].height = h + 1 - back
      <4>1. CASE back = 0
        BY <1>1, <1>3, <2>2, <3>1, <4>1
      <4>2. CASE back # 0
        <5>1. back - 1 \in 0 .. 3 /\ back - 1 <= h
          BY <1>3, <3>3, <4>2
        <5>2. co.rounds[(h - (back - 1)) % 4].height = h - (back - 1)
          BY <5>1 DEF RingInv, NUM_STORED_ROUNDS, h
        <5>3. h - (back - 1) = h + 1 - back
          BY <1>3
        <5>4. (h + 1 - back) % 4 \in Slot \ {(h + 1) % 4}
          BY <1>3, <3>3, <4>2 DEF Slot, NUM_STORED_ROUNDS
        <5> QED
          BY <1>1, <3>1, <5>2, <5>3, <5>4
      <4> QED
        BY <4>1, <4>2
    <3>4. RingInv(n)
      BY <1>3, <3>2, <3>3 DEF RingInv, NUM_STORED_ROUNDS
    <3>5. previous_round(n) = n.rounds[co.rounds_head]
      <4>1. \/ (h + 1) % 4 = 0 /\ h % 4 = 3
            \/ (h + 1) % 4 # 0 /\ ((h + 1) % 4) - 1 = h % 4
        BY <1>3
      <4> QED
        BY <1>3, <3>2, <4>1 DEF previous_round, NUM_STORED_ROUNDS
    <3>6. n.rounds[co.rounds_head] = current_round(co)
      BY <1>1, <1>2, <3>1 DEF current_round
    <3> QED
      BY <2>2, <3>4, <3>5, <3>6 DEF PreviousInv
  <2> QED
    BY <1>2, <2>1, <2>2
<1> QED
  BY <1>1, <1>4, <1>5, <1>6 DEF CoInv, n

-----------------------------------------------------------------------------
(* tick preserves the invariant, run state by run state. *)

(* init_min_clients pending clients are enough for min_clients. *)
LEMMA CardinalityAtLeastMin ==
    ASSUME NEW co \in CoordinatorState, check_config(co.config),
           NEW S \in SUBSET Client, Cardinality(S) >= co.config.init_min_clients
    PROVE  Cardinality(S) >= co.config.min_clients
BY ClientsFinite DEF check_config, CoordinatorState, CoordinatorConfig

(* tick_waiting_for_members preserves the invariant. *)
LEMMA TickWaitingForMembersInv ==
    ASSUME NEW co, CoInv(co), co.run_state = "WaitingForMembers",
           NEW pending \in SUBSET Client
    PROVE  CoInv(tick_waiting_for_members(co, pending))
<1> DEFINE n == tick_waiting_for_members(co, pending)
<1>1. co \in CoordinatorState /\ check_config(co.config)
  BY DEF CoInv, ConfigInv
<1>2. CASE /\ Cardinality(pending) >= co.config.init_min_clients
           /\ check_timeout(co, co.config.waiting_for_members_extra_time)
  <2>1. ZeroRound \in Round
    BY CoordinatorAssumption DEF ZeroRound, Round
  <2>2. [s \in Slot |-> ZeroRound] \in [Slot -> Round] /\ 0 \in Slot
    BY <2>1 DEF Slot, NUM_STORED_ROUNDS
  <2>3. /\ n \in CoordinatorState
        /\ n.run_state = "Warmup" /\ n.config = co.config /\ n.step = co.step
        /\ n.rounds = [s \in Slot |-> ZeroRound] /\ n.rounds_head = 0
        /\ n.clients = pending /\ n.exited_clients = {}
        /\ n.last_step = 0 /\ n.first_round = TRUE
        /\ n.pending_pause = co.pending_pause
    BY <1>1, <1>2, <2>2
    DEF tick_waiting_for_members, change_state, CoordinatorState, RunState,
        ClientState, Checkpoint
  <2> HIDE DEF n
  <2>4. current_round(n) = ZeroRound /\ ZeroRound.height = 0
    BY <2>2, <2>3 DEF current_round, ZeroRound
  <2>5. ConfigInv(n) /\ PartitionInv(n) /\ WitnessInv(n)
    BY <1>1, <2>3 DEF ConfigInv, PartitionInv, WitnessInv, Training
  <2>6. RosterInv(n)
    BY <1>1, <1>2, <2>3, CardinalityAtLeastMin DEF RosterInv, Training
  <2>7. RingInv(n)
    <3>1. \A back \in 0 .. 3 : back <= 0 => (0 - back) % 4 = 0 /\ 0 - back = 0
      OBVIOUS
    <3>2. n.rounds[0].height = 0
      BY <2>2, <2>3, <2>4
    <3> QED
      BY <2>3, <2>4, <3>1, <3>2 DEF RingInv, NUM_STORED_ROUNDS
  <2>8. PreviousInv(n)
    BY <2>3, <2>4 DEF PreviousInv, has_previous_round
  <2>9. PauseInv(n) /\ StepInv(n)
    BY <2>3 DEF CoInv, PauseInv, StepInv, active, Training, last_step_set
  <2> QED
    BY <2>3, <2>5, <2>6, <2>7, <2>8, <2>9 DEF CoInv, n
<1>3. CASE ~(/\ Cardinality(pending) >= co.config.init_min_clients
             /\ check_timeout(co, co.config.waiting_for_members_extra_time))
  BY <1>3 DEF tick_waiting_for_members
<1> QED
  BY <1>2, <1>3

(* Leaving the epoch keeps what does not depend on training. *)
LEMMA StartWaitingForMembersInv ==
    ASSUME NEW co \in CoordinatorState, check_config(co.config),
           PartitionInv(co), RingInv(co), PreviousInv(co), ~co.pending_pause
    PROVE  CoInv(start_waiting_for_members(co))
<1> DEFINE s == IF co.step < co.config.total_steps
                THEN "WaitingForMembers" ELSE "Finished"
           n == change_state(co, s)
<1>1. s \in RunState
  BY DEF RunState
<1>2. start_waiting_for_members(co) = n
  BY DEF start_waiting_for_members
<1> HIDE DEF s
<1>3. /\ n \in CoordinatorState
      /\ n.run_state = s /\ n.config = co.config /\ n.step = co.step
      /\ n.rounds = co.rounds /\ n.rounds_head = co.rounds_head
      /\ n.clients = co.clients /\ n.exited_clients = co.exited_clients
      /\ n.state = co.state /\ n.last_step = co.last_step
      /\ n.pending_pause = co.pending_pause
  BY <1>1, ChangeStateFields
<1> HIDE DEF n
<1>4. RingInv(n) /\ PreviousInv(n)
  BY <1>3, RingStable, PreviousStable
<1>5. /\ ConfigInv(n) /\ RosterInv(n) /\ PartitionInv(n) /\ WitnessInv(n)
      /\ PauseInv(n) /\ StepInv(n)
  BY <1>3 DEF ConfigInv, RosterInv, PartitionInv, WitnessInv, PauseInv, StepInv,
              Training, s
<1> QED
  BY <1>2, <1>3, <1>4, <1>5 DEF CoInv

(* Moving the clients that left keeps the two lists apart. *)
LEMMA MoveClientsPartition ==
    ASSUME NEW co \in CoordinatorState, PartitionInv(co)
    PROVE  PartitionInv(move_clients_to_exited(co))
BY MoveClientsFields DEF PartitionInv

(* tick_warmup preserves the invariant. *)
LEMMA TickWarmupInv ==
    ASSUME NEW co, CoInv(co), co.run_state = "Warmup", NEW seed \in Seeds
    PROVE  CoInv(tick_warmup(co, seed).co)
<1>1. /\ co \in CoordinatorState /\ check_config(co.config)
      /\ PartitionInv(co) /\ RingInv(co) /\ PreviousInv(co)
      /\ Cardinality(co.clients) >= co.config.min_clients
      /\ co.first_round /\ ~last_step_set(co) /\ ~co.pending_pause
      /\ co.step < co.config.total_steps
  BY DEF CoInv, ConfigInv, RosterInv, PauseInv, StepInv, active, Training
<1>2. /\ Cardinality(co.clients) \in Nat /\ co.config.min_clients \in Nat
  BY <1>1, ClientsFinite DEF CoordinatorState, CoordinatorConfig
<1>3. CASE check_timeout(co, co.config.warmup_time)
  <2> DEFINE n == start_round_train(co, seed)
  <2>1. CoInv(n)
    BY <1>1, StartRoundTrainInv
  <2>2. n.clients = co.clients
    BY <1>1, StartRoundTrainFields
  <2> HIDE DEF n
  <2>3. ~(Cardinality(n.clients) < co.config.min_clients)
    BY <1>1, <1>2, <2>2
  <2>4. tick_warmup(co, seed).co = n
    BY <1>3, <2>3 DEF tick_warmup, n
  <2> QED
    BY <2>1, <2>4
<1>4. CASE ~check_timeout(co, co.config.warmup_time)
  <2> DEFINE m == move_clients_to_exited(co)
  <2>1. /\ m \in CoordinatorState
        /\ m.run_state = co.run_state /\ m.config = co.config /\ m.step = co.step
        /\ m.rounds = co.rounds /\ m.rounds_head = co.rounds_head
        /\ m.last_step = co.last_step /\ m.first_round = co.first_round
        /\ m.pending_pause = co.pending_pause
    BY <1>1, MoveClientsFields
  <2>2. PartitionInv(m)
    BY <1>1, MoveClientsPartition
  <2> HIDE DEF m
  <2>3. RingInv(m) /\ PreviousInv(m)
    BY <1>1, <2>1, RingStable, PreviousStable
  <2>4. CASE Cardinality(m.clients) < co.config.min_clients
    <3>1. tick_warmup(co, seed).co = start_waiting_for_members(m)
      BY <1>4, <2>4 DEF tick_warmup, m
    <3> QED
      BY <1>1, <2>1, <2>2, <2>3, <3>1, StartWaitingForMembersInv
  <2>5. CASE ~(Cardinality(m.clients) < co.config.min_clients)
    <3>1. tick_warmup(co, seed).co = m
      BY <1>4, <2>5 DEF tick_warmup, m
    <3>2. Cardinality(m.clients) \in Nat
      BY <2>1, ClientsFinite DEF CoordinatorState
    <3>3. ConfigInv(m) /\ RosterInv(m) /\ WitnessInv(m)
      BY <1>1, <1>2, <2>1, <2>5, <3>2 DEF ConfigInv, RosterInv, WitnessInv, Training
    <3>4. PauseInv(m) /\ StepInv(m)
      BY <1>1, <2>1 DEF PauseInv, StepInv, Training, last_step_set
    <3> QED
      BY <2>1, <2>2, <2>3, <3>1, <3>3, <3>4 DEF CoInv
  <2> QED
    BY <2>4, <2>5
<1> QED
  BY <1>3, <1>4

(* The change from RoundTrain to RoundWitness preserves the invariant. *)
LEMMA ToRoundWitnessInv ==
    ASSUME NEW co, CoInv(co), co.run_state = "RoundTrain"
    PROVE  CoInv(change_state(co, "RoundWitness"))
<1> DEFINE n == change_state(co, "RoundWitness")
<1>1. co \in CoordinatorState /\ "RoundWitness" \in RunState
  BY DEF CoInv, RunState
<1>2. /\ n \in CoordinatorState
      /\ n.run_state = "RoundWitness" /\ n.config = co.config /\ n.step = co.step
      /\ n.rounds = co.rounds /\ n.rounds_head = co.rounds_head
      /\ n.clients = co.clients /\ n.exited_clients = co.exited_clients
      /\ n.state = co.state /\ n.last_step = co.last_step
      /\ n.pending_pause = co.pending_pause
  BY <1>1, ChangeStateFields
<1> HIDE DEF n
<1>3. RingInv(n) /\ PreviousInv(n)
  BY <1>1, <1>2, RingStable, PreviousStable DEF CoInv
<1>4. current_round(n) = current_round(co)
  BY <1>2 DEF current_round
<1>5. /\ ConfigInv(n) /\ RosterInv(n) /\ PartitionInv(n) /\ WitnessInv(n)
      /\ PauseInv(n) /\ StepInv(n)
  BY <1>2, <1>4 DEF CoInv, ConfigInv, RosterInv, PartitionInv, WitnessInv,
                    PauseInv, StepInv, Training, active, last_step_set
<1> QED
  BY <1>2, <1>3, <1>5 DEF CoInv, n

(* start_cooldown preserves the invariant. *)
LEMMA StartCooldownInv ==
    ASSUME NEW co \in CoordinatorState, check_config(co.config),
           PartitionInv(co), RingInv(co), PreviousInv(co)
    PROVE  CoInv(start_cooldown(co))
<1> DEFINE n == start_cooldown(co)
<1>1. /\ n \in CoordinatorState
      /\ n.run_state = "Cooldown" /\ n.config = co.config
      /\ n.rounds_head = co.rounds_head
      /\ \A s \in Slot : n.rounds[s].height = co.rounds[s].height
      /\ \A s \in Slot \ {co.rounds_head} : n.rounds[s] = co.rounds[s]
      /\ n.clients = co.clients /\ n.exited_clients = co.exited_clients
      /\ n.state = co.state
  BY StartCooldownFields
<1> HIDE DEF n
<1>2. RingInv(n) /\ PreviousInv(n)
  BY <1>1, RingStable, PreviousStable
<1>3. /\ ConfigInv(n) /\ RosterInv(n) /\ PartitionInv(n) /\ WitnessInv(n)
      /\ PauseInv(n) /\ StepInv(n)
  BY <1>1 DEF ConfigInv, RosterInv, PartitionInv, WitnessInv, PauseInv, StepInv,
              Training, active
<1> QED
  BY <1>1, <1>2, <1>3 DEF CoInv, n

(* SetLastStep writes last_step, nothing else. *)
LEMMA SetLastStepFields ==
    ASSUME NEW co \in CoordinatorState
    PROVE  LET n == SetLastStep(co)
           IN  /\ n \in CoordinatorState
               /\ n.config = co.config /\ n.step = co.step
               /\ n.rounds = co.rounds /\ n.rounds_head = co.rounds_head
               /\ n.clients = co.clients /\ n.exited_clients = co.exited_clients
               /\ n.state = co.state /\ n.first_round = co.first_round
               /\ n.epoch = co.epoch /\ n.checkpoint = co.checkpoint
               /\ n.epoch_start_data_index = co.epoch_start_data_index
               /\ n.last_step = co.last_step \/ n.last_step = co.step + 2
BY DEF SetLastStep, CoordinatorState

(* tick_round_witness preserves the invariant. *)
LEMMA TickRoundWitnessInv ==
    ASSUME NEW co, CoInv(co), co.run_state = "RoundWitness", NEW seed \in Seeds
    PROVE  CoInv(tick_round_witness(co, seed))
<1> DEFINE num == Cardinality(current_round(co).witnesses)
           step == co.step + 1
           stepped == [co EXCEPT !.first_round = FALSE, !.step = step]
           moved == move_clients_to_exited(stepped)
           next == SetLastStep(moved)
<1>1. /\ co \in CoordinatorState /\ check_config(co.config)
      /\ PartitionInv(co) /\ RingInv(co) /\ PreviousInv(co)
      /\ last_step_set(co) => co.step < co.last_step
      /\ co.step < co.config.total_steps
  BY DEF CoInv, ConfigInv, StepInv, Training
<1>0. step \in Nat
  BY <1>1 DEF CoordinatorState
<1> HIDE DEF step
<1>2. /\ stepped \in CoordinatorState
      /\ stepped.config = co.config /\ stepped.step = step
      /\ stepped.rounds = co.rounds /\ stepped.rounds_head = co.rounds_head
      /\ stepped.clients = co.clients /\ stepped.exited_clients = co.exited_clients
      /\ stepped.state = co.state /\ stepped.last_step = co.last_step
      /\ stepped.first_round = FALSE
  BY <1>0, <1>1 DEF CoordinatorState
<1>3. PartitionInv(stepped)
  BY <1>1, <1>2 DEF PartitionInv
<1> HIDE DEF stepped
<1> USE DEF step
<1>4. /\ moved \in CoordinatorState
      /\ moved.config = co.config /\ moved.step = co.step + 1
      /\ moved.rounds = co.rounds /\ moved.rounds_head = co.rounds_head
      /\ moved.last_step = co.last_step /\ moved.first_round = FALSE
      /\ PartitionInv(moved)
  BY <1>2, <1>3, MoveClientsFields, MoveClientsPartition
<1> HIDE DEF moved
<1>5. RingInv(moved) /\ PreviousInv(moved)
  BY <1>1, <1>4, RingStable, PreviousStable
<1>6. CASE ~check_timeout(co, co.config.round_witness_time)
  BY <1>6 DEF tick_round_witness
<1>7. CASE check_timeout(co, co.config.round_witness_time) /\ num = 0
  <2> DEFINE w == withdraw_all(moved)
  <2>1. /\ w \in CoordinatorState /\ w.config = co.config
        /\ w.rounds = moved.rounds /\ w.rounds_head = moved.rounds_head
    BY <1>4, WithdrawAllFields
  <2>2. PartitionInv(w)
    <3>1. moved.exited_clients \in SUBSET Client
      BY <1>4 DEF CoordinatorState
    <3> QED
      BY <1>4, <3>1, WithdrawAllFields DEF PartitionInv
  <2>3. tick_round_witness(co, seed) = start_cooldown(w)
    BY <1>7 DEF tick_round_witness, moved, stepped
  <2> HIDE DEF w
  <2>4. RingInv(w) /\ PreviousInv(w)
    BY <1>4, <1>5, <2>1, RingStable, PreviousStable
  <2> QED
    BY <1>1, <2>1, <2>2, <2>3, <2>4, StartCooldownInv
<1>8. CASE check_timeout(co, co.config.round_witness_time) /\ num # 0
  <2>1. /\ next \in CoordinatorState
        /\ next.config = co.config /\ next.step = co.step + 1
        /\ next.rounds = moved.rounds /\ next.rounds_head = moved.rounds_head
        /\ next.clients = moved.clients /\ next.exited_clients = moved.exited_clients
        /\ next.state = moved.state /\ next.first_round = FALSE
        /\ next.last_step = co.last_step \/ next.last_step = co.step + 3
    <3>1. co.step \in Nat
      BY <1>1 DEF CoordinatorState
    <3> QED
      BY <1>4, <3>1, SetLastStepFields
  <2>2. tick_round_witness(co, seed) =
            IF EndsEpoch(next, num) THEN start_cooldown(next)
            ELSE start_round_train(next, seed)
    BY <1>8 DEF tick_round_witness, next, moved, stepped
  <2> HIDE DEF next
  <2>3. PartitionInv(next)
    BY <1>4, <2>1 DEF PartitionInv
  <2>4. RingInv(next) /\ PreviousInv(next)
    BY <1>4, <1>5, <2>1, RingStable, PreviousStable
  <2>5. CASE EndsEpoch(next, num)
    BY <1>1, <2>1, <2>2, <2>3, <2>4, <2>5, StartCooldownInv
  <2>6. CASE ~EndsEpoch(next, num)
    <3>1. /\ ~(last_step_set(next) /\ next.step = next.last_step)
          /\ ~(Cardinality(next.clients) < next.config.min_clients)
          /\ ~(next.step >= next.config.total_steps)
      BY <2>6 DEF EndsEpoch
    <3>2. /\ next.step \in Nat /\ next.last_step \in Nat
          /\ co.step \in Nat /\ co.last_step \in Nat
          /\ next.config.total_steps \in Nat /\ next.config.min_clients \in Nat
          /\ Cardinality(next.clients) \in Nat
      BY <1>1, <2>1, ClientsFinite DEF CoordinatorState, CoordinatorConfig
    <3>3. /\ next.step < next.config.total_steps
          /\ Cardinality(next.clients) >= next.config.min_clients
      BY <3>1, <3>2
    <3>4. last_step_set(next) => next.step < next.last_step
      BY <1>1, <2>1, <3>1, <3>2 DEF last_step_set
    <3>5. current_round(next).witnesses # {}
      <4>1. current_round(next) = current_round(co)
        BY <1>4, <2>1 DEF current_round
      <4> QED
        BY <1>8, <4>1, FS_EmptySet
    <3> QED
      BY <1>1, <2>1, <2>2, <2>3, <2>4, <2>6, <3>3, <3>4, <3>5, StartRoundTrainInv
  <2> QED
    BY <2>5, <2>6
<1> QED
  BY <1>6, <1>7, <1>8

(* tick_cooldown preserves the invariant. *)
LEMMA TickCooldownInv ==
    ASSUME NEW co, CoInv(co), co.run_state = "Cooldown"
    PROVE  CoInv(tick_cooldown(co).co)
<1> DEFINE last == current_round(co)
           start == last.data_index + get_batch_size(co.config, last.data_index)
           epoch == co.epoch + 1
           kept == CASE co.checkpoint \in {"Hub", "Dummy"} -> "P2P"
                     [] co.checkpoint = "Gcs" -> "P2PGcs"
                     [] OTHER -> co.checkpoint
           mid == [co EXCEPT
                    !.epoch_start_data_index = start, !.epoch = epoch,
                    !.checkpoint = kept]
           moved == move_clients_to_exited(mid)
<1>1. /\ co \in CoordinatorState /\ check_config(co.config)
      /\ PartitionInv(co) /\ RingInv(co) /\ PreviousInv(co)
  BY DEF CoInv, ConfigInv
<1>2. start \in Nat /\ epoch \in Nat /\ kept \in Checkpoint
  <2>1. last.data_index \in Nat /\ co.config \in CoordinatorConfig
    BY <1>1 DEF CoordinatorState, current_round, Round
  <2> QED
    BY <1>1, <2>1, BatchSizeType DEF CoordinatorState, Checkpoint
<1> HIDE DEF start, epoch, kept
<1>3. /\ mid \in CoordinatorState
      /\ mid.config = co.config
      /\ mid.rounds = co.rounds /\ mid.rounds_head = co.rounds_head
      /\ mid.clients = co.clients /\ mid.exited_clients = co.exited_clients
      /\ mid.state = co.state /\ mid.pending_pause = co.pending_pause
  BY <1>1, <1>2 DEF CoordinatorState
<1>4. PartitionInv(mid)
  BY <1>1, <1>3 DEF PartitionInv
<1>5. tick_cooldown(co).co =
          IF ~check_timeout(co, co.config.cooldown_time) THEN co
          ELSE IF co.pending_pause
          THEN [change_state(withdraw_all(moved), "Paused") EXCEPT
                   !.pending_pause = FALSE, !.cold_start_epoch = TRUE]
          ELSE [start_waiting_for_members(moved) EXCEPT !.cold_start_epoch = FALSE]
  BY DEF tick_cooldown, start, epoch, kept
<1> HIDE DEF mid
<1>6. /\ moved \in CoordinatorState /\ moved.config = co.config
      /\ moved.rounds = co.rounds /\ moved.rounds_head = co.rounds_head
      /\ moved.pending_pause = co.pending_pause
      /\ PartitionInv(moved)
  BY <1>3, <1>4, MoveClientsFields, MoveClientsPartition
<1> HIDE DEF moved
<1>7. RingInv(moved) /\ PreviousInv(moved)
  BY <1>1, <1>6, RingStable, PreviousStable
<1>8. CASE ~check_timeout(co, co.config.cooldown_time)
  BY <1>5, <1>8
<1>9. CASE check_timeout(co, co.config.cooldown_time) /\ co.pending_pause
  <2> DEFINE w == withdraw_all(moved)
             p == change_state(w, "Paused")
             n == [p EXCEPT !.pending_pause = FALSE, !.cold_start_epoch = TRUE]
  <2>1. /\ w \in CoordinatorState /\ w.config = co.config
        /\ w.rounds = co.rounds /\ w.rounds_head = co.rounds_head
    BY <1>6, WithdrawAllFields
  <2>2. PartitionInv(w)
    <3>1. moved.exited_clients \in SUBSET Client
      BY <1>6 DEF CoordinatorState
    <3> QED
      BY <1>6, <3>1, WithdrawAllFields DEF PartitionInv
  <2> HIDE DEF w
  <2>3. "Paused" \in RunState
    BY DEF RunState
  <2>4. /\ p \in CoordinatorState /\ p.run_state = "Paused" /\ p.config = co.config
        /\ p.rounds = co.rounds /\ p.rounds_head = co.rounds_head
        /\ p.clients = w.clients /\ p.exited_clients = w.exited_clients
        /\ p.state = w.state
    BY <2>1, <2>3, ChangeStateFields
  <2> HIDE DEF p
  <2>5. /\ n \in CoordinatorState /\ n.run_state = "Paused" /\ n.config = co.config
        /\ n.rounds = co.rounds /\ n.rounds_head = co.rounds_head
        /\ n.clients = w.clients /\ n.exited_clients = w.exited_clients
        /\ n.state = w.state /\ n.pending_pause = FALSE
    BY <2>4 DEF CoordinatorState
  <2>6. tick_cooldown(co).co = n
    BY <1>5, <1>9 DEF p, w
  <2> HIDE DEF n
  <2>7. RingInv(n) /\ PreviousInv(n)
    BY <1>1, <2>5, RingStable, PreviousStable
  <2>8. /\ ConfigInv(n) /\ RosterInv(n) /\ PartitionInv(n) /\ WitnessInv(n)
        /\ PauseInv(n) /\ StepInv(n)
    BY <1>1, <2>2, <2>5 DEF ConfigInv, RosterInv, PartitionInv, WitnessInv,
                            PauseInv, StepInv, Training
  <2> QED
    BY <2>5, <2>6, <2>7, <2>8 DEF CoInv
<1>10. CASE check_timeout(co, co.config.cooldown_time) /\ ~co.pending_pause
  <2> DEFINE p == start_waiting_for_members(moved)
             n == [p EXCEPT !.cold_start_epoch = FALSE]
  <2>1. CoInv(p)
    BY <1>1, <1>6, <1>7, <1>10, StartWaitingForMembersInv
  <2> HIDE DEF p
  <2>2. /\ n \in CoordinatorState
        /\ n.run_state = p.run_state /\ n.config = p.config /\ n.step = p.step
        /\ n.rounds = p.rounds /\ n.rounds_head = p.rounds_head
        /\ n.clients = p.clients /\ n.exited_clients = p.exited_clients
        /\ n.state = p.state /\ n.last_step = p.last_step
        /\ n.first_round = p.first_round /\ n.pending_pause = p.pending_pause
    BY <2>1 DEF CoInv, CoordinatorState
  <2>3. tick_cooldown(co).co = n
    BY <1>5, <1>10 DEF p
  <2> HIDE DEF n
  <2>4. current_round(n) = current_round(p) /\ previous_round(n) = previous_round(p)
    BY <2>2 DEF current_round, previous_round
  <2>5. CoInv(n)
    BY <2>1, <2>2, <2>4
    DEF CoInv, ConfigInv, RosterInv, PartitionInv, RingInv, WitnessInv, PreviousInv,
        PauseInv, StepInv, has_previous_round, active, last_step_set
  <2> QED
    BY <2>3, <2>5
<1> QED
  BY <1>8, <1>9, <1>10

(* Every tick preserves the invariant. *)
LEMMA TickInv ==
    ASSUME NEW co, CoInv(co), ~halted(co), NEW pending \in SUBSET Client,
           NEW seed \in Seeds
    PROVE  CoInv(tick(co, pending, seed).co)
<1>1. co.run_state \in {"WaitingForMembers", "Warmup", "RoundTrain", "RoundWitness",
                       "Cooldown"}
  BY DEF CoInv, CoordinatorState, RunState, halted
<1>2. CASE co.run_state = "WaitingForMembers"
  BY <1>2, TickWaitingForMembersInv DEF tick
<1>3. CASE co.run_state = "Warmup"
  BY <1>3, TickWarmupInv DEF tick
<1>4. CASE co.run_state = "RoundTrain"
  <2>1. CoInv(tick_round_train(co))
    BY <1>4, ToRoundWitnessInv DEF tick_round_train
  <2> QED
    BY <1>4, <2>1 DEF tick
<1>5. CASE co.run_state = "RoundWitness"
  BY <1>5, TickRoundWitnessInv DEF tick
<1>6. CASE co.run_state = "Cooldown"
  BY <1>6, TickCooldownInv DEF tick
<1> QED
  BY <1>1, <1>2, <1>3, <1>4, <1>5, <1>6

-----------------------------------------------------------------------------
(* The calls of clients and of the authority preserve the invariant. *)

(* Times, the checkpoint, the epoch number and the data index are not part *)
(* of it.                                                                  *)
LEMMA SameInv ==
    ASSUME NEW co, CoInv(co), NEW n \in CoordinatorState,
           n.run_state = co.run_state, n.config = co.config, n.step = co.step,
           n.rounds = co.rounds, n.rounds_head = co.rounds_head,
           n.clients = co.clients, n.exited_clients = co.exited_clients,
           n.state = co.state, n.last_step = co.last_step,
           n.first_round = co.first_round, n.pending_pause = co.pending_pause
    PROVE  CoInv(n)
<1>1. current_round(n) = current_round(co) /\ previous_round(n) = previous_round(co)
  BY DEF current_round, previous_round
<1> QED
  BY <1>1
  DEF CoInv, ConfigInv, RosterInv, PartitionInv, RingInv, WitnessInv, PreviousInv,
      PauseInv, StepInv, has_previous_round, active, last_step_set

(* Storing a witness that is no duplicate preserves the invariant. *)
LEMMA AddWitnessInv ==
    ASSUME NEW co, CoInv(co), NEW from \in Client, NEW bloom \in SUBSET Client,
           from \in co.clients, NotDuplicate(co, from)
    PROVE  CoInv(AddWitness(co, from, bloom))
<1> DEFINE n == AddWitness(co, from, bloom)
           w == [from |-> from, index |-> Index(co.clients, from), bloom |-> bloom]
<1>1. co \in CoordinatorState
  BY DEF CoInv
<1>2. /\ n \in CoordinatorState
      /\ n.run_state = co.run_state /\ n.config = co.config /\ n.step = co.step
      /\ n.rounds_head = co.rounds_head
      /\ \A s \in Slot : /\ n.rounds[s].height = co.rounds[s].height
                         /\ n.rounds[s].clients_len = co.rounds[s].clients_len
      /\ \A s \in Slot \ {co.rounds_head} : n.rounds[s] = co.rounds[s]
      /\ current_round(n).witnesses = current_round(co).witnesses \cup {w}
      /\ n.clients = co.clients /\ n.exited_clients = co.exited_clients
      /\ n.state = co.state /\ n.last_step = co.last_step
      /\ n.first_round = co.first_round /\ n.pending_pause = co.pending_pause
  BY <1>1, AddWitnessFields
<1>3. w.from = from /\ w.index = Index(co.clients, from)
  OBVIOUS
<1> HIDE DEF n, w
<1>4. RingInv(n) /\ PreviousInv(n)
  BY <1>1, <1>2, RingStable, PreviousStable DEF CoInv
<1>5. current_round(n).clients_len = current_round(co).clients_len
  BY <1>1, <1>2 DEF current_round, CoordinatorState
<1>6. /\ ConfigInv(n) /\ RosterInv(n) /\ PartitionInv(n) /\ PauseInv(n) /\ StepInv(n)
  BY <1>2, <1>5 DEF CoInv, ConfigInv, RosterInv, PartitionInv, PauseInv, StepInv,
                    active, last_step_set
<1>7. WitnessInv(n)
  <2> SUFFICES ASSUME co.run_state \in Training
               PROVE  /\ \A v \in current_round(n).witnesses :
                            v.from \in co.clients /\ v.index = Index(co.clients, v.from)
                      /\ \A u, v \in current_round(n).witnesses :
                            u.from = v.from => u = v
    BY <1>2 DEF WitnessInv
  <2>1. /\ \A v \in current_round(co).witnesses :
              v.from \in co.clients /\ v.index = Index(co.clients, v.from)
        /\ \A u, v \in current_round(co).witnesses : u.from = v.from => u = v
    BY DEF CoInv, WitnessInv
  <2>2. \A v \in current_round(co).witnesses : v.from # from
    BY <2>1 DEF NotDuplicate
  <2> QED
    BY <1>2, <1>3, <2>1, <2>2
<1> QED
  BY <1>2, <1>4, <1>6, <1>7 DEF CoInv, n

(* witness preserves the invariant. *)
LEMMA WitnessCallInv ==
    ASSUME NEW co, CoInv(co), NEW from \in Client, NEW bloom \in SUBSET Client,
           witness_ok(co, from)
    PROVE  CoInv(witness(co, from, bloom))
<1> DEFINE n == AddWitness(co, from, bloom)
<1>1. CoInv(n)
  BY AddWitnessInv DEF witness_ok
<1>2. n.run_state = co.run_state
  BY AddWitnessFields DEF CoInv
<1>3. co.run_state \in {"RoundTrain", "RoundWitness"}
  BY DEF witness_ok
<1> HIDE DEF n
<1>4. co.run_state # "RoundWitness" => CoInv(change_state(n, "RoundWitness"))
  BY <1>1, <1>2, <1>3, ToRoundWitnessInv
<1> QED
  BY <1>1, <1>4 DEF witness, n

(* warmup_witness preserves the invariant. *)
LEMMA WarmupWitnessCallInv ==
    ASSUME NEW co, CoInv(co), NEW from \in Client, NEW bloom \in SUBSET Client,
           NEW seed \in Seeds, warmup_witness_ok(co, from)
    PROVE  CoInv(warmup_witness(co, from, bloom, seed))
<1>1. CASE co.run_state = "RoundTrain"
  BY <1>1 DEF warmup_witness
<1>2. CASE co.run_state # "RoundTrain"
  <2> DEFINE n == AddWitness(co, from, bloom)
  <2>1. co.run_state = "Warmup" /\ CoInv(n)
    BY <1>2, AddWitnessInv DEF warmup_witness_ok
  <2>2. n.run_state = co.run_state
    BY AddWitnessFields DEF CoInv
  <2> HIDE DEF n
  <2>3. CoInv(start_round_train(n, seed))
    BY <2>1, <2>2, StartRoundTrainInv
    DEF CoInv, ConfigInv, RosterInv, StepInv, Training
  <2> QED
    BY <1>2, <2>1, <2>3 DEF warmup_witness, n
<1> QED
  BY <1>1, <1>2

(* Changing the state of a client of the roster, away from Healthy. *)
LEMMA SetClientStateInv ==
    ASSUME NEW co, CoInv(co), NEW c \in Client, c \in co.clients,
           NEW s \in ClientState
    PROVE  CoInv([co EXCEPT !.state[c] = s])
<1> DEFINE st == [co.state EXCEPT ![c] = s]
           n == [co EXCEPT !.state = st]
<1>1. co \in CoordinatorState /\ co.state \in [Client -> ClientState]
  BY DEF CoInv, CoordinatorState
<1>2. st \in [Client -> ClientState] /\ \A d \in Client \ {c} : st[d] = co.state[d]
  BY <1>1
<1> HIDE DEF st
<1>3. /\ n \in CoordinatorState
      /\ n.run_state = co.run_state /\ n.config = co.config /\ n.step = co.step
      /\ n.rounds = co.rounds /\ n.rounds_head = co.rounds_head
      /\ n.clients = co.clients /\ n.exited_clients = co.exited_clients
      /\ n.state = st /\ n.last_step = co.last_step
      /\ n.first_round = co.first_round /\ n.pending_pause = co.pending_pause
  BY <1>1, <1>2 DEF CoordinatorState
<1>4. [co EXCEPT !.state[c] = s] = n
  BY DEF st
<1> HIDE DEF n
<1>5. PartitionInv(n)
  <2>1. PartitionInv(co) /\ co.exited_clients \in SUBSET Client
    BY <1>1 DEF CoInv, CoordinatorState
  <2> QED
    BY <1>2, <1>3, <2>1 DEF PartitionInv
<1>6. current_round(n) = current_round(co) /\ previous_round(n) = previous_round(co)
  BY <1>3 DEF current_round, previous_round
<1>7. CoInv(n)
  BY <1>3, <1>5, <1>6
  DEF CoInv, ConfigInv, RosterInv, RingInv, WitnessInv, PreviousInv,
      PauseInv, StepInv, has_previous_round, active, last_step_set
<1> QED
  BY <1>4, <1>7

(* health_check preserves the invariant. *)
LEMMA HealthCheckInv ==
    ASSUME NEW co, CoInv(co), NEW c \in Client, health_check_ok(co, c)
    PROVE  CoInv(health_check(co, c))
<1>1. c \in co.clients /\ "Dropped" \in ClientState
  BY DEF health_check_ok, unhealthy, ClientState
<1> QED
  BY <1>1, SetClientStateInv DEF health_check

(* eject preserves the invariant. *)
LEMMA EjectInv ==
    ASSUME NEW co, CoInv(co), NEW c \in Client, eject_ok(co, c)
    PROVE  CoInv(eject(co, c))
<1>1. c \in co.clients /\ "Ejected" \in ClientState
  BY DEF eject_ok, ClientState
<1> QED
  BY <1>1, SetClientStateInv DEF eject

(* checkpoint preserves the invariant. *)
LEMMA CheckpointInv ==
    ASSUME NEW co, CoInv(co), NEW offered \in Checkpoint
    PROVE  CoInv(checkpoint(co, offered))
<1> DEFINE kept == CASE offered = "Hub" /\ co.checkpoint \in {"P2P", "P2PGcs"} -> "P2P"
                     [] offered = "Gcs" /\ co.checkpoint \in {"P2P", "P2PGcs"} -> "P2PGcs"
                     [] OTHER -> co.checkpoint
           n == [co EXCEPT !.checkpoint = kept]
<1>1. co \in CoordinatorState
  BY DEF CoInv
<1>2. kept \in Checkpoint
  BY <1>1 DEF Checkpoint, CoordinatorState
<1>3. checkpoint(co, offered) = n
  BY DEF checkpoint
<1> HIDE DEF kept
<1>4. /\ n \in CoordinatorState
      /\ n.run_state = co.run_state /\ n.config = co.config /\ n.step = co.step
      /\ n.rounds = co.rounds /\ n.rounds_head = co.rounds_head
      /\ n.clients = co.clients /\ n.exited_clients = co.exited_clients
      /\ n.state = co.state /\ n.last_step = co.last_step
      /\ n.first_round = co.first_round /\ n.pending_pause = co.pending_pause
  BY <1>1, <1>2 DEF CoordinatorState
<1> QED
  BY <1>3, <1>4, SameInv

(* pause preserves the invariant. *)
LEMMA PauseCallInv ==
    ASSUME NEW co, CoInv(co), ~halted(co)
    PROVE  CoInv(pause(co))
<1>1. co \in CoordinatorState /\ PartitionInv(co) /\ RingInv(co) /\ PreviousInv(co)
  BY DEF CoInv
<1>2. CASE active(co)
  <2> DEFINE n == [co EXCEPT !.pending_pause = TRUE]
  <2>1. /\ n \in CoordinatorState
        /\ n.run_state = co.run_state /\ n.config = co.config /\ n.step = co.step
        /\ n.rounds = co.rounds /\ n.rounds_head = co.rounds_head
        /\ n.clients = co.clients /\ n.exited_clients = co.exited_clients
        /\ n.state = co.state /\ n.last_step = co.last_step
        /\ n.first_round = co.first_round
    BY <1>1 DEF CoordinatorState
  <2>2. pause(co) = n
    BY <1>2 DEF pause
  <2> HIDE DEF n
  <2>3. current_round(n) = current_round(co) /\ previous_round(n) = previous_round(co)
    BY <2>1 DEF current_round, previous_round
  <2>4. CoInv(n)
    BY <1>2, <2>1, <2>3
    DEF CoInv, ConfigInv, RosterInv, PartitionInv, RingInv, WitnessInv, PreviousInv,
        PauseInv, StepInv, has_previous_round, active, last_step_set
  <2> QED
    BY <2>2, <2>4
<1>3. CASE ~active(co)
  <2> DEFINE w == withdraw_all(co)
             p == change_state(w, "Paused")
             n == [p EXCEPT !.cold_start_epoch = TRUE]
  <2>1. /\ w \in CoordinatorState /\ w.config = co.config
        /\ w.rounds = co.rounds /\ w.rounds_head = co.rounds_head
        /\ w.pending_pause = co.pending_pause
    BY <1>1, WithdrawAllFields
  <2>2. PartitionInv(w)
    <3>1. co.exited_clients \in SUBSET Client
      BY <1>1 DEF CoordinatorState
    <3> QED
      BY <1>1, <3>1, WithdrawAllFields DEF PartitionInv
  <2> HIDE DEF w
  <2>3. "Paused" \in RunState
    BY DEF RunState
  <2>4. /\ p \in CoordinatorState /\ p.run_state = "Paused" /\ p.config = co.config
        /\ p.rounds = co.rounds /\ p.rounds_head = co.rounds_head
        /\ p.clients = w.clients /\ p.exited_clients = w.exited_clients
        /\ p.state = w.state /\ p.pending_pause = co.pending_pause
    BY <2>1, <2>3, ChangeStateFields
  <2> HIDE DEF p
  <2>5. /\ n \in CoordinatorState /\ n.run_state = "Paused" /\ n.config = co.config
        /\ n.rounds = co.rounds /\ n.rounds_head = co.rounds_head
        /\ n.clients = w.clients /\ n.exited_clients = w.exited_clients
        /\ n.state = w.state /\ n.pending_pause = co.pending_pause
    BY <2>4 DEF CoordinatorState
  <2>6. pause(co) = n
    BY <1>3 DEF pause, p, w
  <2> HIDE DEF n
  <2>7. RingInv(n) /\ PreviousInv(n)
    BY <1>1, <2>5, RingStable, PreviousStable
  <2>8. ConfigInv(n) /\ PauseInv(n)
    BY <1>3, <2>5 DEF CoInv, ConfigInv, PauseInv, halted
  <2>9. RosterInv(n) /\ PartitionInv(n) /\ WitnessInv(n) /\ StepInv(n)
    BY <2>2, <2>5 DEF RosterInv, PartitionInv, WitnessInv, StepInv, Training
  <2> QED
    BY <2>5, <2>6, <2>7, <2>8, <2>9 DEF CoInv
<1> QED
  BY <1>2, <1>3

(* resume preserves the invariant. *)
LEMMA ResumeCallInv ==
    ASSUME NEW co, CoInv(co), check_config(co.config), co.run_state = "Paused"
    PROVE  CoInv(resume(co))
BY StartWaitingForMembersInv DEF resume, CoInv, PauseInv, active

-----------------------------------------------------------------------------
(* What a tick does to an epoch, its ejections and its data. *)

InEpoch == {"Warmup", "RoundTrain", "RoundWitness", "Cooldown"}

RoundEnd(co) ==
    current_round(co).data_index + get_batch_size(co.config, current_round(co).data_index)

(* Where the data handed out so far ends. *)
DataEnd(co) == IF active(co) THEN RoundEnd(co) ELSE co.epoch_start_data_index

StartsRound(co, n) == co.run_state # "RoundTrain" /\ n.run_state = "RoundTrain"

(* n, reached from co by a tick that ended an epoch or not. *)
EpochStep(co, n, epoch_end) ==
    /\ \A c \in Client : n.state[c] = "Ejected" => co.state[c] = "Ejected"
    /\ epoch_end => /\ co.run_state \in {"Warmup", "Cooldown"}
                    /\ n.run_state \in {"WaitingForMembers", "Finished", "Paused"}
    /\ n.run_state \in InEpoch /\ co.run_state \notin InEpoch =>
          /\ co.run_state = "WaitingForMembers" /\ n.run_state = "Warmup"
          /\ n.first_round
          /\ \A c \in Client : n.state[c] = "Healthy"
    /\ IF StartsRound(co, n)
       THEN current_round(n).data_index = DataEnd(co)
       ELSE DataEnd(n) = DataEnd(co)

(* start_waiting_for_members writes the run state and its start time only. *)
LEMMA StartWaitingForMembersFields ==
    ASSUME NEW co \in CoordinatorState
    PROVE  LET n == start_waiting_for_members(co)
           IN  /\ n \in CoordinatorState
               /\ n.run_state \in {"WaitingForMembers", "Finished"}
               /\ n.config = co.config
               /\ n.epoch_start_data_index = co.epoch_start_data_index
               /\ n.state = co.state /\ n.elapsed = 0
<1>1. "WaitingForMembers" \in RunState /\ "Finished" \in RunState
  BY DEF RunState
<1> QED
  BY <1>1, ChangeStateFields DEF start_waiting_for_members

(* tick_waiting_for_members is an EpochStep that ends no epoch. *)
LEMMA TickWaitingEpochStep ==
    ASSUME NEW co, CoInv(co), co.run_state = "WaitingForMembers",
           NEW pending \in SUBSET Client
    PROVE  EpochStep(co, tick_waiting_for_members(co, pending), FALSE)
<1> DEFINE n == tick_waiting_for_members(co, pending)
<1>1. CASE n = co
  BY <1>1 DEF EpochStep, InEpoch, StartsRound
<1>2. CASE /\ Cardinality(pending) >= co.config.init_min_clients
           /\ check_timeout(co, co.config.waiting_for_members_extra_time)
  <2>1. /\ n.run_state = "Warmup" /\ n.first_round = TRUE
        /\ n.epoch_start_data_index = co.epoch_start_data_index
        /\ n.state = [c \in Client |-> "Healthy"]
    BY <1>2 DEF tick_waiting_for_members, change_state, CoInv, CoordinatorState
  <2> HIDE DEF n
  <2>2. \A c \in Client : n.state[c] = "Healthy"
    BY <2>1
  <2>3. DataEnd(n) = DataEnd(co) /\ ~StartsRound(co, n)
    BY <2>1 DEF DataEnd, active, StartsRound
  <2> QED
    BY <2>1, <2>2, <2>3 DEF EpochStep, n
<1> QED
  BY <1>1, <1>2 DEF tick_waiting_for_members

(* tick_warmup is an EpochStep. *)
LEMMA TickWarmupEpochStep ==
    ASSUME NEW co, CoInv(co), co.run_state = "Warmup", NEW seed \in Seeds
    PROVE  EpochStep(co, tick_warmup(co, seed).co, tick_warmup(co, seed).epoch_end)
<1>1. /\ co \in CoordinatorState /\ check_config(co.config) /\ co.first_round
      /\ Cardinality(co.clients) >= co.config.min_clients
      /\ Cardinality(co.clients) \in Nat /\ co.config.min_clients \in Nat
  BY ClientsFinite
  DEF CoInv, ConfigInv, StepInv, RosterInv, Training, CoordinatorState, CoordinatorConfig
<1>2. CASE check_timeout(co, co.config.warmup_time)
  <2> DEFINE n == start_round_train(co, seed)
  <2>1. /\ n.run_state = "RoundTrain" /\ n.state = co.state /\ n.clients = co.clients
        /\ n.rounds_head = 0 /\ n.rounds[0].data_index = co.epoch_start_data_index
    BY <1>1, StartRoundTrainFields
  <2> HIDE DEF n
  <2>2. tick_warmup(co, seed).co = n /\ tick_warmup(co, seed).epoch_end = FALSE
    BY <1>1, <1>2, <2>1 DEF tick_warmup, n
  <2> QED
    BY <2>1, <2>2 DEF EpochStep, InEpoch, StartsRound, current_round, DataEnd, active
<1>3. CASE ~check_timeout(co, co.config.warmup_time)
  <2> DEFINE m == move_clients_to_exited(co)
             w == start_waiting_for_members(m)
  <2>1. /\ m \in CoordinatorState /\ m.run_state = co.run_state /\ m.state = co.state
        /\ m.epoch_start_data_index = co.epoch_start_data_index
    BY <1>1, MoveClientsFields
  <2> HIDE DEF m
  <2>2. /\ w.run_state \in {"WaitingForMembers", "Finished"} /\ w.state = co.state
        /\ w.epoch_start_data_index = co.epoch_start_data_index
    BY <2>1, StartWaitingForMembersFields
  <2> HIDE DEF w
  <2>3. \/ /\ tick_warmup(co, seed).co = w
           /\ tick_warmup(co, seed).epoch_end = TRUE
        \/ /\ tick_warmup(co, seed).co = m
           /\ tick_warmup(co, seed).epoch_end = FALSE
    BY <1>3 DEF tick_warmup, m, w
  <2>4. EpochStep(co, w, TRUE)
    BY <2>2 DEF EpochStep, InEpoch, StartsRound, DataEnd, active
  <2>5. EpochStep(co, m, FALSE)
    BY <2>1 DEF EpochStep, InEpoch, StartsRound, DataEnd, active
  <2> QED
    BY <2>3, <2>4, <2>5
<1> QED
  BY <1>2, <1>3

(* tick_round_witness is an EpochStep that ends no epoch. *)
LEMMA TickRoundWitnessEpochStep ==
    ASSUME NEW co, CoInv(co), co.run_state = "RoundWitness", NEW seed \in Seeds
    PROVE  EpochStep(co, tick_round_witness(co, seed), FALSE)
<1> DEFINE num == Cardinality(current_round(co).witnesses)
           step == co.step + 1
           stepped == [co EXCEPT !.first_round = FALSE, !.step = step]
           moved == move_clients_to_exited(stepped)
           next == SetLastStep(moved)
           n == tick_round_witness(co, seed)
<1>1. co \in CoordinatorState /\ check_config(co.config)
  BY DEF CoInv, ConfigInv
<1>2. step \in Nat
  BY <1>1 DEF CoordinatorState
<1>3. \/ n = co
      \/ n = start_cooldown(withdraw_all(moved))
      \/ n = start_cooldown(next)
      \/ n = start_round_train(next, seed)
  BY DEF tick_round_witness
<1> HIDE DEF step, n
<1>4. /\ stepped \in CoordinatorState /\ stepped.config = co.config
      /\ stepped.rounds = co.rounds /\ stepped.rounds_head = co.rounds_head
      /\ stepped.state = co.state /\ stepped.first_round = FALSE
  BY <1>1, <1>2 DEF CoordinatorState
<1> HIDE DEF stepped
<1>5. /\ moved \in CoordinatorState /\ moved.config = co.config
      /\ moved.rounds = co.rounds /\ moved.rounds_head = co.rounds_head
      /\ moved.state = co.state /\ moved.first_round = FALSE
  BY <1>4, MoveClientsFields
<1> HIDE DEF moved
<1>6. /\ next \in CoordinatorState /\ next.config = co.config
      /\ next.rounds = co.rounds /\ next.rounds_head = co.rounds_head
      /\ next.state = co.state /\ next.first_round = FALSE
  BY <1>5, SetLastStepFields
<1> HIDE DEF next
<1>7. co.rounds_head \in Slot
  BY <1>1 DEF CoordinatorState
<1>8. CASE n = co
  BY <1>8 DEF EpochStep, InEpoch, StartsRound, n
<1>9. CASE n = start_cooldown(withdraw_all(moved))
  <2> DEFINE w == withdraw_all(moved)
  <2>1. /\ w \in CoordinatorState /\ w.config = co.config
        /\ w.rounds = co.rounds /\ w.rounds_head = co.rounds_head
        /\ \A c \in Client : w.state[c] = "Ejected" => co.state[c] = "Ejected"
    BY <1>5, WithdrawAllFields
  <2> HIDE DEF w
  <2>2. /\ n.run_state = "Cooldown" /\ n.config = co.config /\ n.state = w.state
        /\ n.rounds_head = co.rounds_head
        /\ n.rounds[co.rounds_head].data_index = co.rounds[co.rounds_head].data_index
    BY <1>7, <1>9, <2>1, StartCooldownFields DEF w
  <2>3. DataEnd(n) = DataEnd(co) /\ ~StartsRound(co, n)
    BY <2>2 DEF DataEnd, RoundEnd, active, current_round, StartsRound
  <2> QED
    BY <2>1, <2>2, <2>3 DEF EpochStep, InEpoch, n
<1>10. CASE n = start_cooldown(next)
  <2>1. /\ n.run_state = "Cooldown" /\ n.config = co.config /\ n.state = co.state
        /\ n.rounds_head = co.rounds_head
        /\ n.rounds[co.rounds_head].data_index = co.rounds[co.rounds_head].data_index
    BY <1>6, <1>7, <1>10, StartCooldownFields
  <2>2. DataEnd(n) = DataEnd(co) /\ ~StartsRound(co, n)
    BY <2>1 DEF DataEnd, RoundEnd, active, current_round, StartsRound
  <2> QED
    BY <2>1, <2>2 DEF EpochStep, InEpoch, n
<1>11. CASE n = start_round_train(next, seed)
  <2>1. /\ n.run_state = "RoundTrain" /\ n.state = co.state
        /\ current_round(n).data_index = RoundEnd(next)
    BY <1>1, <1>6, <1>11, StartRoundTrainFields DEF current_round, RoundEnd
  <2>2. RoundEnd(next) = RoundEnd(co)
    BY <1>6 DEF RoundEnd, current_round
  <2>3. DataEnd(co) = RoundEnd(co) /\ StartsRound(co, n)
    BY <2>1 DEF DataEnd, active, StartsRound
  <2> QED
    BY <2>1, <2>2, <2>3 DEF EpochStep, InEpoch, n
<1> QED
  BY <1>3, <1>8, <1>9, <1>10, <1>11

(* tick_cooldown is an EpochStep. *)
LEMMA TickCooldownEpochStep ==
    ASSUME NEW co, CoInv(co), co.run_state = "Cooldown"
    PROVE  EpochStep(co, tick_cooldown(co).co, tick_cooldown(co).epoch_end)
<1> DEFINE last == current_round(co)
           start == last.data_index + get_batch_size(co.config, last.data_index)
           epoch == co.epoch + 1
           kept == CASE co.checkpoint \in {"Hub", "Dummy"} -> "P2P"
                     [] co.checkpoint = "Gcs" -> "P2PGcs"
                     [] OTHER -> co.checkpoint
           mid == [co EXCEPT
                    !.epoch_start_data_index = start, !.epoch = epoch,
                    !.checkpoint = kept]
           moved == move_clients_to_exited(mid)
           paused == [change_state(withdraw_all(moved), "Paused") EXCEPT
                         !.pending_pause = FALSE, !.cold_start_epoch = TRUE]
           waiting == [start_waiting_for_members(moved) EXCEPT
                         !.cold_start_epoch = FALSE]
<1>1. co \in CoordinatorState /\ check_config(co.config)
  BY DEF CoInv, ConfigInv
<1>2. start \in Nat /\ epoch \in Nat /\ kept \in Checkpoint
  <2>1. last.data_index \in Nat /\ co.config \in CoordinatorConfig
    BY <1>1 DEF CoordinatorState, current_round, Round
  <2> QED
    BY <1>1, <2>1, BatchSizeType DEF CoordinatorState, Checkpoint
<1>3. DataEnd(co) = start
  BY DEF DataEnd, RoundEnd, active
<1>4. \/ tick_cooldown(co).co = co /\ tick_cooldown(co).epoch_end = FALSE
      \/ tick_cooldown(co).co = paused /\ tick_cooldown(co).epoch_end = TRUE
      \/ tick_cooldown(co).co = waiting /\ tick_cooldown(co).epoch_end = TRUE
  BY DEF tick_cooldown, start, epoch, kept
<1> HIDE DEF start, epoch, kept
<1>5. /\ mid \in CoordinatorState /\ mid.state = co.state
      /\ mid.epoch_start_data_index = start
  BY <1>1, <1>2 DEF CoordinatorState
<1> HIDE DEF mid
<1>6. /\ moved \in CoordinatorState /\ moved.state = co.state
      /\ moved.epoch_start_data_index = start
  BY <1>5, MoveClientsFields
<1> HIDE DEF moved
<1>7. EpochStep(co, co, FALSE)
  BY DEF EpochStep, InEpoch, StartsRound
<1>8. EpochStep(co, paused, TRUE)
  <2> DEFINE w == withdraw_all(moved)
             p == change_state(w, "Paused")
  <2>1. /\ w \in CoordinatorState /\ w.epoch_start_data_index = start
        /\ \A c \in Client : w.state[c] = "Ejected" => co.state[c] = "Ejected"
    BY <1>6, WithdrawAllFields
  <2> HIDE DEF w
  <2>2. "Paused" \in RunState
    BY DEF RunState
  <2>3. /\ p \in CoordinatorState /\ p.run_state = "Paused" /\ p.state = w.state
        /\ p.epoch_start_data_index = start
    BY <2>1, <2>2, ChangeStateFields
  <2> HIDE DEF p
  <2>4. /\ paused.run_state = "Paused" /\ paused.state = w.state
        /\ paused.epoch_start_data_index = start
    BY <2>3 DEF CoordinatorState, p, w
  <2> HIDE DEF paused
  <2> QED
    BY <1>3, <2>1, <2>4 DEF EpochStep, InEpoch, StartsRound, DataEnd, active
<1>9. EpochStep(co, waiting, TRUE)
  <2> DEFINE s == start_waiting_for_members(moved)
  <2>1. /\ s \in CoordinatorState /\ s.run_state \in {"WaitingForMembers", "Finished"}
        /\ s.state = co.state /\ s.epoch_start_data_index = start
    BY <1>6, StartWaitingForMembersFields
  <2> HIDE DEF s
  <2>2. /\ waiting.run_state \in {"WaitingForMembers", "Finished"}
        /\ waiting.state = co.state /\ waiting.epoch_start_data_index = start
    BY <2>1 DEF CoordinatorState, s
  <2> HIDE DEF waiting
  <2> QED
    BY <1>3, <2>2 DEF EpochStep, InEpoch, StartsRound, DataEnd, active
<1> QED
  BY <1>4, <1>7, <1>8, <1>9

(* Every tick is an EpochStep. *)
LEMMA TickEpochStep ==
    ASSUME NEW co, CoInv(co), ~halted(co), NEW pending \in SUBSET Client,
           NEW seed \in Seeds
    PROVE  EpochStep(co, tick(co, pending, seed).co, tick(co, pending, seed).epoch_end)
<1>1. co.run_state \in {"WaitingForMembers", "Warmup", "RoundTrain", "RoundWitness",
                       "Cooldown"}
  BY DEF CoInv, CoordinatorState, RunState, halted
<1>2. CASE co.run_state = "WaitingForMembers"
  BY <1>2, TickWaitingEpochStep DEF tick
<1>3. CASE co.run_state = "Warmup"
  BY <1>3, TickWarmupEpochStep DEF tick
<1>4. CASE co.run_state = "RoundTrain"
  <2> DEFINE n == tick_round_train(co)
  <2>1. n = co \/ n = change_state(co, "RoundWitness")
    BY DEF tick_round_train
  <2>2. /\ n.run_state \in Training /\ n.config = co.config /\ n.state = co.state
        /\ n.rounds = co.rounds /\ n.rounds_head = co.rounds_head
    BY <1>4, <2>1, ChangeStateFields DEF CoInv, RunState, Training
  <2> HIDE DEF n
  <2>3. EpochStep(co, n, FALSE)
    BY <1>4, <2>2 DEF EpochStep, InEpoch, StartsRound, DataEnd, RoundEnd, active,
                      current_round, Training
  <2> QED
    BY <1>4, <2>3 DEF tick, n
<1>5. CASE co.run_state = "RoundWitness"
  BY <1>5, TickRoundWitnessEpochStep DEF tick
<1>6. CASE co.run_state = "Cooldown"
  BY <1>6, TickCooldownEpochStep DEF tick
<1> QED
  BY <1>1, <1>2, <1>3, <1>4, <1>5, <1>6
=============================================================================
