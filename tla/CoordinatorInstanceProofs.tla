--------------------- MODULE CoordinatorInstanceProofs ---------------------
(***************************************************************************)
(* The safety properties of CoordinatorInstance, for every number of       *)
(* clients, every set of configurations, models, progress and rates, every *)
(* shuffle and every seed.                                                 *)
(*                                                                         *)
(* The inductive invariant Inv adds to the invariant of the coordinator    *)
(* (CoInv, which its methods preserve by CoordinatorProofs) what ties the  *)
(* program's own state and the history to it.  A transaction is a method   *)
(* followed by a tick; TransactionInv says what the two do together, so an *)
(* action's proof only has to place its method.                            *)
(***************************************************************************)
EXTENDS CoordinatorInstance, CoordinatorProofs

(* The rates of an epoch under way have been taken. *)
FlagInv ==
    coordinator.run_state \in InEpoch => clients_state.is_warmup_first_tick = FALSE

(* A client the epoch under way has ejected is still to be charged. *)
LedgerInv ==
    \A c \in Client :
        /\ hist.uncharged[c] >= 0
        /\ coordinator.run_state \in InEpoch /\ coordinator.state[c] = "Ejected" =>
              hist.uncharged[c] >= 1

(* The history's data_end is where the coordinator would go on from. *)
DataInv == hist.data_end = DataEnd(coordinator)

Inv ==
    /\ CoInv(coordinator)
    /\ clients_state \in ClientsState
    /\ hist \in Hist
    /\ FlagInv
    /\ LedgerInv
    /\ DataInv

(* What a step owes the two action properties proved below. *)
StepOK ==
    /\ coordinator.run_state \in InEpoch =>
          clients_state'.current_epoch_rates = clients_state.current_epoch_rates
    /\ StartsRound(coordinator, coordinator') =>
          current_round(coordinator').data_index = hist.data_end

-----------------------------------------------------------------------------
(* The zeroed account satisfies the coordinator's invariant. *)
LEMMA ZeroCoordinatorInv == CoInv(ZeroCoordinator)
<1> DEFINE z == ZeroCoordinator
<1>1. ZeroRound \in Round /\ 0 \in Slot /\ ZeroConfig \in CoordinatorConfig
  BY CoordinatorAssumption
  DEF ZeroRound, Round, Slot, NUM_STORED_ROUNDS, ZeroConfig, CoordinatorConfig
<1>2. z \in CoordinatorState
  <2>1. [s \in Slot |-> ZeroRound] \in [Slot -> Round]
    BY <1>1
  <2>2. [c \in Client |-> "Healthy"] \in [Client -> ClientState]
    BY DEF ClientState
  <2>3. "Uninitialized" \in RunState /\ "Ephemeral" \in Checkpoint
    BY DEF RunState, Checkpoint
  <2> QED
    BY <1>1, <2>1, <2>2, <2>3 DEF ZeroCoordinator, CoordinatorState
<1>3. /\ z.run_state = "Uninitialized" /\ z.rounds_head = 0 /\ z.pending_pause = FALSE
      /\ z.clients = {} /\ z.exited_clients = {}
      /\ \A s \in Slot : z.rounds[s].height = 0
  BY DEF ZeroCoordinator, ZeroRound
<1> HIDE DEF z
<1>4. current_round(z).height = 0
  BY <1>1, <1>3 DEF current_round
<1>5. RingInv(z) /\ PreviousInv(z)
  <2>1. \A back \in 0 .. 3 : back <= 0 => (0 - back) % 4 = 0 /\ 0 - back = 0
    OBVIOUS
  <2>2. has_previous_round(z) = FALSE
    BY <1>3, <1>4 DEF has_previous_round
  <2> QED
    BY <1>1, <1>3, <1>4, <2>1, <2>2 DEF RingInv, PreviousInv, NUM_STORED_ROUNDS
<1>6. /\ ConfigInv(z) /\ RosterInv(z) /\ PartitionInv(z) /\ WitnessInv(z)
      /\ PauseInv(z) /\ StepInv(z)
  BY <1>3 DEF ConfigInv, RosterInv, PartitionInv, WitnessInv, PauseInv, StepInv, Training
<1> QED
  BY <1>2, <1>5, <1>6 DEF CoInv, z

(* The initial state satisfies the inductive invariant. *)
LEMMA InitInv == Init => Inv
<1> SUFFICES ASSUME Init PROVE Inv
  OBVIOUS
<1>1. CoInv(coordinator)
  BY ZeroCoordinatorInv DEF Init
<1>2. clients_state \in ClientsState
  <2>1. ZeroRates \in ClientsEpochRates /\ 0 \in 0 .. MaxClients
    BY CoordinatorAssumption DEF ZeroRates, ClientsEpochRates
  <2> QED
    BY <2>1 DEF Init, ZeroClientsState, ClientsState
<1>3. hist \in Hist
  BY DEF Init, Hist
<1>4. coordinator.run_state = "Uninitialized" /\ coordinator.epoch_start_data_index = 0
  BY DEF Init, ZeroCoordinator
<1>5. FlagInv /\ LedgerInv /\ DataInv
  BY <1>4 DEF Init, FlagInv, LedgerInv, DataInv, InEpoch, DataEnd, active
<1> QED
  BY <1>1, <1>2, <1>3, <1>5 DEF Inv

-----------------------------------------------------------------------------
(* What a transaction does. *)

(* The settlement of an epoch keeps the type, the rates and the flags. *)
LEMMA SettleType ==
    ASSUME NEW co \in CoordinatorState, NEW cs \in ClientsState
    PROVE  /\ Settle(co, cs) \in ClientsState
           /\ Settle(co, cs).current_epoch_rates = cs.current_epoch_rates
           /\ Settle(co, cs).is_warmup_first_tick = cs.is_warmup_first_tick
<1> DEFINE n == Cardinality(co.clients)
           total == cs.current_epoch_rates.earning_rate_total_shared
           rate == cs.current_epoch_rates.slashing_rate_per_client
           share == IF n = 0 THEN 0 ELSE total \div n
           earned == [c \in Client |->
               IF c <= cs.clients /\ c \in Finishers(co)
               THEN cs.earned[c] + share ELSE cs.earned[c]]
           slashed == [c \in Client |->
               IF c <= cs.clients /\ c \in Charged(co)
               THEN cs.slashed[c] + rate ELSE cs.slashed[c]]
<1>1. n \in Nat
  BY ClientsFinite DEF CoordinatorState
<1>2. total \in Nat /\ rate \in Nat
  BY DEF ClientsState, ClientsEpochRates
<1>3. \A a \in Nat, b \in Nat \ {0} : a \div b \in Nat
  OBVIOUS
<1>4. share \in Nat
  <2> HIDE DEF n, total
  <2> QED
    BY <1>1, <1>2, <1>3
<1>5. Settle(co, cs) = [cs EXCEPT !.earned = earned, !.slashed = slashed]
  BY DEF Settle
<1> HIDE DEF share, rate
<1>6. cs.earned \in [Client -> Nat] /\ cs.slashed \in [Client -> Nat]
  BY DEF ClientsState
<1>7. earned \in [Client -> Nat] /\ slashed \in [Client -> Nat]
  BY <1>2, <1>4, <1>6
<1> HIDE DEF earned, slashed
<1> QED
  BY <1>5, <1>7 DEF ClientsState

(* InstanceTick keeps the type of clients_state; it changes the rates only *)
(* when a warmup begins, and leaves no first-tick flag behind in an epoch. *)
LEMMA InstanceTickType ==
    ASSUME NEW co, CoInv(co), ~halted(co), NEW cs \in ClientsState, NEW seed \in Seeds,
           co.run_state \in InEpoch => cs.is_warmup_first_tick = FALSE
    PROVE  LET t == InstanceTick(co, cs, seed)
           IN  /\ t.cs \in ClientsState
               /\ t.co.run_state \in InEpoch => t.cs.is_warmup_first_tick = FALSE
               /\ co.run_state \in InEpoch =>
                     t.cs.current_epoch_rates = cs.current_epoch_rates
<1> DEFINE k == tick(co, cs.active, seed)
           n == k.co
           pre == ResetFirstTicks(co, cs)
           t == InstanceTick(co, cs, seed)
<1>1. cs.active \in SUBSET Client
  BY DEF ClientsState
<1>2. n \in CoordinatorState /\ EpochStep(co, n, k.epoch_end)
  BY <1>1, TickInv, TickEpochStep DEF CoInv
<1>3. /\ pre \in ClientsState
      /\ pre.current_epoch_rates = cs.current_epoch_rates
      /\ pre.is_warmup_first_tick =
            IF co.run_state = "WaitingForMembers" THEN TRUE ELSE cs.is_warmup_first_tick
  BY DEF ResetFirstTicks, ClientsState
<1>4. /\ t.co = n
      /\ t.cs = IF k.epoch_end THEN Settle(n, pre) ELSE NoteEpochStart(n, pre)
  BY DEF InstanceTick
<1> HIDE DEF t, k, pre
<1>5. CASE k.epoch_end
  <2>1. n.run_state \notin InEpoch
    BY <1>2, <1>5 DEF EpochStep, InEpoch
  <2> QED
    BY <1>2, <1>3, <1>4, <1>5, <2>1, SettleType DEF t
<1>6. CASE ~k.epoch_end
  <2> DEFINE m == NoteEpochStart(n, pre)
  <2>1. m \in ClientsState
    BY <1>3 DEF NoteEpochStart, ClientsState
  <2>2. n.run_state \in InEpoch => m.is_warmup_first_tick = FALSE
    <3>1. CASE co.run_state \in InEpoch
      <4>1. pre.is_warmup_first_tick = FALSE
        BY <1>3, <3>1 DEF InEpoch
      <4> QED
        BY <1>3, <4>1 DEF NoteEpochStart, ClientsState
    <3>2. CASE co.run_state \notin InEpoch
      <4> SUFFICES ASSUME n.run_state \in InEpoch PROVE m.is_warmup_first_tick = FALSE
        OBVIOUS
      <4>1. is_warmup_just_starting(n)
        BY <1>2, <3>2 DEF EpochStep, is_warmup_just_starting
      <4> QED
        BY <1>3, <4>1 DEF NoteEpochStart, ClientsState
    <3> QED
      BY <3>1, <3>2
  <2>3. co.run_state \in InEpoch => m.current_epoch_rates = cs.current_epoch_rates
    <3> SUFFICES ASSUME co.run_state \in InEpoch
                 PROVE  m.current_epoch_rates = cs.current_epoch_rates
      OBVIOUS
    <3>1. pre.is_warmup_first_tick = FALSE
      BY <1>3 DEF InEpoch
    <3> QED
      BY <1>3, <3>1 DEF NoteEpochStart, ClientsState
  <2> QED
    BY <1>4, <1>6, <2>1, <2>2, <2>3 DEF t
<1> QED
  BY <1>5, <1>6

(* The history of an EpochStep: charges follow ejections, and the data end *)
(* moves exactly when a round starts.                                      *)
LEMMA NotedInv ==
    ASSUME Inv, NEW n, CoInv(n), NEW e \in BOOLEAN, EpochStep(coordinator, n, e),
           coordinator' = n, hist' = Noted(n, e)
    PROVE  /\ hist' \in Hist
           /\ LedgerInv'
           /\ DataInv'
           /\ StartsRound(coordinator, n) => current_round(n).data_index = hist.data_end
<1> DEFINE Ejection(c) == IF /\ coordinator.state[c] # "Ejected"
                             /\ n.state[c] = "Ejected" THEN 1 ELSE 0
           Charge(c) == IF e /\ c \in Charged(n) THEN 1 ELSE 0
           unch == [c \in Client |-> hist.uncharged[c] + Ejection(c) - Charge(c)]
           end == IF StartsRound(coordinator, n) THEN RoundEnd(n) ELSE hist.data_end
           hold == IF n.epoch # coordinator.epoch
                   THEN {c \in coordinator.clients : coordinator.state[c] = "Healthy"}
                   ELSE hist.holders
<1>1. /\ coordinator \in CoordinatorState /\ n \in CoordinatorState
      /\ hist \in Hist /\ LedgerInv /\ DataInv
  BY DEF Inv, CoInv
<1>2. hist' = [hist EXCEPT !.uncharged = unch, !.data_end = end, !.holders = hold]
  BY <1>1 DEF Noted, StartsRound, RoundEnd, Hist
<1>3. RoundEnd(n) \in Nat \/ ~StartsRound(coordinator, n)
  <2> SUFFICES ASSUME StartsRound(coordinator, n) PROVE RoundEnd(n) \in Nat
    OBVIOUS
  <2>1. check_config(n.config) /\ n.config \in CoordinatorConfig
    BY <1>1 DEF CoInv, ConfigInv, StartsRound, CoordinatorState
  <2>2. current_round(n).data_index \in Nat
    BY <1>1 DEF CoordinatorState, current_round, Round
  <2> QED
    BY <2>1, <2>2, BatchSizeType DEF RoundEnd
<1>4. end \in Nat /\ hold \in SUBSET Client
  BY <1>1, <1>3 DEF Hist, CoordinatorState
<1>5. \A c \in Client : hist.uncharged[c] \in Int
  BY <1>1 DEF Hist
<1>6. /\ unch \in [Client -> Int]
      /\ \A c \in Client : unch[c] = hist.uncharged[c] + Ejection(c) - Charge(c)
  <2>1. \A c \in Client : Ejection(c) \in Int /\ Charge(c) \in Int
    OBVIOUS
  <2> HIDE DEF Ejection, Charge
  <2> QED
    BY <1>5, <2>1
<1> HIDE DEF unch, end, hold
<1>7. /\ hist' \in Hist /\ hist'.uncharged = unch /\ hist'.data_end = end
  BY <1>1, <1>2, <1>4, <1>6 DEF Hist
<1>8. LedgerInv'
  <2> SUFFICES ASSUME NEW c \in Client
               PROVE  /\ unch[c] >= 0
                      /\ n.run_state \in InEpoch /\ n.state[c] = "Ejected" =>
                            unch[c] >= 1
    BY <1>7 DEF LedgerInv
  <2>1. /\ hist.uncharged[c] >= 0 /\ hist.uncharged[c] \in Int
        /\ coordinator.run_state \in InEpoch /\ coordinator.state[c] = "Ejected" =>
              hist.uncharged[c] >= 1
    BY <1>1, <1>5 DEF LedgerInv
  <2>2. n.state[c] = "Ejected" => coordinator.state[c] = "Ejected"
    BY DEF EpochStep
  <2>3. Ejection(c) = 0
    BY <2>2
  <2>4. CASE e /\ c \in Charged(n)
    <3>1. coordinator.run_state \in InEpoch /\ n.run_state \notin InEpoch
      BY <2>4 DEF EpochStep, InEpoch
    <3>2. n.state[c] = "Ejected"
      BY <2>4 DEF Charged
    <3>3. Charge(c) = 1 /\ hist.uncharged[c] >= 1
      BY <2>1, <2>2, <2>4, <3>1, <3>2
    <3> HIDE DEF Charge, Ejection
    <3>4. unch[c] = hist.uncharged[c] - 1
      BY <1>6, <2>1, <2>3, <3>3
    <3> QED
      BY <2>1, <3>1, <3>3, <3>4
  <2>5. CASE ~(e /\ c \in Charged(n))
    <3>1. Charge(c) = 0
      BY <2>5
    <3> HIDE DEF Charge, Ejection
    <3>2. unch[c] = hist.uncharged[c]
      BY <1>6, <2>1, <2>3, <3>1
    <3>3. n.run_state \in InEpoch /\ n.state[c] = "Ejected" =>
             coordinator.run_state \in InEpoch
      BY DEF EpochStep
    <3> QED
      BY <2>1, <2>2, <3>2, <3>3
  <2> QED
    BY <2>4, <2>5
<1>9. DataInv'
  <2>1. StartsRound(coordinator, n) => DataEnd(n) = RoundEnd(n)
    BY DEF StartsRound, DataEnd, active
  <2>2. ~StartsRound(coordinator, n) => DataEnd(n) = hist.data_end
    BY <1>1 DEF EpochStep, DataInv
  <2>3. end = DataEnd(n)
    BY <2>1, <2>2 DEF end
  <2> QED
    BY <1>7, <2>3 DEF DataInv
<1>10. StartsRound(coordinator, n) => current_round(n).data_index = hist.data_end
  BY <1>1 DEF EpochStep, DataInv
<1> QED
  BY <1>7, <1>8, <1>9, <1>10

(* A tick right after the state changed does nothing, except in warmup. *)
LEMMA FreshTick ==
    ASSUME NEW co, co.elapsed = 0, NEW pending, NEW seed,
           co.run_state \in {"WaitingForMembers", "RoundTrain", "RoundWitness"}
    PROVE  tick(co, pending, seed) = [co |-> co, epoch_end |-> FALSE]
BY DEF tick, tick_waiting_for_members, tick_round_train, tick_round_witness,
       check_timeout

(* A method that changed neither the run state nor where the data ends,    *)
(* and ejected nobody.                                                     *)
Quiet(co, m) ==
    /\ m.run_state = co.run_state
    /\ DataEnd(m) = DataEnd(co)
    /\ \A c \in Client : m.state[c] = "Ejected" => co.state[c] = "Ejected"

(* A method that just changed the run state, itself an EpochStep. *)
Fresh(co, m) ==
    /\ m.elapsed = 0
    /\ m.run_state \in {"WaitingForMembers", "RoundTrain", "RoundWitness"}
    /\ m.run_state \in InEpoch <=> co.run_state \in InEpoch
    /\ EpochStep(co, m, FALSE)

(* A method that is quiet or fresh, followed by the tick, keeps Inv. *)
LEMMA TransactionInv ==
    ASSUME Inv, NEW m, CoInv(m), Quiet(coordinator, m) \/ Fresh(coordinator, m),
           NEW cs \in ClientsState,
           cs.is_warmup_first_tick = clients_state.is_warmup_first_tick,
           cs.current_epoch_rates = clients_state.current_epoch_rates,
           NEW seed \in Seeds, Ticked(m, cs, seed)
    PROVE  Inv' /\ StepOK
<1> DEFINE k == tick(m, cs.active, seed)
           t == InstanceTick(m, cs, seed)
<1>1. ~halted(m)
  BY DEF Ticked, tick_ok
<1>2. cs.active \in SUBSET Client
  BY DEF ClientsState
<1>3. /\ coordinator' = k.co /\ clients_state' = t.cs
      /\ hist' = Noted(k.co, k.epoch_end) /\ t.co = k.co
  BY DEF Ticked, InstanceTick
<1>4. CoInv(k.co) /\ EpochStep(m, k.co, k.epoch_end)
  BY <1>1, <1>2, TickInv, TickEpochStep
<1>5. k.epoch_end \in BOOLEAN
  BY DEF tick, tick_warmup, tick_cooldown
<1>6. m.run_state \in InEpoch <=> coordinator.run_state \in InEpoch
  BY DEF Quiet, Fresh
<1>7. m.run_state \in InEpoch => cs.is_warmup_first_tick = FALSE
  BY <1>6 DEF Inv, FlagInv
<1>8. /\ t.cs \in ClientsState
      /\ t.co.run_state \in InEpoch => t.cs.is_warmup_first_tick = FALSE
      /\ m.run_state \in InEpoch => t.cs.current_epoch_rates = cs.current_epoch_rates
  BY <1>1, <1>7, InstanceTickType
<1>9. EpochStep(coordinator, k.co, k.epoch_end)
  <2>1. CASE Fresh(coordinator, m)
    <3>1. k.co = m /\ k.epoch_end = FALSE
      BY <2>1, FreshTick DEF Fresh
    <3> QED
      BY <2>1, <3>1 DEF Fresh
  <2>2. CASE Quiet(coordinator, m)
    <3> HIDE DEF k
    <3> QED
      BY <1>4, <2>2 DEF Quiet, EpochStep, StartsRound
  <2> QED
    BY <2>1, <2>2
<1> HIDE DEF k, t
<1>10. /\ hist' \in Hist /\ LedgerInv' /\ DataInv'
       /\ StartsRound(coordinator, k.co) =>
             current_round(k.co).data_index = hist.data_end
  BY <1>3, <1>4, <1>5, <1>9, NotedInv
<1>11. FlagInv'
  BY <1>3, <1>8 DEF FlagInv
<1> QED
  BY <1>3, <1>4, <1>6, <1>8, <1>10, <1>11 DEF Inv, StepOK

-----------------------------------------------------------------------------
(* One lemma per instruction. *)

(* Two coordinators that agree on the fields DataEnd reads. *)
LEMMA SameDataEnd ==
    ASSUME NEW co, NEW m, co.rounds_head \in Slot, m.run_state = co.run_state,
           m.config = co.config, m.rounds_head = co.rounds_head,
           m.rounds[co.rounds_head].data_index = co.rounds[co.rounds_head].data_index,
           m.epoch_start_data_index = co.epoch_start_data_index
    PROVE  DataEnd(m) = DataEnd(co)
BY DEF DataEnd, RoundEnd, active, current_round

(* tick preserves Inv. *)
LEMMA TickCallInv == ASSUME Inv, Tick PROVE Inv' /\ StepOK
<1>1. PICK seed \in Seeds : Ticked(coordinator, clients_state, seed)
  BY DEF Tick
<1>2. Quiet(coordinator, coordinator)
  BY DEF Quiet
<1> QED
  BY <1>1, <1>2, TransactionInv DEF Inv

(* join_run preserves Inv. *)
LEMMA JoinInv == ASSUME Inv, NEW c \in Client, Join(c) PROVE Inv' /\ StepOK
<1> DEFINE n == clients_state.clients
           len == IF c = n + 1 THEN n + 1 ELSE n
           act == clients_state.active \cup {c}
           cs == [clients_state EXCEPT !.clients = len, !.active = act]
<1>1. clients_state \in ClientsState
  BY DEF Inv
<1>2. len \in 0 .. MaxClients /\ act \in SUBSET Client
  <2>1. n \in 0 .. MaxClients /\ clients_state.active \in SUBSET Client
    BY <1>1 DEF ClientsState
  <2> QED
    BY <2>1, CoordinatorAssumption DEF Client
<1>3. \/ halted(coordinator) /\ clients_state' = cs /\ UNCHANGED <<coordinator, hist>>
      \/ \E seed \in Seeds : Ticked(coordinator, cs, seed)
  BY DEF Join
<1> HIDE DEF len, act
<1>4. /\ cs \in ClientsState
      /\ cs.is_warmup_first_tick = clients_state.is_warmup_first_tick
      /\ cs.current_epoch_rates = clients_state.current_epoch_rates
  BY <1>1, <1>2 DEF ClientsState
<1> HIDE DEF cs
<1>5. CASE halted(coordinator) /\ clients_state' = cs /\ UNCHANGED <<coordinator, hist>>
  BY <1>4, <1>5 DEF Inv, FlagInv, LedgerInv, DataInv, StepOK, StartsRound
<1>6. ASSUME NEW seed \in Seeds, Ticked(coordinator, cs, seed) PROVE Inv' /\ StepOK
  <2>1. Quiet(coordinator, coordinator)
    BY DEF Quiet
  <2> QED
    BY <1>4, <1>6, <2>1, TransactionInv DEF Inv
<1> QED
  BY <1>3, <1>5, <1>6

(* witness preserves Inv. *)
LEMMA WitnessesInv == ASSUME Inv, NEW c \in Client, Witnesses(c) PROVE Inv' /\ StepOK
<1>1. PICK bloom \in Blooms, seed \in Seeds :
          Ticked(witness(coordinator, c, bloom), clients_state, seed)
  BY DEF Witnesses
<1> DEFINE co == coordinator
           w == AddWitness(co, c, bloom)
           m == witness(co, c, bloom)
<1>2. CoInv(co) /\ witness_ok(co, c) /\ bloom \in SUBSET Client
  BY InstanceAssumption DEF Inv, Witnesses
<1>3. CoInv(m)
  BY <1>2, WitnessCallInv
<1>4. co \in CoordinatorState /\ co.rounds_head \in Slot
  BY <1>2 DEF CoInv, CoordinatorState
<1>5. /\ w \in CoordinatorState /\ w.run_state = co.run_state /\ w.config = co.config
      /\ w.epoch_start_data_index = co.epoch_start_data_index
      /\ w.rounds_head = co.rounds_head /\ w.state = co.state
      /\ \A s \in Slot : w.rounds[s].data_index = co.rounds[s].data_index
  BY <1>2, <1>4, AddWitnessFields
<1>6. \/ m = w
      \/ co.run_state = "RoundTrain" /\ m = change_state(w, "RoundWitness")
  BY <1>2 DEF witness, witness_ok
<1> HIDE DEF w, m
<1>7. CASE m = w
  <2>1. Quiet(co, m)
    BY <1>4, <1>5, <1>7, SameDataEnd DEF Quiet
  <2> QED
    BY <1>1, <1>3, <2>1, TransactionInv DEF Inv, m
<1>8. CASE co.run_state = "RoundTrain" /\ m = change_state(w, "RoundWitness")
  <2>1. /\ m.run_state = "RoundWitness" /\ m.elapsed = 0 /\ m.config = co.config
        /\ m.rounds = w.rounds /\ m.rounds_head = co.rounds_head /\ m.state = co.state
    BY <1>5, <1>8, ChangeStateFields DEF RunState
  <2>2. DataEnd(m) = DataEnd(co)
    BY <1>4, <1>5, <1>8, <2>1 DEF DataEnd, RoundEnd, active, current_round
  <2>3. Fresh(co, m)
    BY <1>8, <2>1, <2>2 DEF Fresh, EpochStep, InEpoch, StartsRound
  <2> QED
    BY <1>1, <1>3, <2>3, TransactionInv DEF Inv, m
<1> QED
  BY <1>6, <1>7, <1>8

(* warmup_witness preserves Inv. *)
LEMMA WarmupWitnessesInv ==
    ASSUME Inv, NEW c \in Client, WarmupWitnesses(c) PROVE Inv' /\ StepOK
<1>1. PICK bloom \in Blooms, seed \in Seeds :
          Ticked(warmup_witness(coordinator, c, bloom, seed), clients_state, seed)
  BY DEF WarmupWitnesses
<1> DEFINE co == coordinator
           w == AddWitness(co, c, bloom)
           m == warmup_witness(co, c, bloom, seed)
<1>2. CoInv(co) /\ warmup_witness_ok(co, c) /\ bloom \in SUBSET Client
  BY InstanceAssumption DEF Inv, WarmupWitnesses
<1>3. CoInv(m)
  BY <1>2, WarmupWitnessCallInv
<1>4. co \in CoordinatorState /\ co.rounds_head \in Slot
  BY <1>2 DEF CoInv, CoordinatorState
<1>5. /\ w \in CoordinatorState /\ w.run_state = co.run_state /\ w.config = co.config
      /\ w.epoch_start_data_index = co.epoch_start_data_index
      /\ w.rounds_head = co.rounds_head /\ w.state = co.state
      /\ w.first_round = co.first_round
      /\ \A s \in Slot : w.rounds[s].data_index = co.rounds[s].data_index
  BY <1>2, <1>4, AddWitnessFields
<1>6. \/ m = co
      \/ m = w
      \/ co.run_state = "Warmup" /\ m = start_round_train(w, seed)
  BY <1>2 DEF warmup_witness, warmup_witness_ok
<1> HIDE DEF w, m
<1>7. CASE m = co
  <2>1. Quiet(co, m)
    BY <1>7 DEF Quiet
  <2> QED
    BY <1>1, <1>3, <2>1, TransactionInv DEF Inv, m
<1>8. CASE m = w
  <2>1. Quiet(co, m)
    BY <1>4, <1>5, <1>8, SameDataEnd DEF Quiet
  <2> QED
    BY <1>1, <1>3, <2>1, TransactionInv DEF Inv, m
<1>9. CASE co.run_state = "Warmup" /\ m = start_round_train(w, seed)
  <2>1. co.first_round /\ check_config(co.config)
    BY <1>2, <1>9 DEF CoInv, StepInv, ConfigInv
  <2>2. /\ m.run_state = "RoundTrain" /\ m.elapsed = 0 /\ m.state = co.state
        /\ m.rounds_head = 0 /\ m.rounds[0].data_index = co.epoch_start_data_index
    <3>1. w \in CoordinatorState /\ check_config(w.config) /\ w.first_round
      BY <1>5, <2>1
    <3>2. LET n == start_round_train(w, seed)
          IN  /\ n.run_state = "RoundTrain" /\ n.elapsed = 0 /\ n.state = w.state
              /\ n.rounds_head = 0 /\ n.rounds[0].data_index = w.epoch_start_data_index
      BY <3>1, StartRoundTrainFields
    <3> QED
      BY <1>5, <1>9, <3>2
  <2>3. Fresh(co, m)
    BY <1>9, <2>2
    DEF Fresh, EpochStep, InEpoch, StartsRound, current_round, DataEnd, active
  <2> QED
    BY <1>1, <1>3, <2>3, TransactionInv DEF Inv, m
<1> QED
  BY <1>6, <1>7, <1>8, <1>9

(* health_check preserves Inv. *)
LEMMA HealthCheckCallInv ==
    ASSUME Inv, NEW c \in Client, HealthCheck(c) PROVE Inv' /\ StepOK
<1> DEFINE co == coordinator
           m == health_check(co, c)
<1>1. PICK seed \in Seeds : Ticked(m, clients_state, seed)
  BY DEF HealthCheck
<1>2. CoInv(co) /\ health_check_ok(co, c)
  BY DEF Inv, HealthCheck
<1>3. CoInv(m)
  BY <1>2, HealthCheckInv
<1>4. co \in CoordinatorState /\ co.rounds_head \in Slot
  BY <1>2 DEF CoInv, CoordinatorState
<1>5. /\ m.run_state = co.run_state /\ m.config = co.config
      /\ m.epoch_start_data_index = co.epoch_start_data_index
      /\ m.rounds_head = co.rounds_head /\ m.rounds = co.rounds
      /\ \A d \in Client : m.state[d] = "Ejected" => co.state[d] = "Ejected"
  BY <1>4 DEF health_check, CoordinatorState
<1>6. Quiet(co, m)
  BY <1>4, <1>5, SameDataEnd DEF Quiet
<1> HIDE DEF m
<1> QED
  BY <1>1, <1>3, <1>6, TransactionInv DEF Inv

(* checkpoint preserves Inv. *)
LEMMA CheckpointsInv ==
    ASSUME Inv, NEW c \in Client, Checkpoints(c) PROVE Inv' /\ StepOK
<1>1. PICK offered \in Repos, seed \in Seeds :
          LET co == checkpoint(coordinator, offered)
          IN  IF halted(co)
              THEN coordinator' = co /\ UNCHANGED <<clients_state, hist>>
              ELSE Ticked(co, clients_state, seed)
  BY DEF Checkpoints
<1> DEFINE co == coordinator
           m == checkpoint(co, offered)
<1>2. CoInv(co) /\ offered \in Checkpoint
  BY InstanceAssumption DEF Inv
<1>3. CoInv(m)
  BY <1>2, CheckpointInv
<1>4. co \in CoordinatorState /\ co.rounds_head \in Slot
  BY <1>2 DEF CoInv, CoordinatorState
<1>5. /\ m.run_state = co.run_state /\ m.config = co.config
      /\ m.epoch_start_data_index = co.epoch_start_data_index
      /\ m.rounds_head = co.rounds_head /\ m.rounds = co.rounds /\ m.state = co.state
  BY <1>4 DEF checkpoint, CoordinatorState
<1> HIDE DEF m
<1>6. Quiet(co, m)
  BY <1>4, <1>5, SameDataEnd DEF Quiet
<1>7. CASE halted(m) /\ coordinator' = m /\ UNCHANGED <<clients_state, hist>>
  BY <1>3, <1>5, <1>6, <1>7
  DEF Inv, FlagInv, LedgerInv, DataInv, StepOK, StartsRound, Quiet
<1>8. CASE Ticked(m, clients_state, seed)
  BY <1>3, <1>6, <1>8, TransactionInv DEF Inv
<1> QED
  BY <1>1, <1>7, <1>8 DEF m

(* slash_client preserves Inv: the ejection is remembered as uncharged. *)
LEMMA SlashInv == ASSUME Inv, NEW c \in Client, Slash(c) PROVE Inv' /\ StepOK
<1> DEFINE co == coordinator
           m == eject(co, c)
           h == Noted(m, FALSE)
           unch == [d \in Client |->
               hist.uncharged[d] + (IF co.state[d] # "Ejected" /\ m.state[d] = "Ejected"
                                    THEN 1 ELSE 0) - 0]
<1>1. CoInv(co) /\ eject_ok(co, c) /\ hist \in Hist /\ LedgerInv /\ DataInv
  BY DEF Inv, Slash
<1>2. CoInv(m)
  BY <1>1, EjectInv
<1>3. co \in CoordinatorState /\ co.rounds_head \in Slot
  BY <1>1 DEF CoInv, CoordinatorState
<1>4. /\ m.run_state = co.run_state /\ m.config = co.config /\ m.epoch = co.epoch
      /\ m.epoch_start_data_index = co.epoch_start_data_index
      /\ m.rounds_head = co.rounds_head /\ m.rounds = co.rounds
      /\ m.state[c] = "Ejected"
      /\ \A d \in Client \ {c} : m.state[d] = co.state[d]
  BY <1>3 DEF eject, CoordinatorState
<1>5. coordinator' = m /\ clients_state' = clients_state
  BY DEF Slash
<1>6. h = [hist EXCEPT !.uncharged = unch]
  BY <1>1, <1>4 DEF Noted, Hist
<1>7. hist' = [h EXCEPT !.ejections = h.ejections + 1]
  BY DEF Slash
<1>8. \A d \in Client : hist.uncharged[d] \in Int
  BY <1>1 DEF Hist
<1> HIDE DEF m
<1>9. unch \in [Client -> Int]
  BY <1>8
<1>10. \A d \in Client :
          /\ unch[d] >= hist.uncharged[d]
          /\ co.state[d] # "Ejected" /\ m.state[d] = "Ejected" =>
                unch[d] = hist.uncharged[d] + 1
  BY <1>8
<1> HIDE DEF unch, h
<1>11. /\ hist' \in Hist /\ hist'.uncharged = unch /\ hist'.data_end = hist.data_end
  <2>1. h \in Hist /\ h.uncharged = unch /\ h.data_end = hist.data_end
    BY <1>1, <1>6, <1>9 DEF Hist
  <2>2. h.ejections + 1 \in Nat
    BY <2>1 DEF Hist
  <2> QED
    BY <1>7, <2>1, <2>2 DEF Hist
<1>12. LedgerInv'
  <2> SUFFICES ASSUME NEW d \in Client
               PROVE  /\ unch[d] >= 0
                      /\ m.run_state \in InEpoch /\ m.state[d] = "Ejected" =>
                            unch[d] >= 1
    BY <1>5, <1>11 DEF LedgerInv
  <2>1. /\ unch[d] \in Int /\ hist.uncharged[d] \in Int /\ hist.uncharged[d] >= 0
        /\ co.run_state \in InEpoch /\ co.state[d] = "Ejected" => hist.uncharged[d] >= 1
    BY <1>1, <1>8, <1>9 DEF LedgerInv
  <2> QED
    BY <1>4, <1>10, <2>1
<1>13. DataInv'
  <2>1. DataEnd(m) = DataEnd(co)
    BY <1>3, <1>4, SameDataEnd
  <2> QED
    BY <1>1, <1>5, <1>11, <2>1 DEF DataInv
<1>14. FlagInv' /\ StepOK
  BY <1>4, <1>5 DEF Inv, FlagInv, StepOK, StartsRound
<1> QED
  BY <1>2, <1>5, <1>11, <1>12, <1>13, <1>14 DEF Inv

(* set_paused(true) preserves Inv. *)
LEMMA PausesInv == ASSUME Inv, Pause PROVE Inv' /\ StepOK
<1> DEFINE co == coordinator
           m == pause(co)
<1>1. /\ CoInv(co) /\ ~halted(co) /\ coordinator' = m
      /\ UNCHANGED <<clients_state, hist>>
  BY DEF Inv, Pause
<1>2. CoInv(m)
  BY <1>1, PauseCallInv
<1>3. co \in CoordinatorState /\ co.rounds_head \in Slot
  BY <1>1 DEF CoInv, CoordinatorState
<1>4. /\ m.run_state = co.run_state \/ m.run_state = "Paused"
      /\ DataEnd(m) = DataEnd(co)
      /\ m.run_state \in InEpoch => m.state = co.state
  <2>1. CASE active(co)
    <3>1. /\ m.run_state = co.run_state /\ m.config = co.config
          /\ m.epoch_start_data_index = co.epoch_start_data_index
          /\ m.rounds_head = co.rounds_head /\ m.rounds = co.rounds
          /\ m.state = co.state
      BY <1>3, <2>1 DEF pause, CoordinatorState
    <3> HIDE DEF m
    <3> QED
      BY <1>3, <3>1, SameDataEnd
  <2>2. CASE ~active(co)
    <3> DEFINE w == withdraw_all(co)
               p == change_state(w, "Paused")
    <3>1. w \in CoordinatorState /\ w.epoch_start_data_index = co.epoch_start_data_index
      BY <1>3, WithdrawAllFields
    <3> HIDE DEF w
    <3>2. "Paused" \in RunState
      BY DEF RunState
    <3>3. /\ p \in CoordinatorState /\ p.run_state = "Paused"
          /\ p.epoch_start_data_index = co.epoch_start_data_index
      BY <3>1, <3>2, ChangeStateFields
    <3>4. m = [p EXCEPT !.cold_start_epoch = TRUE]
      BY <2>2 DEF pause, w
    <3> HIDE DEF p, m
    <3>5. /\ m.run_state = "Paused"
          /\ m.epoch_start_data_index = co.epoch_start_data_index
      BY <3>3, <3>4 DEF CoordinatorState
    <3> QED
      BY <2>2, <3>5 DEF DataEnd, active, InEpoch
  <2> QED
    BY <2>1, <2>2
<1> HIDE DEF m
<1>5. FlagInv' /\ LedgerInv' /\ DataInv' /\ StepOK
  BY <1>1, <1>4
  DEF Inv, FlagInv, LedgerInv, DataInv, StepOK, StartsRound, InEpoch
<1> QED
  BY <1>1, <1>2, <1>5 DEF Inv

(* set_paused(false) preserves Inv, from Uninitialized too. *)
LEMMA ResumeInv == ASSUME Inv, Resume PROVE Inv' /\ StepOK
<1> DEFINE co == IF coordinator.run_state = "Uninitialized"
                 THEN [coordinator EXCEPT !.run_state = "Paused", !.step = 1]
                 ELSE coordinator
           m == resume(co)
           cs == [clients_state EXCEPT !.active = {}]
<1>1. PICK seed \in Seeds : Ticked(m, cs, seed)
  BY DEF Resume
<1>2. check_config(co.config) /\ co.run_state = "Paused"
  BY DEF Resume
<1>3. CoInv(coordinator) /\ coordinator \in CoordinatorState
  BY DEF Inv, CoInv
<1>4. /\ co \in CoordinatorState /\ co.config = coordinator.config
      /\ co.rounds = coordinator.rounds /\ co.rounds_head = coordinator.rounds_head
      /\ co.clients = coordinator.clients
      /\ co.exited_clients = coordinator.exited_clients
      /\ co.state = coordinator.state /\ co.pending_pause = coordinator.pending_pause
      /\ co.epoch_start_data_index = coordinator.epoch_start_data_index
  BY <1>3 DEF CoordinatorState, RunState
<1>5. coordinator.run_state \in {"Uninitialized", "Paused"}
  BY <1>2
<1> HIDE DEF co
<1>6. CoInv(co)
  <2>1. ~co.pending_pause
    BY <1>3, <1>4, <1>5 DEF CoInv, PauseInv, active
  <2>2. RingInv(co) /\ PreviousInv(co)
    BY <1>3, <1>4, RingStable, PreviousStable DEF CoInv
  <2>3. PartitionInv(co)
    BY <1>3, <1>4 DEF CoInv, PartitionInv
  <2>4. ConfigInv(co) /\ RosterInv(co) /\ WitnessInv(co) /\ PauseInv(co) /\ StepInv(co)
    BY <1>2, <2>1 DEF ConfigInv, RosterInv, WitnessInv, PauseInv, StepInv, Training
  <2> QED
    BY <1>4, <2>2, <2>3, <2>4 DEF CoInv
<1>7. CoInv(m)
  BY <1>2, <1>6, ResumeCallInv
<1>8. /\ m.run_state \in {"WaitingForMembers", "Finished"}
      /\ m.epoch_start_data_index = coordinator.epoch_start_data_index
      /\ m.state = coordinator.state /\ m.elapsed = 0
  BY <1>4, StartWaitingForMembersFields DEF resume
<1> HIDE DEF m
<1>9. m.run_state = "WaitingForMembers"
  BY <1>1, <1>8 DEF Ticked, tick_ok, halted
<1>10. Fresh(coordinator, m)
  BY <1>5, <1>8, <1>9 DEF Fresh, EpochStep, InEpoch, StartsRound, DataEnd, active
<1>11. /\ cs \in ClientsState
       /\ cs.is_warmup_first_tick = clients_state.is_warmup_first_tick
       /\ cs.current_epoch_rates = clients_state.current_epoch_rates
  BY DEF Inv, ClientsState
<1> HIDE DEF cs
<1> QED
  BY <1>1, <1>7, <1>10, <1>11, TransactionInv

(* An Option holds what it was made of, or the default is taken. *)
LEMMA UnwrapOrType ==
    ASSUME NEW S, NEW T, S \subseteq T, NEW option \in Option(S), NEW default \in T
    PROVE  /\ UnwrapOr(option, default) \in T
           /\ option = {} => UnwrapOr(option, default) = default
BY DEF Option, UnwrapOr

(* update preserves Inv. *)
LEMMA UpdateInv ==
    ASSUME Inv, NEW config \in Option(Configs), NEW model \in Option(Models),
           NEW progress \in Option(Progresses), Update(config, model, progress)
    PROVE  Inv' /\ StepOK
<1> DEFINE co == coordinator
           cfg == UnwrapOr(config, co.config)
           mod == UnwrapOr(model,
                    [checkpoint |-> co.checkpoint,
                     cold_start_warmup_steps |-> co.cold_start_warmup_steps])
           pro == UnwrapOr(progress,
                    [epoch |-> co.epoch, step |-> co.step,
                     epoch_start_data_index |-> co.epoch_start_data_index])
           n == [co EXCEPT
                  !.config = cfg, !.checkpoint = mod.checkpoint,
                  !.cold_start_warmup_steps = mod.cold_start_warmup_steps,
                  !.epoch = pro.epoch, !.step = pro.step,
                  !.epoch_start_data_index = pro.epoch_start_data_index]
           end == IF progress = {} THEN hist.data_end ELSE pro.epoch_start_data_index
<1>1. CoInv(co) /\ co \in CoordinatorState /\ hist \in Hist /\ DataInv
  BY DEF Inv, CoInv
<1>2. /\ co.run_state \in {"Uninitialized", "Paused"}
      /\ config # {} => check_config(cfg)
      /\ coordinator' = n
      /\ hist' = [hist EXCEPT !.data_end = end]
      /\ clients_state' = clients_state
  BY DEF Update
<1>3. cfg \in CoordinatorConfig /\ (config = {} => cfg = co.config)
  BY <1>1, InstanceAssumption, UnwrapOrType DEF CoordinatorState
<1>4. mod \in ModelType
  <2>1. [checkpoint |-> co.checkpoint,
         cold_start_warmup_steps |-> co.cold_start_warmup_steps] \in ModelType
    BY <1>1 DEF CoordinatorState, ModelType
  <2> QED
    BY <2>1, InstanceAssumption, UnwrapOrType
<1>5. /\ pro \in ProgressType
      /\ progress = {} => pro.epoch_start_data_index = co.epoch_start_data_index
  <2> DEFINE old == [epoch |-> co.epoch, step |-> co.step,
                     epoch_start_data_index |-> co.epoch_start_data_index]
  <2>1. old \in ProgressType /\ old.epoch_start_data_index = co.epoch_start_data_index
    BY <1>1 DEF CoordinatorState, ProgressType
  <2>2. pro = UnwrapOr(progress, old)
    OBVIOUS
  <2> HIDE DEF old, pro
  <2> QED
    BY <2>1, <2>2, InstanceAssumption, UnwrapOrType
<1> HIDE DEF cfg, mod, pro
<1>6. /\ n \in CoordinatorState /\ n.run_state = co.run_state /\ n.config = cfg
      /\ n.rounds = co.rounds /\ n.rounds_head = co.rounds_head
      /\ n.clients = co.clients /\ n.exited_clients = co.exited_clients
      /\ n.state = co.state /\ n.pending_pause = co.pending_pause
      /\ n.epoch_start_data_index = pro.epoch_start_data_index
  BY <1>1, <1>3, <1>4, <1>5 DEF CoordinatorState, ModelType, ProgressType
<1> HIDE DEF n
<1>7. CoInv(n)
  <2>1. RingInv(n) /\ PreviousInv(n)
    BY <1>1, <1>6, RingStable, PreviousStable DEF CoInv
  <2>2. PartitionInv(n) /\ PauseInv(n)
    BY <1>1, <1>6 DEF CoInv, PartitionInv, PauseInv, active
  <2>3. ConfigInv(n)
    BY <1>1, <1>2, <1>3, <1>6 DEF CoInv, ConfigInv
  <2>4. RosterInv(n) /\ WitnessInv(n) /\ StepInv(n)
    BY <1>2, <1>6 DEF RosterInv, WitnessInv, StepInv, Training
  <2> QED
    BY <1>6, <2>1, <2>2, <2>3, <2>4 DEF CoInv
<1>8. /\ hist' \in Hist /\ hist'.uncharged = hist.uncharged /\ hist'.data_end = end
  BY <1>1, <1>2, <1>5 DEF Hist, ProgressType
<1>9. DataInv'
  BY <1>1, <1>2, <1>5, <1>6, <1>8 DEF DataInv, DataEnd, active
<1>10. FlagInv' /\ LedgerInv' /\ StepOK
  BY <1>2, <1>6, <1>8 DEF Inv, FlagInv, LedgerInv, StepOK, StartsRound
<1> QED
  BY <1>2, <1>7, <1>8, <1>9, <1>10 DEF Inv

(* set_future_epoch_rates preserves Inv. *)
LEMMA SetFutureEpochRatesInv ==
    ASSUME Inv, NEW rates \in Rates, SetFutureEpochRates(rates)
    PROVE  Inv' /\ StepOK
<1> DEFINE old == clients_state.future_epoch_rates
           new == [earning_rate_total_shared |->
                      UnwrapOr(rates.earning_rate_total_shared,
                               old.earning_rate_total_shared),
                   slashing_rate_per_client |->
                      UnwrapOr(rates.slashing_rate_per_client,
                               old.slashing_rate_per_client)]
<1>1. new \in ClientsEpochRates
  <2>1. old \in ClientsEpochRates
    BY DEF Inv, ClientsState
  <2>2. /\ rates.earning_rate_total_shared \subseteq Nat
        /\ rates.slashing_rate_per_client \subseteq Nat
    BY InstanceAssumption
  <2> QED
    BY <2>1, <2>2 DEF UnwrapOr, ClientsEpochRates
<1> HIDE DEF new
<1>2. /\ clients_state' \in ClientsState
      /\ clients_state'.is_warmup_first_tick = clients_state.is_warmup_first_tick
      /\ clients_state'.current_epoch_rates = clients_state.current_epoch_rates
      /\ UNCHANGED <<coordinator, hist>>
  <2>1. /\ clients_state' = [clients_state EXCEPT !.future_epoch_rates = new]
        /\ UNCHANGED <<coordinator, hist>>
    BY DEF SetFutureEpochRates, new
  <2> QED
    BY <1>1, <2>1 DEF Inv, ClientsState
<1> QED
  BY <1>2 DEF Inv, FlagInv, LedgerInv, DataInv, StepOK, StartsRound

(* The passage of time preserves Inv. *)
LEMMA ElapseInv == ASSUME Inv, Elapse PROVE Inv' /\ StepOK
<1> DEFINE co == coordinator
           Later(t, most) == IF t < most THEN t + 1 ELSE t
           a == Later(co.elapsed, RunStateDuration(co))
           b == IF EpochIsTimed(co) THEN Later(co.epoch_elapsed, co.config.epoch_time)
                ELSE co.epoch_elapsed
           n == [co EXCEPT !.elapsed = a, !.epoch_elapsed = b]
<1>1. CoInv(co) /\ co \in CoordinatorState /\ co.rounds_head \in Slot
  BY DEF Inv, CoInv, CoordinatorState
<1>2. a \in Nat /\ b \in Nat
  BY <1>1 DEF CoordinatorState
<1>3. coordinator' = n /\ UNCHANGED <<clients_state, hist>>
  BY DEF Elapse
<1> HIDE DEF a, b
<1>4. /\ n \in CoordinatorState
      /\ n.run_state = co.run_state /\ n.config = co.config /\ n.step = co.step
      /\ n.rounds = co.rounds /\ n.rounds_head = co.rounds_head
      /\ n.clients = co.clients /\ n.exited_clients = co.exited_clients
      /\ n.state = co.state /\ n.last_step = co.last_step
      /\ n.first_round = co.first_round /\ n.pending_pause = co.pending_pause
      /\ n.epoch_start_data_index = co.epoch_start_data_index
  BY <1>1, <1>2 DEF CoordinatorState
<1> HIDE DEF n
<1>5. CoInv(n) /\ DataEnd(n) = DataEnd(co)
  BY <1>1, <1>4, SameInv, SameDataEnd
<1> QED
  BY <1>3, <1>4, <1>5 DEF Inv, FlagInv, LedgerInv, DataInv, StepOK, StartsRound

(* Every step preserves Inv, and is one the action properties allow. *)
LEMMA NextInv == ASSUME Inv, [Next]_vars PROVE Inv' /\ (StepOK \/ UNCHANGED vars)
<1>1. CASE UNCHANGED vars
  BY <1>1 DEF vars, Inv, FlagInv, LedgerInv, DataInv
<1>2. CASE Tick
  BY <1>2, TickCallInv
<1>3. CASE Elapse
  BY <1>3, ElapseInv
<1>4. CASE Authority
  BY <1>4, PausesInv, ResumeInv, UpdateInv, SetFutureEpochRatesInv DEF Authority
<1>5. ASSUME NEW c \in Client, ClientCalls(c) PROVE Inv' /\ StepOK
  BY <1>5, JoinInv, WitnessesInv, WarmupWitnessesInv, HealthCheckCallInv,
     CheckpointsInv, SlashInv DEF ClientCalls
<1> QED
  BY <1>1, <1>2, <1>3, <1>4, <1>5 DEF Next

-----------------------------------------------------------------------------
(* The theorems. *)

(* Inv is an invariant of every run of the program. *)
THEOREM Invariance == Spec => []Inv
<1>1. Inv /\ [Next]_vars => Inv'
  BY NextInv
<1> QED
  BY <1>1, InitInv, PTL DEF Spec

(* Every instruction leaves every field of the account well typed: indices *)
(* stay within the ring, rosters within the client list, balances natural. *)
THEOREM TypeCorrectness == Spec => []TypeOK
<1>1. Inv => TypeOK
  BY DEF Inv, CoInv, TypeOK
<1> QED
  BY <1>1, Invariance, PTL

(* The roster in training is the one its round was drawn over, and large   *)
(* enough for the draw, under every sequence of configurations.            *)
THEOREM RosterMatchesDrawTheorem == Spec => []RosterMatchesDraw
<1>1. Inv => RosterMatchesDraw
  <2> SUFFICES ASSUME Inv PROVE RosterMatchesDraw
    OBVIOUS
  <2> DEFINE co == coordinator
  <2>1. CoInv(co) /\ RosterInv(co) /\ co \in CoordinatorState
    BY DEF Inv, CoInv
  <2>2. ASSUME co.run_state \in Training
        PROVE  co.config.witness_nodes <= Cardinality(co.clients)
    <3>1. check_config(co.config) /\ co.config \in CoordinatorConfig
      BY <2>1, <2>2 DEF CoInv, ConfigInv, Training, CoordinatorState
    <3>2. Cardinality(co.clients) \in Nat
      BY <2>1, ClientsFinite DEF CoordinatorState
    <3> QED
      BY <2>1, <2>2, <3>1, <3>2 DEF check_config, RosterInv, CoordinatorConfig
  <2>3. Cardinality(co.clients) \in Nat
    BY <2>1, ClientsFinite DEF CoordinatorState
  <2> QED
    BY <2>1, <2>2, <2>3 DEF RosterMatchesDraw, RosterInv, ValidSelection
<1> QED
  BY <1>1, Invariance, PTL

(* No client is in both lists of an epoch, nor exited while healthy. *)
THEOREM RosterPartitionTheorem == Spec => []RosterPartition
<1>1. Inv => RosterPartition
  BY DEF Inv, CoInv, PartitionInv, RosterPartition
<1> QED
  BY <1>1, Invariance, PTL

(* Stored witnesses keep naming the clients that sent them while a round   *)
(* trains, so the duplicate check compares with the right clients.         *)
THEOREM WitnessesNameTheirSendersTheorem == Spec => []WitnessesNameTheirSenders
<1>1. Inv => WitnessesNameTheirSenders
  BY DEF Inv, CoInv, WitnessInv, WitnessesNameTheirSenders
<1> QED
  BY <1>1, Invariance, PTL

(* A round that was followed by another had a witness: health checks never *)
(* reach the unreachable!() of witness_quorum.                             *)
THEOREM PreviousRoundWasWitnessedTheorem == Spec => []PreviousRoundWasWitnessed
<1>1. Inv => PreviousRoundWasWitnessed
  BY DEF Inv, CoInv, PreviousInv, PreviousRoundWasWitnessed
<1> QED
  BY <1>1, Invariance, PTL

(* The ring of four rounds holds the latest rounds in their slots, however *)
(* long the epoch.                                                         *)
THEOREM RingHoldsLatestRoundsTheorem == Spec => []RingHoldsLatestRounds
<1>1. Inv => RingHoldsLatestRounds
  <2> SUFFICES ASSUME Inv PROVE RingHoldsLatestRounds
    OBVIOUS
  <2> DEFINE co == coordinator
             h == current_round(co).height
  <2>1. RingInv(co) /\ co \in CoordinatorState
    BY DEF Inv, CoInv
  <2>2. h \in Nat
    BY <2>1 DEF CoordinatorState, current_round, Round
  <2>3. has_previous_round(co) => previous_round(co).height = h - 1
    <3> SUFFICES ASSUME has_previous_round(co) PROVE previous_round(co).height = h - 1
      OBVIOUS
    <3>1. co.rounds_head = h % 4 /\ (h # 0 => co.rounds[(h - 1) % 4].height = h - 1)
      BY <2>1, <2>2 DEF RingInv, NUM_STORED_ROUNDS
    <3>2. h # 0
      BY <2>2, <3>1 DEF has_previous_round
    <3> HIDE DEF h
    <3>3. (h - 1) % 4 = IF h % 4 = 0 THEN 3 ELSE (h % 4) - 1
      BY <2>2, <3>2
    <3> QED
      BY <3>1, <3>2, <3>3 DEF previous_round, NUM_STORED_ROUNDS
  <2> QED
    BY <2>1, <2>3 DEF RingHoldsLatestRounds, RingInv
<1> QED
  BY <1>1, Invariance, PTL

(* A pause is pending only while an epoch is active to serve it. *)
THEOREM PauseIsServedTheorem == Spec => []PauseIsServed
<1>1. Inv => PauseIsServed
  BY DEF Inv, CoInv, PauseInv, PauseIsServed
<1> QED
  BY <1>1, Invariance, PTL

(* The step never jumps over the epoch's last step, nor trains past        *)
(* total_steps.                                                            *)
THEOREM LastStepAheadTheorem == Spec => []LastStepAhead
<1>1. Inv => LastStepAhead
  BY DEF Inv, CoInv, StepInv, LastStepAhead
<1> QED
  BY <1>1, Invariance, PTL

(* No client is charged more often than it was ejected. *)
THEOREM NoChargeWithoutEjectionTheorem == Spec => []NoChargeWithoutEjection
<1>1. Inv => NoChargeWithoutEjection
  BY DEF Inv, LedgerInv, NoChargeWithoutEjection
<1> QED
  BY <1>1, Invariance, PTL

(* No instruction changes the rates of an epoch under way. *)
THEOREM RatesFixedDuringEpochTheorem == Spec => RatesFixedDuringEpoch
<1> DEFINE A == coordinator.run_state \in Training \cup {"Warmup", "Cooldown"} =>
                  clients_state'.current_epoch_rates = clients_state.current_epoch_rates
<1>1. Inv /\ [Next]_vars => [A]_vars
  BY NextInv DEF StepOK, InEpoch, Training
<1>2. Spec => [][A]_vars
  BY <1>1, Invariance, PTL DEF Spec
<1> QED
  BY <1>2 DEF RatesFixedDuringEpoch

(* Every round starts where the data handed out before it ends. *)
THEOREM DataIsContiguousTheorem == Spec => DataIsContiguous
<1> DEFINE A == coordinator.run_state # "RoundTrain"
                  /\ coordinator'.run_state = "RoundTrain"
                => current_round(coordinator').data_index = hist.data_end
<1>1. Inv /\ [Next]_vars => [A]_vars
  BY NextInv DEF StepOK, StartsRound
<1>2. Spec => [][A]_vars
  BY <1>1, Invariance, PTL DEF Spec
<1> QED
  BY <1>2 DEF DataIsContiguous
=============================================================================
