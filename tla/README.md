# A formal model of leviathan-net

leviathan-net trains one model on machines that do not trust each other. A
Solana program (the coordinator) moves a run through epochs and rounds, draws
committees by lottery, collects witnesses and settles rewards and penalties. A
second program (the treasurer) holds bonds and runs disputes. Clients train,
exchange results peer to peer and call both programs. This directory holds TLA+
modules translated from that code, TLC configurations that check them on small
instances, and proofs checked by TLAPS for every size.

## 1. The system

| Part | State it keeps | Operations | Talks to |
| --- | --- | --- | --- |
| Coordinator library (`shared/coordinator/src/coordinator.rs`) | run state and its start time, epoch state (roster, exited clients, ring of four rounds, last step), progress, configuration, pending pause | `tick` and its five handlers, `witness`, `warmup_witness`, `health_check`, `checkpoint`, `eject`, `pause`, `resume` | called by the coordinator program and by the centralized server |
| Committee selection (`committee_selection.rs`, `swap_or_not.rs`) | none, drawn from a round's seed and size | committee and witness of an index, proof verification | coordinator, treasurer, clients |
| Coordinator program (`solana-coordinator`) | the coordinator, the permanent client list with its earned and slashed ledgers, the epoch rates | one instruction per operation, `join_run`, `update`, `set_future_epoch_rates`, the settlement | clients, the run's authority (in practice the treasurer) |
| Treasurer program (`solana-treasurer`) | run accounts, participants and bonds, audit verdicts | votes, challenges, appeals, finalisation, bond deposit and withdrawal, reward claims | calls `slash_client` and the owner instructions of the coordinator program |
| Authorizer, mining pool, distributor programs | authorisations; deposits and extraction; vesting claims | small independent programs | the authorizer gates `join_run` |
| Client (`shared/client`) with watcher and Solana backend | the step machine that follows run states, rounds in flight, downloads | trains, witnesses, checkpoints, sends ticks | coordinator program, other clients |
| Centralized server | the same coordinator library over TCP | connect, witness, tick on a timer | clients |
| Network, data providers, modeling, verifier, tools | transport, tensors, files, dashboards | | |

What makes it hard: every client, the authority and any bystander may send any
instruction at any moment, and the clock moves in between. An instruction is a
transaction, so it is atomic, but a decision is spread over many transactions
(witnesses of a round, votes of a verdict, an ejection and its charge), and each
of them reads what earlier ones stored: indices into a roster that is compacted
every round, a ring of rounds that wraps, rates that may change, a configuration
that may be replaced while the run is paused. Phases end on a count reached by
equality or on a timeout. The properties each part should have:

* coordinator: the roster is the one the lottery was drawn over; indices name
  their senders; a round that is followed has a witness; steps approach the last
  step without skipping it; data is neither repeated nor skipped; a pause is
  served; epochs end;
* coordinator program: a completed epoch pays its finishers equal shares of the
  pool; a settlement charges only ejections, never pays and charges one client,
  and uses the rates fixed when the epoch began; nobody is admitted for whom there
  is no batch;
* treasurer: a conviction rests on a quorum of one committee; every dispute
  reaches an end; losing verifiers are charged once; the vault covers the bonds;
* client: it never trains a batch twice in a round, and leaves a round when the
  coordinator does.

`PROJECT.json` lists the parts with their status and the hazards with the line
where each bites.

## 2. Modules

| Module | Models | Kind |
| --- | --- | --- |
| `CommitteeSelection` | the lottery: validity of a draw, committee and witness of an index | operators |
| `Coordinator` | the coordinator library: each method is an operator from a coordinator record to the next | operators |
| `CoordinatorInstance` | one run on chain: the accounts as variables, one action per instruction | state machine |
| `EpochRoster` | what the treasurer may rely on of the coordinator: epoch, round, draw, roster and client states | abstract state machine |
| `CoordinatorRefinement` | the mapping under which `CoordinatorInstance` implements `EpochRoster` | refinement |
| `Disputes` | audit verdicts, challenges, appeals and settlements over `EpochRoster` | state machine |
| `MCCoordinatorInstance`, `MCDisputes` | small instances for TLC | instances |
| `CoordinatorProofs` | the invariant `CoInv` of the record and what every method preserves | proofs |
| `CoordinatorInstanceProofs` | the invariant `Inv` of the run and the theorems | proofs |
| `DisputesProofs` | the invariant `DisputesInv` of the disputes and the theorems | proofs |

**State.** `coordinator` is the `Coordinator` struct with its epoch state and
progress flattened into one record. `clients_state` is `ClientsState` with the
two first-tick flags of `CoordinatorInstanceState`. `hist` is history that no
action reads except to bound a run: ejections not yet charged, the end of the
data handed out, the clients that finished the last epoch.

**Actions.** `Tick`, `Join`, `Witnesses`, `WarmupWitnesses`, `HealthCheck`,
`Checkpoints`, `Slash`, `Pause`, `Resume`, `Update` and `SetFutureEpochRates` are
the instructions of the program. All but `Slash`, `Pause`, `Update` and
`SetFutureEpochRates` end, as in the code, with a `tick` inside the same
transaction (`Ticked`); `Join` and `Checkpoints` skip it on a halted run. An
error or a panic rolls a Solana transaction back, so it is a disabled action.
`Elapse` advances the clock.

**Abstractions**, each exact for what the code does with the data:

* Clients are numbered in the order they first joined. The roster is always a
  subsequence of that order, so it is a set, and a client's index is the number
  of smaller members.
* Timestamps are only compared with a stored start plus a duration, so the state
  keeps the two elapsed times. They stop growing at the largest duration they
  will be compared with.
* The active clients of `clients_state` are those whose `active` equals
  `next_active`, so incrementing `next_active` empties the set.
* A witness keeps its index and the set of clients its participant bloom
  contains; false positives of the bloom are other sets in `Blooms`. `from` is
  history.
* Of a checkpoint only the variant is kept, of the model the checkpoint and the
  cold-start steps. Tokens are counted in sequences.
* The shuffle of `swap_or_not.rs` is the constant `compute_shuffled_index`.
* `MaxEjections` bounds the number of `Slash` actions of a behaviour, and
  `EpochLimit` stands for `u16::MAX`.

In `CoordinatorInstance` the treasurer's disputes appear as `Slash(c)`, enabled at
any moment for any client that `eject` accepts: more behaviours than the treasurer
allows.

**Disputes.** A dispute reads the coordinator's epoch, round height, seed, number
of clients drawn over, roster, client states and a few configuration fields, and
writes client states through `slash_client`. `EpochRoster` is a specification of
exactly that view: `Report` (a health check drops a client), `Gather` (a warmup
seats a roster), `Compact`, `Start` and `NextRound` (a draw), `Stop`, `Close`,
`Pause`, `Resume`, `Update` and `Eject`. It leaves out clocks, witnesses, step
counts and models, so it allows more moves than the code; that every move of the
code is among them is the property `ImplementsRoster`.

`Disputes` has one action per instruction of the treasurer that concerns a
verdict: `SetChallengeConfig`, `SubmitAuditVerdict`, `OpenChallenge`,
`SubmitAppealVerdict`, `FinalizeSlash`, `SlashLosingVerifier` and `Slash`.
`verdict[t]` is the `AuditVerdict` account of target `t`, one for all disputes
about `t`. `draws` and `ejected` are history: the draws under which the votes on
the account were cast, and the clients ejected in the current dispute. A draw
`stands` until the authority sets the run back to an earlier epoch after it (the
member of `Epochs` that `update` installs); no action reads the mark.

* The bond test of a vote is the constant set `Bonded`. A participant may add to
  its bond at any time, and the code tests it at the moment of the vote. A set of
  everybody has all behaviours of a changing one, which is what the safety
  properties need.
* `elapsed` is the time since the stamp the current status is compared with, and
  stops at `MaxWindow`, the longest window that may be set.
* The evidence of a vote is the target's index and one of `Claims`, which stands
  for batch range and hashes; `voters` keeps the order of the votes because
  losing verifiers are settled in that order.
* `Slashable` limits whom the authority ejects by itself, `MaxEpoch` and
  `MaxHeight` how far the coordinator goes.

## 3. Runs

Run one with `tlc -workers 2 -config <run>.cfg <module>`, where the module is
`MCDisputes` for `disputes`, `dispute_finality`, `votes_pooled_in_cooldown` and
`votes_pooled_after_reset`, and `MCCoordinatorInstance` for the others.

| Run | Instance | What it shows |
| --- | --- | --- |
| `settlement` | 3 clients, 1 ejection; two witnesses and `min_clients` 2, or one witness and `min_clients` 3; one rate change | roster and draw agree; the two client lists are disjoint; a pause is served; stored indices name their senders, and the lottery never elects more witnesses than a round stores; nobody is charged without an ejection; a completed epoch pays its finishers equal shares of the pool and no more than the pool; rates are fixed in an epoch |
| `rounds` | 2 clients, three configurations (one long enough to wrap the ring of rounds, one refused by `check_error`), a progress update, health checks, a bloom that leaves one client out | the ring of rounds across its wrap; followed rounds have witnesses; the last step is not skipped; data is contiguous; no phase is over in the second it began; what the checks of `update` let through keeps the roster and the step count sound; types |
| `liveness` | 2 clients, 1 ejection, a configuration with a witness and one under which no witness is ever accepted, posted checkpoints, fairness | epochs end and requested pauses happen; a peer-to-peer checkpoint has a peer |
| `disputes` | 4 clients, 1 target, appeals before a bench of 2, two epochs of one round, the authority may set the run back to the first | convictions voted while a round trains are by two thirds of one committee unless the run was set back; the two benches are disjoint; one side loses, once; an unfinished dispute keeps its account |
| `dispute_finality` | 3 clients, 1 target, three rounds in which clients are dropped or ejected by the authority; the authority changes among three settings (appeals, an appeal window of zero, immediate execution without a bench), fairness | a conviction is executed or overturned; one side loses, and convictions of one training round are one committee's, there too |

`settlement` and `rounds` also check `ImplementsRoster`: every step of
`CoordinatorInstance` is a step of `EpochRoster` or leaves the view alone. What
`disputes` shows over `EpochRoster` therefore holds over the coordinator the code
has, within the sizes of those runs.

The bounds are the smallest in which the cases occur: three clients so that one
can leave while the roster stays above the minimum and a stored index shifts,
and so that two of them are elected and one is not; six steps so that the ring of
four rounds wraps, two configurations so that a valid one can be replaced, an
epoch time short enough for the timeout and long enough for `total_steps`, four
clients so that two verifiers, a tie-breaker bench and the target are different
people and a bench can change between rounds. Several rounds of an epoch and
several epochs together are too many states for one run of the disputes:
`disputes` has the epochs, `dispute_finality` the rounds. `CHECK_DEADLOCK FALSE`
everywhere: a run that finished, or a paused run nobody resumes, stops.

Every property has a mutant, a plausible bug in one mapped definition (a dropped
bound, a missing wrap, a forgotten reset) under which TLC finds it violated.

**Fairness.** `FairSpec` assumes the clock advances and that somebody keeps
calling `tick`. `tick` is permissionless, and every Solana client checks each
500 ms whether a tick would change the run state and sends one if so
(`solana-client/src/app.rs`: always with at most two clients, with probability
2/n above). Nothing is assumed about witnesses, health checks or the authority.
`FairDisputesSpec` assumes the clock advances and that somebody sends
`run_finalize_slash` once it is due. Any payer may send it and it needs nobody's
signature but theirs; the repository has no process that does so by itself, so
this is an assumption about the people who run it. `ConvictionsEnd` also assumes
that from some time on the target is in the roster in a state that can be ejected
and the appeal window is not zero, since the instruction fails otherwise.

**Where code and documents disagree.** Seven runs expect a violation; each states
a sentence of the repository and TLC's trace shows the code doing otherwise.

| Run | The sentence | What happens |
| --- | --- | --- |
| `pause_forfeits_rewards` | a client that completed the epoch is rewarded (`rewards.md`) | a pending pause withdraws the finishers in the tick that settles the epoch, and only `Healthy` clients are paid |
| `aborted_warmup_is_paid` | a client is rewarded if it completed the whole epoch (`rewards.md`) | a warmup that an ejection leaves with too few clients ends the epoch, and the settlement does not look at whether it completed: who is left is paid the pool |
| `ejection_between_epochs` | an ejected client is charged at the epoch boundary (comment of `eject`) | eject in warmup, pause, resume: the next warmup zeroes the epoch state and nothing was charged |
| `warmup_index_after_ejection` | every client witnesses once, from its own index (test `warmup_witness_index.rs`) | an ejection compacts the roster under the stored index of a warmup witness, and another client is refused as its duplicate |
| `votes_pooled_in_cooldown` | the votes of an account are those of one round's committee (comment of `AuditVerdict::round_height`) | entering cooldown compacts the roster without a new round height: a client that moved into a lower index sits in a verifier's seat, and its vote is added to one cast under the old roster |
| `votes_pooled_after_reset` | the same comment | a dispute is recognised by epoch and round height; `update` may install an earlier epoch, whose round of the same height is drawn anew, and a vote under each draw makes one conviction although both were cast while a round trained |
| `admission_after_reconfiguration` | no more clients than batches (`MoreClientsThanBatches`) | the test is `==`, and a lower `global_batch_size_end` passes it |

## 4. Proofs

The theorems hold for every number of clients, every set of configurations,
models, progress values, rates, blooms and seeds, and **every** function as the
shuffle. They assume only the named assumptions of the modules:
`WitnessCapacityAssumption`, `CoordinatorAssumption`, `InstanceAssumption`,
`RosterAssumption` and `DisputesAssumption`, which say that the constants have the types of the code.

`CoordinatorProofs` defines `CoInv`, an invariant of the coordinator record: its
type, a checked configuration in every state but `Uninitialized` (`ConfigInv`), the roster
against the draw (`RosterInv`), the disjoint lists (`PartitionInv`), stored
witnesses (`WitnessInv`), the ring (`RingInv`), the previous round's witnesses
(`PreviousInv`), the step count (`StepInv`) and the pause (`PauseInv`). For each
helper a `...Fields` lemma says what it changes, and a `...Inv` lemma that it
preserves `CoInv`. A separate chain (`...EpochStep`) says how a tick moves the
end of the data.

The properties are not inductive one by one. `RosterMatchesDraw` needs
`ConfigInv`, since a paused run may be given a larger `min_clients` or
`witness_nodes` and the next warmup must have compared with it; the equality of
`LastStepAhead` needs that the last step was set two ahead of the current one;
`PreviousRoundWasWitnessed` needs the ring; `NoChargeWithoutEjection` needs that
nobody's outstanding charges are negative and that, during an epoch, a client
marked `Ejected` still has a charge outstanding (`LedgerInv`); `DataIsContiguous` needs to know where the last batch ended
in each run state (`DataInv`); `RatesFixedDuringEpoch` needs that the first-tick
flag is down as soon as the warmup is on (`FlagInv`). `Inv` is the conjunction,
and `NextInv` proves it, one action at a time.

Theorems of `CoordinatorInstanceProofs`: `Invariance` (`Spec => []Inv`),
`TypeCorrectness`, `RosterMatchesDrawTheorem`, `RosterPartitionTheorem`,
`WitnessesNameTheirSendersTheorem`, `PreviousRoundWasWitnessedTheorem`,
`RingHoldsLatestRoundsTheorem`, `PauseIsServedTheorem`, `LastStepAheadTheorem`,
`NoChargeWithoutEjectionTheorem`, `RatesFixedDuringEpochTheorem` and
`DataIsContiguousTheorem`.

`DisputesProofs` proves the same kind of results of `Disputes`, for any number of
clients, targets, benches and windows. The invariant `DisputesInv` says of each
account (`AccountInv`) that its counters match its voters, that the voters are
different from one another and from the bench, that a decided account has at least
two voters and has been written before, and that tie-breakers and settled voters
appear only in the statuses that allow them; and it says that whoever was ejected
in the dispute is what the status implies (`Losers`). `OneSideLoses` is not
inductive without the counters: an overturned verdict must start with nobody
settled. `UnfinishedDisputesAreKept` needs that an account nobody has written is
not convicted, since `fresh` lets a vote take an account over unconditionally. A
lemma says for each instruction what it does to one account, and `OneAccountStep`
lifts it to the state. Theorems: `DisputesInvariant`, `DisputesTyped`,
`DisjointBenches`, `OneSide` and `UnfinishedKept`.

`OneCommittee` proves `TrainingVerdictsAreOneCommittees`, for any lottery, any
number of rounds and epochs and any epochs the authority installs. The property
speaks of convictions whose votes were cast in training, under one bench size, and
not before the run was set back; the two runs `votes_pooled_...` show that it is
false without the first and the last of these. It is not inductive, since it says
nothing of a dispute that is still voted on. `DrawInv` says for each account that
a draw noted for it that still stands is of an earlier round or epoch than the
present one, or is the present one (`Noted`), and that the voters sit in every
noted draw as far as the draws can be compared (`JuryInv`). That a draw of the same
epoch and height can only be the present one is a fact about the coordinator:
while a round trains nothing but its successor or the cooldown follows it in the
epoch (`Follows`, proved for every move of `EpochRoster` by `MovesFollow`). A step
that sets the epoch back is one of the coordinator's, and marks every draw
(`SetBackDraws`). Theorems: `DrawInvariance` and `OneCommittee`.

Only model-checked: `ConvictionsEnd`, `EpochEnds` and `PauseHappens` (liveness is
out of the prover's reach), `SettlementSharesThePool` (a sum over clients, which
needs induction over data), `WitnessesFitTheRound` (a counting argument over the
shuffle), `NoPhaseTimesOutAtOnce`, `P2PHasAPeer` and `ImplementsRoster`.

## 5. Not modelled, and the plan

Not modelled: the numeric content of training and of verification (`modeling`,
`verifier`), hashing (bloom filters, merkle trees, the seed), network transport,
command-line tools. Of the coordinator program, `free_coordinator` and
`update_client_version`. The `opportunistic` payloads of a witness.

In order of importance:

1. **Bonds and rewards**: deposits, delayed withdrawal, forfeits against the
   slashed ledger, claims against the earned ledger, all from one vault. `Bonded`
   then becomes a variable, and a withdrawal can race a dispute.
2. **More proofs**: that `CoordinatorInstance` implements `EpochRoster`, from
   `Inv`; `NoPhaseTimesOutAtOnce`, from the elapsed times of each handler.
3. **Pure algorithms**: data assignment, audit selection, swap-or-not as a
   permutation, the witness count by a proof about injections.
4. **Client**: the step machine driven by a coordinator that moves on under it.
5. **Centralized server**, authorizer, mining pool, distributor, the download
   scheduler and the cancellable barrier.
