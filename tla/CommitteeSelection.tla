------------------------- MODULE CommitteeSelection -------------------------
(***************************************************************************)
(* The per-round lottery of shared/coordinator/src/committee_selection.rs. *)
(*                                                                         *)
(* A selection is drawn from the seed and the number of clients a round    *)
(* recorded when it started.  An index into the roster is shuffled to a    *)
(* position, once per salt, and the position decides the committee the     *)
(* index sits on and whether it witnesses the round.  The shuffle itself   *)
(* (swap_or_not.rs) is a parameter: nothing below depends on more than     *)
(* that it permutes 0 .. total-1.                                          *)
(***************************************************************************)
EXTENDS Naturals, FiniteSets

CONSTANTS
    compute_shuffled_index(_, _, _, _)  \* index, total, seed, salt -> position

CONSTANT SOLANA_MAX_NUM_WITNESSES       \* capacity of Round::witnesses

ASSUME WitnessCapacityAssumption == SOLANA_MAX_NUM_WITNESSES \in Nat \ {0}

COMMITTEE_SALT == "committee"
WITNESS_SALT   == "witness"

Committee == {"TieBreaker", "Verifier", "Trainer"}

(* verify_client: the place of client c in the roster, the index its       *)
(* proofs must carry.  Clients are numbered in the roster's order.         *)
Index(roster, c) == Cardinality({d \in roster : d < c})

(***************************************************************************)
(* CommitteeSelection::new.  `config' is the run's configuration.  The     *)
(* constructor errors unless ValidSelection holds.                         *)
(***************************************************************************)
ValidSelection(config, tie_breaker_nodes, total_nodes) ==
    /\ tie_breaker_nodes <= total_nodes
    /\ config.witness_nodes # 0 => config.witness_nodes <= total_nodes
    /\ config.verification_percent <= 100

VerifierNodes(config, tie_breaker_nodes, total_nodes) ==
    ((total_nodes - tie_breaker_nodes) * config.verification_percent) \div 100

(***************************************************************************)
(* get_committee(index).committee                                          *)
(***************************************************************************)
CommitteeOf(config, tie_breaker_nodes, total_nodes, seed, index) ==
    LET position == compute_shuffled_index(index, total_nodes, seed, COMMITTEE_SALT)
        verifiers == VerifierNodes(config, tie_breaker_nodes, total_nodes)
    IN  CASE position < tie_breaker_nodes -> "TieBreaker"
          [] /\ tie_breaker_nodes <= position
             /\ position < tie_breaker_nodes + verifiers -> "Verifier"
          [] OTHER -> "Trainer"

(***************************************************************************)
(* get_witness(index).witness                                              *)
(***************************************************************************)
IsWitness(config, total_nodes, seed, index) ==
    compute_shuffled_index(index, total_nodes, seed, WITNESS_SALT)
        < IF config.witness_nodes = 0 THEN SOLANA_MAX_NUM_WITNESSES
                                      ELSE config.witness_nodes
=============================================================================
