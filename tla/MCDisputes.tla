----------------------------- MODULE MCDisputes -----------------------------
(* Small instances of Disputes for TLC. *)
EXTENDS Disputes

(* A permutation of 0 .. total-1 that the seed rotates. *)
Rotate(index, total, seed, salt) == (index + seed) % total

SmallElection == [init_min_clients |-> 3, min_clients |-> 2, witness_nodes |-> 0,
                  verification_percent |-> 100]
AllVerify == {SmallElection}
AllFourVerify == {[SmallElection EXCEPT !.init_min_clients = 4, !.min_clients = 3]}
TwoOfThree == {[SmallElection EXCEPT !.verification_percent = 67]}

WithAppeals == [challenge_window_seconds |-> 1, appeal_window_seconds |-> 1,
                tie_breaker_committee_size |-> 1]
WithoutAppeals == [WithAppeals EXCEPT !.challenge_window_seconds = 0,
                                      !.tie_breaker_committee_size = 0]
BenchOfTwo == {[WithAppeals EXCEPT !.tie_breaker_committee_size = 2]}
ChangingSettings ==
    {WithAppeals, [WithAppeals EXCEPT !.appeal_window_seconds = 0], WithoutAppeals}
NoAppeals == {WithoutAppeals}
=============================================================================
