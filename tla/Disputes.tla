------------------------------ MODULE Disputes ------------------------------
(***************************************************************************)
(* The treasurer's audit verdicts and appeals court: verifiers convict a   *)
(* target, the target may challenge, tie-breakers uphold or overturn, and  *)
(* whoever lost is ejected through the coordinator's slash_client.         *)
(*                                                                         *)
(* One AuditVerdict account per target is reused by every dispute about    *)
(* it.  The coordinator is EpochRoster; its moves interleave with the      *)
(* instructions below, each of which is one transaction.                   *)
(*                                                                         *)
(* `draws' and `ejected' are history: for each target, the draws under     *)
(* which the current voters voted, and the clients ejected in the current  *)
(* dispute, in order.                                                      *)
(***************************************************************************)
EXTENDS EpochRoster, Sequences, Functions

CONSTANTS
    Targets,            \* clients that disputes are about
    Bonded,             \* participants whose bond reaches the run's minimum
    Claims,             \* evidence a vote may carry besides the target's index
    Slashable,          \* clients the authority may eject by itself
    Settings,           \* challenge settings the authority may install
    MAX_VERDICT_VOTERS, \* capacity of AuditVerdict::voters
    MAX_APPEAL_VOTERS,  \* capacity of AuditVerdict::appeal_voters
    MaxWindow,          \* no window is longer
    MaxEpoch,           \* bounds on the coordinator's counters
    MaxHeight

VARIABLES
    run,        \* the challenge settings of the treasurer's Run
    verdict,    \* the AuditVerdict account of each target
    draws,
    ejected

dvars == <<view, run, verdict, draws, ejected>>

RunSettings == [challenge_window_seconds : 0 .. MaxWindow,
                appeal_window_seconds : 0 .. MaxWindow,
                tie_breaker_committee_size : Nat]

ASSUME DisputesAssumption ==
    /\ Targets \subseteq Client
    /\ Bonded \subseteq Client
    /\ Slashable \subseteq Client
    /\ Settings \subseteq RunSettings
    /\ MAX_VERDICT_VOTERS \in Nat
    /\ MAX_APPEAL_VOTERS \in Nat
    /\ MaxWindow \in Nat

VerdictStatus == {"Voting", "SlashPending", "Challenged", "Upheld", "Overturned"}

(* `elapsed' is the time since the stamp the status is timed by,           *)
(* pending_since_unix or challenged_since_unix.  verdict_count is the      *)
(* length of voters.  A fresh account has not been written yet.            *)
EmptyVerdict(fresh, epoch, height) ==
    [fresh |-> fresh, epoch |-> epoch, round_height |-> height,
     status |-> "Voting", evidence |-> <<>>, voters |-> <<>>,
     appeal_voters |-> {}, overturn_count |-> 0, uphold_count |-> 0,
     settled_count |-> 0, elapsed |-> 0]

FreshVerdict == EmptyVerdict(TRUE, 0, 0)

DisputesInit ==
    /\ RosterInit
    /\ run = [challenge_window_seconds |-> 0, appeal_window_seconds |-> 0,
              tie_breaker_committee_size |-> 0]
    /\ verdict = [t \in Targets |-> FreshVerdict]
    /\ draws = [t \in Targets |-> {}]
    /\ ejected = [t \in Targets |-> <<>>]

-----------------------------------------------------------------------------
(* The seat of a client under the current round's draw.  An index beyond   *)
(* the clients the round was drawn over aborts the transaction.            *)
Seated(v, size, c, committee) ==
    /\ c \in v.clients
    /\ ValidSelection(v.config, size, v.clients_len)
    /\ Index(v.clients, c) < v.clients_len
    /\ CommitteeOf(v.config, size, v.clients_len, v.random_seed,
                   Index(v.clients, c)) = committee

TwoThirds(n) == (2 * n + 2) \div 3

AtLeast(n, least) == IF n < least THEN least ELSE n

MIN_VERIFIER_COMMITTEE == 2

VerdictQuorum(v, size) ==
    AtLeast(TwoThirds(VerifierNodes(v.config, size, v.clients_len)), 2)

AppealQuorum(size) == AtLeast(TwoThirds(size), 1)

is_settled(d) ==
    \/ d.status \in {"Voting", "Upheld"}
    \/ d.status = "Overturned" /\ d.settled_count >= Len(d.voters)

(* Mutant: votes carry from one round of an epoch to the next. *)
SameRound_EpochOnly(d) == d.epoch = view.epoch

(* Mutant: votes carry from one epoch to the next. *)
SameRound_HeightOnly(d) == d.round_height = view.height

SameRound(d) == d.epoch = view.epoch /\ d.round_height = view.height

(* slash_client, as the last call of an instruction about target t. *)
Ejects(t, c) ==
    /\ Eject(c)
    /\ ejected' = [ejected EXCEPT ![t] = Append(@, c)]

EjectsNobody == UNCHANGED <<view, ejected>>

-----------------------------------------------------------------------------
(* run_set_challenge_config, whatever disputes are under way *)
SetChallengeConfig(settings) ==
    /\ run' = settings
    /\ UNCHANGED <<view, verdict, draws, ejected>>

(* A vote opens a new dispute when the account is new or of another round. *)
Opens(d) == d.fresh \/ ~SameRound(d)

(* Mutant: a new round takes the account over whatever it holds. *)
may_open_Always(d) == TRUE

may_open(d) == d.fresh \/ is_settled(d)

may_vote(c, t) ==
    LET size == run.tie_breaker_committee_size
    IN  /\ c \in Bonded
        /\ Seated(view, size, c, "Verifier")
        /\ t \in view.clients
        /\ VerifierNodes(view.config, size, view.clients_len) >= MIN_VERIFIER_COMMITTEE
        /\ VerdictQuorum(view, size) <= MAX_VERDICT_VOTERS

(* The vote of verifier c against t, recorded in d. *)
Voted(d, c, evidence, status) ==
    [d EXCEPT !.voters = Append(@, c), !.evidence = evidence, !.status = status]

(* History: the draw a vote is cast under.  It stands until the authority  *)
(* sets the run back to an earlier epoch.                                  *)
CurrentDraw ==
    LET size == run.tie_breaker_committee_size
    IN  [training |-> view.phase = "training", stands |-> TRUE, size |-> size,
         jury |-> {c \in view.clients : Seated(view, size, c, "Verifier")},
         two_thirds |-> TwoThirds(VerifierNodes(view.config, size, view.clients_len))]

SubmitAuditVerdict(c, t, claim) ==
    LET new == Opens(verdict[t])
        opened == IF new THEN EmptyVerdict(FALSE, view.epoch, view.height)
                  ELSE verdict[t]
        evidence == <<Index(view.clients, t), claim>>
        quorum == VerdictQuorum(view, run.tie_breaker_committee_size)
        status == IF Len(opened.voters) + 1 < quorum THEN "Voting"
                  ELSE IF run.challenge_window_seconds > 0 THEN "SlashPending"
                  ELSE "Upheld"
    IN  /\ may_vote(c, t)
        /\ new => may_open(verdict[t])
        /\ opened.status = "Voting"
        /\ c \notin Range(opened.voters)
        /\ Len(opened.voters) < MAX_VERDICT_VOTERS
        /\ opened.voters # <<>> => opened.evidence = evidence
        /\ verdict' = [verdict EXCEPT ![t] = Voted(opened, c, evidence, status)]
        /\ draws' = [draws EXCEPT ![t] = (IF new THEN {} ELSE @) \cup {CurrentDraw}]
        /\ \/ /\ status = "Upheld"
              /\ Eject(t)
              /\ ejected' = [ejected EXCEPT ![t] = Append(IF new THEN <<>> ELSE @, t)]
           \/ /\ status # "Upheld"
              /\ ejected' = [ejected EXCEPT ![t] = IF new THEN <<>> ELSE @]
              /\ UNCHANGED view
        /\ UNCHANGED run

Challenged(d) ==
    [d EXCEPT !.status = "Challenged", !.elapsed = 0, !.overturn_count = 0,
              !.uphold_count = 0, !.appeal_voters = {}]

(* The challenger is the target: the account is found by its key. *)
OpenChallenge(t) ==
    /\ t \in Bonded
    /\ verdict[t].status = "SlashPending"
    /\ verdict[t].elapsed < run.challenge_window_seconds
    /\ verdict' = [verdict EXCEPT ![t] = Challenged(verdict[t])]
    /\ UNCHANGED <<view, run, draws, ejected>>

(* Mutant: a tie-breaker may vote again. *)
may_judge_Again(c, t) ==
    /\ c \in Bonded
    /\ Seated(view, run.tie_breaker_committee_size, c, "TieBreaker")
    /\ t \in view.clients
    /\ verdict[t].status = "Challenged"
    /\ c \notin Range(verdict[t].voters)

(* Mutant: the bench relies on the draw to keep verifiers out. *)
may_judge_Verifiers(c, t) ==
    /\ c \in Bonded
    /\ Seated(view, run.tie_breaker_committee_size, c, "TieBreaker")
    /\ t \in view.clients
    /\ verdict[t].status = "Challenged"
    /\ c \notin verdict[t].appeal_voters

may_judge(c, t) ==
    /\ c \in Bonded
    /\ Seated(view, run.tie_breaker_committee_size, c, "TieBreaker")
    /\ t \in view.clients
    /\ verdict[t].status = "Challenged"
    /\ c \notin verdict[t].appeal_voters
    /\ c \notin Range(verdict[t].voters)
    /\ Cardinality(verdict[t].appeal_voters) < MAX_APPEAL_VOTERS

(* The vote of tie-breaker c, and what the bench has then decided. *)
Counted(d, c, overturn) ==
    [d EXCEPT !.appeal_voters = @ \cup {c},
              !.overturn_count = IF overturn THEN @ + 1 ELSE @,
              !.uphold_count = IF overturn THEN @ ELSE @ + 1]

Outcome(d, quorum) ==
    IF d.overturn_count >= quorum THEN "Overturned"
    ELSE IF d.uphold_count >= quorum THEN "Upheld"
    ELSE "Challenged"

Judged(d, c, overturn, quorum) ==
    LET counted == Counted(d, c, overturn)
    IN  [counted EXCEPT !.status = Outcome(counted, quorum)]

SubmitAppealVerdict(c, t, overturn) ==
    LET quorum == AppealQuorum(run.tie_breaker_committee_size)
        judged == Judged(verdict[t], c, overturn, quorum)
    IN  /\ may_judge(c, t)
        /\ verdict' = [verdict EXCEPT ![t] = judged]
        /\ IF judged.status = "Upheld" THEN Ejects(t, t) ELSE EjectsNobody
        /\ UNCHANGED <<run, draws>>

(* Mutant: a challenge has no deadline. *)
slash_due_NoDeadline(d) ==
    d.status = "SlashPending" /\ d.elapsed >= run.challenge_window_seconds

(* Mutant: only the clock is looked at once somebody was convicted. *)
slash_due_ClockOnly(d) ==
    d.status # "Voting" /\ d.elapsed >= run.challenge_window_seconds

slash_due(d) ==
    \/ d.status = "SlashPending" /\ d.elapsed >= run.challenge_window_seconds
    \/ /\ d.status = "Challenged"
       /\ run.appeal_window_seconds # 0
       /\ d.elapsed >= run.appeal_window_seconds

(* Anybody may finalise, with the target's current index. *)
FinalizeSlash(t) ==
    /\ slash_due(verdict[t])
    /\ verdict' = [verdict EXCEPT ![t].status = "Upheld"]
    /\ Ejects(t, t)
    /\ UNCHANGED <<run, draws>>

(* Anybody may settle the next losing verifier, in voting order. *)
SlashLosingVerifier(t) ==
    LET d == verdict[t]
    IN  /\ d.status = "Overturned"
        /\ d.settled_count < Len(d.voters)
        /\ verdict' = [verdict EXCEPT ![t].settled_count = @ + 1]
        /\ Ejects(t, d.voters[d.settled_count + 1])
        /\ UNCHANGED <<run, draws>>

(* run_slash, by the run's authority *)
Slash(c) == Eject(c) /\ UNCHANGED <<run, verdict, draws, ejected>>

(* Time passes for whatever is being timed, up to the longest window. *)
Elapse ==
    LET Timed(t) == /\ verdict[t].status \in {"SlashPending", "Challenged"}
                    /\ verdict[t].elapsed < MaxWindow
    IN  /\ \E t \in Targets : Timed(t)
        /\ verdict' = [t \in Targets |->
              IF Timed(t) THEN [verdict[t] EXCEPT !.elapsed = @ + 1] ELSE verdict[t]]
        /\ UNCHANGED <<view, run, draws, ejected>>

Coordinate ==
    /\ RosterMoves
    /\ view'.epoch <= MaxEpoch
    /\ view'.height <= MaxHeight
    /\ draws' = IF view'.epoch < view.epoch
                THEN [t \in Targets |-> {[d EXCEPT !.stands = FALSE] : d \in draws[t]}]
                ELSE draws
    /\ UNCHANGED <<run, verdict, ejected>>

-----------------------------------------------------------------------------
DisputesNext ==
    \/ Coordinate
    \/ \E settings \in Settings : SetChallengeConfig(settings)
    \/ \E c \in Slashable : Slash(c)
    \/ \E t \in Targets :
          \/ \E c \in Client, claim \in Claims : SubmitAuditVerdict(c, t, claim)
          \/ OpenChallenge(t)
          \/ \E c \in Client, overturn \in BOOLEAN : SubmitAppealVerdict(c, t, overturn)
          \/ FinalizeSlash(t)
          \/ SlashLosingVerifier(t)
    \/ Elapse

DisputesSpec == DisputesInit /\ [][DisputesNext]_dvars

(* Time passes and somebody keeps finalising what may be finalised. *)
FairDisputesSpec ==
    /\ DisputesSpec
    /\ WF_dvars(Elapse)
    /\ \A t \in Targets : WF_dvars(FinalizeSlash(t))

-----------------------------------------------------------------------------
(* Safety. *)

Draw == [training : BOOLEAN, stands : BOOLEAN, size : Nat, jury : SUBSET Client, two_thirds : Nat]

AuditVerdict ==
    [fresh : BOOLEAN, epoch : Nat, round_height : Nat, status : VerdictStatus,
     evidence : {<<>>} \cup (Nat \X Claims), voters : Seq(Client),
     appeal_voters : SUBSET Client, overturn_count : Nat, uphold_count : Nat,
     settled_count : Nat, elapsed : 0 .. MaxWindow]

(* Types, and the counters of an account: no tie-breaker is counted twice  *)
(* and no voter is settled twice.                                          *)
DisputesTypeOK ==
    /\ RosterTypeOK
    /\ run \in RunSettings
    /\ verdict \in [Targets -> AuditVerdict]
    /\ draws \in [Targets -> SUBSET Draw]
    /\ ejected \in [Targets -> Seq(Client)]
    /\ \A t \in Targets :
          LET d == verdict[t]
          IN  /\ d.overturn_count + d.uphold_count = Cardinality(d.appeal_voters)
              /\ d.settled_count <= Len(d.voters)

(* A conviction by two thirds of the verifiers of one draw. *)
ConvictedBy(t, d) ==
    /\ Range(verdict[t].voters) \subseteq d.jury
    /\ Len(verdict[t].voters) >= d.two_thirds

(* A conviction whose votes were all cast while a round trained, under one *)
(* tie_breaker_committee_size, is the verdict of two thirds of the         *)
(* committee of one draw: the account starts over when the round or the    *)
(* epoch has changed, and the roster a round was drawn over stays in place *)
(* while it trains (run_submit_audit_verdict).  It may fail only if, after *)
(* the first vote, the authority set the run back to an earlier epoch,     *)
(* where (epoch, height) recurs under another draw: see                    *)
(* VerdictsOfTrainingAreOneCommittees.                                     *)
TrainingVerdictsAreOneCommittees ==
    \A t \in Targets :
        /\ verdict[t].status # "Voting"
        /\ \A d, e \in draws[t] : d.training /\ d.stands /\ d.size = e.size
        => \E d \in draws[t] : ConvictedBy(t, d)

(* Whoever judges an appeal did not vote on the verdict, although the      *)
(* bench is drawn in a later round; and a conviction has at least two      *)
(* different verifiers behind it (run_submit_appeal_verdict,               *)
(* run_submit_audit_verdict).                                              *)
BenchesAreDisjoint ==
    \A t \in Targets :
        LET d == verdict[t]
        IN  /\ Range(d.voters) \cap d.appeal_voters = {}
            /\ IsInjective(d.voters)
            /\ d.status # "Voting" => Len(d.voters) >= 2

(* A dispute ejects its target if it is upheld, its voters in voting order *)
(* if it is overturned, and nobody before it is decided: never both sides, *)
(* and nobody twice, whoever finalises, votes or settles first.            *)
OneSideLoses ==
    \A t \in Targets :
        LET d == verdict[t]
        IN  /\ d.status = "Upheld" => ejected[t] = <<t>>
            /\ d.status = "Overturned" =>
                  ejected[t] = SubSeq(d.voters, 1, d.settled_count)
            /\ d.status \notin {"Upheld", "Overturned"} => ejected[t] = <<>>

(* A pending conviction, an appeal and an overturned verdict whose voters  *)
(* have not all been settled stay on the account, votes and evidence       *)
(* included, until they are finished, however many rounds and epochs pass  *)
(* (is_settled, "Whether a fresh dispute may take this account over").     *)
UnfinishedDisputesAreKept ==
    [][ \A t \in Targets :
            ~is_settled(verdict[t]) =>
                /\ verdict'[t].voters = verdict[t].voters
                /\ verdict'[t].evidence = verdict[t].evidence
                /\ verdict'[t].settled_count >= verdict[t].settled_count
                /\ <<verdict[t].status, verdict'[t].status>> \notin
                      {<<"Challenged", "SlashPending">>, <<"Overturned", "Upheld">>}
      ]_dvars

-----------------------------------------------------------------------------
(* Liveness, under FairDisputesSpec. *)

(* A conviction is executed or overturned, challenged or not and whether   *)
(* or not the bench ever votes, as long as the target stays within reach   *)
(* and the authority keeps a nonzero appeal window (run_finalize_slash).   *)
ConvictionsEnd ==
    \A t \in Targets :
        <>[](eject_ok(t) /\ run.appeal_window_seconds > 0)
            => []<>(verdict[t].status \notin {"SlashPending", "Challenged"})

-----------------------------------------------------------------------------
(* What a comment says, and the code does not do. *)

(* "The round whose committee cast the votes in `voters'" (AuditVerdict):  *)
(* while one tie_breaker_committee_size is in force, every conviction is   *)
(* by two thirds of the committee of one draw.                             *)
VerdictsAreOneCommittees ==
    \A t \in Targets :
        /\ verdict[t].status # "Voting"
        /\ \A d, e \in draws[t] : d.size = e.size
        => \E d \in draws[t] : ConvictedBy(t, d)

(* The same comment, of the votes cast while a round trained: "Without     *)
(* this the verdict accumulated across rounds and pooled votes from        *)
(* committees that were never drawn together".                             *)
VerdictsOfTrainingAreOneCommittees ==
    \A t \in Targets :
        /\ verdict[t].status # "Voting"
        /\ \A d, e \in draws[t] : d.training /\ d.size = e.size
        => \E d \in draws[t] : ConvictedBy(t, d)
=============================================================================
