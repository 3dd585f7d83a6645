--------------------------- MODULE DisputesProofs ---------------------------
(* What disputes preserve, for every set of clients, settings and lottery. *)
EXTENDS Disputes, FiniteSetTheorems, TLAPS

(* What one account satisfies by itself. *)
AccountInv(d) ==
    /\ d \in AuditVerdict
    /\ d.overturn_count + d.uphold_count = Cardinality(d.appeal_voters)
    /\ d.settled_count <= Len(d.voters)
    /\ d.status # "Overturned" => d.settled_count = 0
    /\ d.status \in {"Voting", "SlashPending"} => d.appeal_voters = {}
    /\ Range(d.voters) \cap d.appeal_voters = {}
    /\ IsInjective(d.voters)
    /\ d.status # "Voting" => Len(d.voters) >= 2 /\ ~d.fresh

(* Who was ejected, by the account's status. *)
Losers(t, d) ==
    CASE d.status = "Upheld" -> <<t>>
      [] d.status = "Overturned" -> SubSeq(d.voters, 1, d.settled_count)
      [] OTHER -> <<>>

DisputesInv ==
    /\ RosterTypeOK
    /\ run \in RunSettings
    /\ verdict \in [Targets -> AuditVerdict]
    /\ draws \in [Targets -> SUBSET Draw]
    /\ ejected \in [Targets -> Seq(Client)]
    /\ \A t \in Targets : AccountInv(verdict[t]) /\ ejected[t] = Losers(t, verdict[t])

-----------------------------------------------------------------------------
(* The coordinator's view. *)

(* A set of clients is finite and counts to a natural number. *)
LEMMA RosterFinite ==
    ASSUME NEW S \in SUBSET Client
    PROVE  IsFiniteSet(S) /\ Cardinality(S) \in Nat
<1>1. IsFiniteSet(Client)
  BY FS_Interval, RosterAssumption DEF Client
<1>2. IsFiniteSet(S)
  BY <1>1, FS_Subset
<1> QED
  BY <1>2, FS_CardinalityType

(* A view and what its operators make of it. *)
WellTyped(v) == v \in View /\ v.state \in [v.clients -> ClientState]

(* A compacted roster is well typed (move_clients_to_exited). *)
LEMMA CompactedTyped ==
    ASSUME NEW v, WellTyped(v)
    PROVE  WellTyped(Compacted(v))
<1>1. Healthy(v) \in SUBSET Client
  BY DEF WellTyped, View, Healthy
<1>2. [c \in Healthy(v) |-> "Healthy"] \in [Healthy(v) -> ClientState]
  BY DEF ClientState
<1> QED
  BY <1>1, <1>2, Zenon DEF WellTyped, View, Compacted

(* A withdrawn roster is well typed (withdraw_all). *)
LEMMA WithdrawnTyped ==
    ASSUME NEW v, WellTyped(v)
    PROVE  WellTyped(Withdrawn(v))
<1> DEFINE state == [c \in v.clients |->
        IF v.state[c] = "Healthy" THEN "Withdrawn" ELSE v.state[c]]
<1>1. state \in [v.clients -> ClientState]
  BY DEF WellTyped, View, ClientState
<1>2. v.clients \in SUBSET Client
  BY DEF WellTyped, View
<1>3. Withdrawn(v) = [v EXCEPT !.state = state]
  BY DEF Withdrawn
<1> HIDE DEF state
<1> QED
  BY <1>1, <1>2, <1>3 DEF WellTyped, View

(* Marking one client of the roster keeps a view well typed. *)
LEMMA MarkTyped ==
    ASSUME NEW v, WellTyped(v), NEW c \in v.clients, NEW mark \in ClientState
    PROVE  WellTyped([v EXCEPT !.state[c] = mark])
<1> DEFINE state == [v.state EXCEPT ![c] = mark]
<1>1. state \in [v.clients -> ClientState]
  BY DEF WellTyped
<1>2. v.clients \in SUBSET Client
  BY DEF WellTyped, View
<1>3. [v EXCEPT !.state[c] = mark] = [v EXCEPT !.state = state]
  BY DEF WellTyped, View
<1> HIDE DEF state
<1> QED
  BY <1>1, <1>2, <1>3 DEF WellTyped, View

(* A health check keeps a view well typed. *)
LEMMA ReportedTyped ==
    ASSUME NEW v, WellTyped(v), NEW w \in Reported(v)
    PROVE  WellTyped(w)
<1>1. CASE w = v
  BY <1>1
<1>2. CASE \E c \in Healthy(v) : w = [v EXCEPT !.state[c] = "Dropped"]
  BY <1>2, MarkTyped, Zenon DEF Healthy, ClientState
<1> QED
  BY <1>1, <1>2 DEF Reported

(* A drawn round is well typed (start_round_train). *)
LEMMA DrawnTyped ==
    ASSUME NEW v, WellTyped(v), NEW seed \in Seeds
    PROVE  WellTyped(Drawn(v, seed)) /\ Drawn(v, seed).height = v.height
<1>1. Cardinality(v.clients) \in Nat
  BY RosterFinite DEF WellTyped, View
<1> QED
  BY <1>1, RosterAssumption, Zenon DEF WellTyped, View, Drawn, Phase

(* The coordinator's own moves keep the view well typed. *)
LEMMA MovesTyped ==
    ASSUME WellTyped(view), RosterMoves
    PROVE  WellTyped(view')
<1>1. CASE Report
  BY <1>1, ReportedTyped DEF Report
<1>2. ASSUME NEW clients \in SUBSET Client, Gather(clients)
      PROVE  WellTyped(view')
  <2>1. [c \in clients |-> "Healthy"] \in [clients -> ClientState]
    BY DEF ClientState
  <2> QED
    BY <1>2, <2>1 DEF Gather, WellTyped, View, Phase
<1>3. CASE Compact
  <2>1. WellTyped(Compacted(view))
    BY CompactedTyped
  <2>2. PICK phase \in Phase : view' = [Compacted(view) EXCEPT !.phase = phase]
    BY <1>3, <2>1 DEF Compact, Phase, WellTyped, View
  <2> QED
    BY <2>1, <2>2 DEF WellTyped, View
<1>4. ASSUME NEW seed \in Seeds, Start(seed)
      PROVE  WellTyped(view')
  BY <1>4, DrawnTyped DEF Start
<1>5. ASSUME NEW seed \in Seeds, NextRound(seed)
      PROVE  WellTyped(view')
  <2>1. PICK v \in Reported(view) :
            view' = [Drawn(Compacted(v), seed) EXCEPT !.height = v.height + 1]
    BY <1>5 DEF NextRound
  <2>2. WellTyped(v) /\ v.height + 1 \in Nat
    BY ReportedTyped DEF WellTyped, View
  <2>3. WellTyped(Drawn(Compacted(v), seed))
    BY <2>2, CompactedTyped, DrawnTyped
  <2> QED
    BY <2>1, <2>2, <2>3 DEF WellTyped, View
<1>6. CASE Stop
  <2>1. PICK v \in Reported(view) :
            \E w \in {Compacted(v), Withdrawn(Compacted(v))} :
                view' = [w EXCEPT !.phase = "cooldown"]
    BY <1>6 DEF Stop
  <2>2. PICK w \in {Compacted(v), Withdrawn(Compacted(v))} :
            view' = [w EXCEPT !.phase = "cooldown"]
    BY <2>1
  <2>3. WellTyped(w)
    BY ReportedTyped, CompactedTyped, WithdrawnTyped
  <2> QED
    BY <2>2, <2>3 DEF WellTyped, View, Phase
<1>7. CASE Close
  <2>1. PICK v \in Reported(view) :
            LET closed == [Compacted(v) EXCEPT !.epoch = @ + 1]
            IN  view' \in {[closed EXCEPT !.phase = "waiting"],
                           [closed EXCEPT !.phase = "finished"],
                           [Withdrawn(closed) EXCEPT !.phase = "halted"]}
    BY <1>7, Zenon DEF Close
  <2> DEFINE closed == [Compacted(v) EXCEPT !.epoch = @ + 1]
  <2>2. WellTyped(Compacted(v))
    BY ReportedTyped, CompactedTyped
  <2>3. WellTyped(closed)
    BY <2>2 DEF WellTyped, View
  <2>4. view' \in {[closed EXCEPT !.phase = "waiting"],
                   [closed EXCEPT !.phase = "finished"],
                   [Withdrawn(closed) EXCEPT !.phase = "halted"]}
    BY <2>1
  <2> HIDE DEF closed
  <2>5. WellTyped(Withdrawn(closed))
    BY <2>3, WithdrawnTyped
  <2> QED
    BY <2>3, <2>4, <2>5 DEF WellTyped, View, Phase
<1>8. CASE Pause
  BY <1>8, WithdrawnTyped DEF Pause, WellTyped, View, Phase
<1>9. CASE Resume
  BY <1>9 DEF Resume, WellTyped, View, Phase
<1>10. ASSUME NEW config \in Elections \cup {view.config},
              NEW epoch \in Epochs \cup {view.epoch}, Update(config, epoch)
       PROVE  WellTyped(view')
  <2>1. config \in Election /\ epoch \in Nat
    BY RosterAssumption DEF WellTyped, View
  <2> QED
    BY <1>10, <2>1, Zenon DEF Update, WellTyped, View
<1> QED
  BY <1>1, <1>2, <1>3, <1>4, <1>5, <1>6, <1>7, <1>8, <1>9, <1>10 DEF RosterMoves

(* So does an ejection. *)
LEMMA EjectTyped ==
    ASSUME WellTyped(view), NEW c, Eject(c)
    PROVE  WellTyped(view')
  BY MarkTyped, Zenon DEF Eject, eject_ok, ClientState

-----------------------------------------------------------------------------
(* Quorums. *)

(* The quorum of a verdict is a number, and at least two. *)
LEMMA QuorumAtLeastTwo ==
    ASSUME WellTyped(view), run \in RunSettings, NEW c \in Client, NEW t,
           may_vote(c, t)
    PROVE  /\ VerdictQuorum(view, run.tie_breaker_committee_size) \in Nat
           /\ VerdictQuorum(view, run.tie_breaker_committee_size) >= 2
           /\ TwoThirds(VerifierNodes(view.config, run.tie_breaker_committee_size,
                                      view.clients_len)) \in Nat
<1> DEFINE size == run.tie_breaker_committee_size
           verifiers == VerifierNodes(view.config, size, view.clients_len)
<1>1. /\ view.clients_len \in Nat
      /\ view.config.verification_percent \in Nat
      /\ size \in Nat
  BY DEF WellTyped, View, Election, RunSettings
<1>2. size <= view.clients_len
  BY DEF may_vote, Seated, ValidSelection
<1>3. view.clients_len - size \in Nat
  BY <1>1, <1>2
<1>4. (view.clients_len - size) * view.config.verification_percent \in Nat
  BY <1>1, <1>3
<1>5. verifiers \in Nat
  <2>1. \A n \in Nat : n \div 100 \in Nat
    OBVIOUS
  <2> QED
    BY <1>4, <2>1 DEF VerifierNodes
<1> HIDE DEF verifiers
<1>6. TwoThirds(verifiers) \in Nat
  BY <1>5 DEF TwoThirds
<1>7. VerdictQuorum(view, size) = AtLeast(TwoThirds(verifiers), 2)
  BY DEF VerdictQuorum, verifiers
<1> QED
  BY <1>6, <1>7 DEF AtLeast, verifiers

(* The draw a vote is cast under is well typed. *)
LEMMA CurrentDrawTyped ==
    ASSUME WellTyped(view), run \in RunSettings, NEW c \in Client, NEW t,
           may_vote(c, t)
    PROVE  CurrentDraw \in Draw
<1>1. {d \in view.clients : Seated(view, run.tie_breaker_committee_size, d, "Verifier")}
         \in SUBSET Client
  BY DEF WellTyped, View
<1>2. run.tie_breaker_committee_size \in Nat
  BY DEF RunSettings
<1> QED
  BY <1>1, <1>2, QuorumAtLeastTwo DEF CurrentDraw, Draw

-----------------------------------------------------------------------------
(* The accounts. *)

(* An account just opened (reset_for_round). *)
LEMMA EmptyAccount ==
    ASSUME NEW fresh \in BOOLEAN, NEW epoch \in Nat, NEW height \in Nat
    PROVE  /\ AccountInv(EmptyVerdict(fresh, epoch, height))
           /\ EmptyVerdict(fresh, epoch, height).status = "Voting"
           /\ EmptyVerdict(fresh, epoch, height).voters = <<>>
           /\ EmptyVerdict(fresh, epoch, height).fresh = fresh
<1> DEFINE d == EmptyVerdict(fresh, epoch, height)
<1>1. <<>> \in Seq(Client) /\ Len(<<>>) = 0
  OBVIOUS
<1>2. <<>> \in {<<>>} \cup (Nat \X Claims)
  OBVIOUS
<1>3. 0 \in 0 .. MaxWindow
  BY DisputesAssumption
<1>4. d \in AuditVerdict
  BY <1>1, <1>2, <1>3 DEF EmptyVerdict, AuditVerdict, VerdictStatus
<1>5. /\ d.status = "Voting" /\ d.voters = <<>> /\ d.fresh = fresh
      /\ d.appeal_voters = {} /\ d.settled_count = 0
      /\ d.overturn_count = 0 /\ d.uphold_count = 0
  BY DEF EmptyVerdict
<1>6. Range(<<>>) = {} /\ IsInjective(<<>>)
  BY DEF Range, IsInjective
<1> HIDE DEF d
<1>7. Range(d.voters) = {} /\ IsInjective(d.voters) /\ Len(d.voters) = 0
  BY <1>1, <1>5, <1>6
<1>8. Cardinality(d.appeal_voters) = 0
  BY <1>5, FS_EmptySet
<1>9. AccountInv(d)
  BY <1>4, <1>5, <1>7, <1>8 DEF AccountInv
<1> QED
  BY <1>5, <1>9 DEF d

(* A new voter keeps the voters different from one another. *)
LEMMA AppendInjective ==
    ASSUME NEW s \in Seq(Client), IsInjective(s), NEW c \in Client, c \notin Range(s)
    PROVE  /\ IsInjective(Append(s, c))
           /\ Append(s, c) \in Seq(Client)
           /\ Len(Append(s, c)) = Len(s) + 1
<1>1. \A i \in 1 .. Len(s) : s[i] # c
  BY DEF Range
<1> QED
  BY <1>1 DEF IsInjective

(* A vote recorded in an account that collects votes. *)
LEMMA VotedAccount ==
    ASSUME NEW d, AccountInv(d), d.status = "Voting", d.fresh = FALSE,
           NEW c \in Client, c \notin Range(d.voters),
           NEW evidence \in Nat \X Claims,
           NEW status \in {"Voting", "SlashPending", "Upheld"},
           status # "Voting" => Len(d.voters) + 1 >= 2
    PROVE  /\ AccountInv(Voted(d, c, evidence, status))
           /\ Voted(d, c, evidence, status).status = status
<1> DEFINE e == Voted(d, c, evidence, status)
<1>1. d \in AuditVerdict /\ d.voters \in Seq(Client) /\ IsInjective(d.voters)
  BY DEF AccountInv, AuditVerdict
<1>2. /\ IsInjective(Append(d.voters, c))
      /\ Append(d.voters, c) \in Seq(Client)
      /\ Len(Append(d.voters, c)) = Len(d.voters) + 1
  BY <1>1, AppendInjective
<1>3. /\ e \in AuditVerdict
      /\ e.voters = Append(d.voters, c) /\ e.status = status /\ e.fresh = FALSE
      /\ e.appeal_voters = d.appeal_voters /\ e.settled_count = d.settled_count
      /\ e.overturn_count = d.overturn_count /\ e.uphold_count = d.uphold_count
  BY <1>1, <1>2, Zenon DEF Voted, AuditVerdict, VerdictStatus
<1>4. Len(d.voters) \in Nat
  BY <1>1
<1> HIDE DEF e
<1>5. AccountInv(e)
  BY <1>2, <1>3, <1>4 DEF AccountInv
<1> QED
  BY <1>3, <1>5 DEF e

(* An account whose challenge was just opened. *)
LEMMA ChallengedAccount ==
    ASSUME NEW d, AccountInv(d), d.status = "SlashPending"
    PROVE  AccountInv(Challenged(d)) /\ Challenged(d).status = "Challenged"
<1> DEFINE e == Challenged(d)
<1>1. d \in AuditVerdict /\ 0 \in 0 .. MaxWindow
  BY DisputesAssumption DEF AccountInv
<1>2. /\ e \in AuditVerdict
      /\ e.status = "Challenged" /\ e.voters = d.voters /\ e.appeal_voters = {}
      /\ e.fresh = d.fresh
      /\ e.settled_count = d.settled_count /\ e.overturn_count = 0 /\ e.uphold_count = 0
  BY <1>1, Zenon DEF Challenged, AuditVerdict, VerdictStatus
<1> HIDE DEF e
<1>3. Cardinality(e.appeal_voters) = 0
  BY <1>2, FS_EmptySet
<1>4. AccountInv(e)
  BY <1>2, <1>3 DEF AccountInv
<1> QED
  BY <1>2, <1>4 DEF e

(* An account after a tie-breaker's vote. *)
LEMMA JudgedAccount ==
    ASSUME NEW d, AccountInv(d), d.status = "Challenged", NEW overturn,
           NEW c \in Client, c \notin Range(d.voters), c \notin d.appeal_voters,
           NEW quorum
    PROVE  LET e == Judged(d, c, overturn, quorum)
           IN  /\ AccountInv(e) /\ e.settled_count = 0
               /\ e.status \in {"Challenged", "Upheld", "Overturned"}
<1> DEFINE e == Judged(d, c, overturn, quorum)
           counted == Counted(d, c, overturn)
           outcome == Outcome(counted, quorum)
<1>1. d \in AuditVerdict /\ d.appeal_voters \in SUBSET Client
      /\ d.overturn_count \in Nat /\ d.uphold_count \in Nat
  BY DEF AccountInv, AuditVerdict
<1>2. /\ counted \in AuditVerdict /\ counted.voters = d.voters /\ counted.fresh = d.fresh
      /\ counted.appeal_voters = d.appeal_voters \cup {c}
      /\ counted.settled_count = d.settled_count
      /\ counted.overturn_count + counted.uphold_count
            = d.overturn_count + d.uphold_count + 1
  <2> DEFINE bench == d.appeal_voters \cup {c}
             for == IF overturn THEN d.overturn_count + 1 ELSE d.overturn_count
             against == IF overturn THEN d.uphold_count ELSE d.uphold_count + 1
  <2>1. /\ bench \in SUBSET Client /\ for \in Nat /\ against \in Nat
        /\ for + against = d.overturn_count + d.uphold_count + 1
    BY <1>1
  <2>2. counted = [d EXCEPT !.appeal_voters = bench, !.overturn_count = for,
                            !.uphold_count = against]
    BY DEF Counted
  <2> HIDE DEF bench, for, against, counted
  <2>3. /\ counted \in AuditVerdict /\ counted.voters = d.voters /\ counted.fresh = d.fresh
        /\ counted.appeal_voters = bench /\ counted.settled_count = d.settled_count
        /\ counted.overturn_count = for /\ counted.uphold_count = against
    BY <1>1, <2>1, <2>2, Zenon DEF AuditVerdict
  <2> QED
    BY <2>1, <2>3 DEF bench
<1> HIDE DEF counted
<1>3. /\ e \in AuditVerdict /\ e.voters = d.voters /\ e.fresh = d.fresh
      /\ e.status \in {"Challenged", "Upheld", "Overturned"}
      /\ e.appeal_voters = d.appeal_voters \cup {c}
      /\ e.settled_count = d.settled_count
      /\ e.overturn_count + e.uphold_count = d.overturn_count + d.uphold_count + 1
  <2>1. e = [counted EXCEPT !.status = outcome]
    BY DEF counted, Judged
  <2>2. outcome \in {"Challenged", "Upheld", "Overturned"}
    BY DEF Outcome
  <2> HIDE DEF outcome, e
  <2> QED
    BY <1>2, <2>1, <2>2, SMTT(30) DEF AuditVerdict, VerdictStatus
<1>4. Cardinality(d.appeal_voters \cup {c}) = Cardinality(d.appeal_voters) + 1
  BY <1>1, RosterFinite, FS_AddElement
<1>5. d.settled_count = 0
  BY DEF AccountInv
<1> HIDE DEF e
<1>6. AccountInv(e)
  BY <1>3, <1>4, <1>5 DEF AccountInv
<1> QED
  BY <1>3, <1>5, <1>6 DEF e

(* An account whose conviction was finalised. *)
LEMMA FinalizedAccount ==
    ASSUME NEW d, AccountInv(d), d.status \in {"SlashPending", "Challenged"}
    PROVE  LET e == [d EXCEPT !.status = "Upheld"]
           IN  AccountInv(e) /\ e.status = "Upheld"
<1> DEFINE e == [d EXCEPT !.status = "Upheld"]
<1>1. /\ e \in AuditVerdict /\ e.status = "Upheld" /\ e.voters = d.voters
      /\ e.fresh = d.fresh
      /\ e.appeal_voters = d.appeal_voters /\ e.settled_count = d.settled_count
      /\ e.overturn_count = d.overturn_count /\ e.uphold_count = d.uphold_count
  BY DEF AccountInv, AuditVerdict, VerdictStatus
<1> HIDE DEF e
<1>2. AccountInv(e)
  BY <1>1 DEF AccountInv
<1> QED
  BY <1>1, <1>2 DEF e

(* An account after the next losing verifier was settled. *)
LEMMA SettledAccount ==
    ASSUME NEW d, AccountInv(d), d.status = "Overturned", d.settled_count < Len(d.voters)
    PROVE  LET e == [d EXCEPT !.settled_count = @ + 1]
           IN  /\ AccountInv(e) /\ e.status = "Overturned" /\ e.voters = d.voters
               /\ e.settled_count = d.settled_count + 1
<1> DEFINE e == [d EXCEPT !.settled_count = @ + 1]
<1>1. d \in AuditVerdict /\ d.settled_count \in Nat /\ Len(d.voters) \in Nat
  BY DEF AccountInv, AuditVerdict
<1>2. /\ e \in AuditVerdict /\ e.status = "Overturned" /\ e.voters = d.voters
      /\ e.fresh = d.fresh
      /\ e.appeal_voters = d.appeal_voters /\ e.settled_count = d.settled_count + 1
      /\ e.overturn_count = d.overturn_count /\ e.uphold_count = d.uphold_count
  BY <1>1, SMTT(30) DEF AuditVerdict
<1> HIDE DEF e
<1>3. AccountInv(e)
  BY <1>1, <1>2 DEF AccountInv
<1> QED
  BY <1>2, <1>3 DEF e

(* An account some time later. *)
LEMMA ElapsedAccount ==
    ASSUME NEW d, AccountInv(d), d.elapsed < MaxWindow
    PROVE  LET e == [d EXCEPT !.elapsed = @ + 1]
           IN  /\ AccountInv(e) /\ e.status = d.status /\ e.voters = d.voters
               /\ e.settled_count = d.settled_count
<1> DEFINE e == [d EXCEPT !.elapsed = @ + 1]
<1>1. d \in AuditVerdict /\ d.elapsed + 1 \in 0 .. MaxWindow
  BY DisputesAssumption, SMTT(30) DEF AccountInv, AuditVerdict
<1>2. /\ e \in AuditVerdict /\ e.status = d.status /\ e.voters = d.voters
      /\ e.fresh = d.fresh
      /\ e.appeal_voters = d.appeal_voters /\ e.settled_count = d.settled_count
      /\ e.overturn_count = d.overturn_count /\ e.uphold_count = d.uphold_count
  BY <1>1, SMTT(30) DEF AuditVerdict
<1> HIDE DEF e
<1>3. AccountInv(e)
  BY <1>2 DEF AccountInv
<1> QED
  BY <1>2, <1>3 DEF e

(* One more settled voter is one more loser. *)
LEMMA AppendLoser ==
    ASSUME NEW s \in Seq(Client), NEW k \in Nat, k < Len(s)
    PROVE  /\ Append(SubSeq(s, 1, k), s[k + 1]) = SubSeq(s, 1, k + 1)
           /\ SubSeq(s, 1, k + 1) \in Seq(Client)
  OBVIOUS

-----------------------------------------------------------------------------
(* The inductive invariant. *)

(* A step that rewrites the account of one target, and adds the clients    *)
(* the account says have lost, keeps the invariant.                        *)
LEMMA OneAccountStep ==
    ASSUME DisputesInv, NEW t \in Targets, NEW e, AccountInv(e),
           verdict' = [verdict EXCEPT ![t] = e],
           ejected' = [ejected EXCEPT ![t] = Losers(t, e)],
           Losers(t, e) \in Seq(Client),
           WellTyped(view'), run' \in RunSettings, draws' \in [Targets -> SUBSET Draw]
    PROVE  DisputesInv'
<1>1. e \in AuditVerdict
  BY DEF AccountInv
<1>2. /\ verdict' \in [Targets -> AuditVerdict]
      /\ ejected' \in [Targets -> Seq(Client)]
  BY <1>1 DEF DisputesInv
<1>3. ASSUME NEW u \in Targets
      PROVE  AccountInv(verdict'[u]) /\ ejected'[u] = Losers(u, verdict'[u])
  <2>1. CASE u = t
    BY <2>1, <1>3 DEF DisputesInv
  <2>2. CASE u # t
    <3>1. verdict'[u] = verdict[u] /\ ejected'[u] = ejected[u]
      BY <2>2, <1>3 DEF DisputesInv
    <3> QED
      BY <3>1, <1>3 DEF DisputesInv
  <2> QED
    BY <2>1, <2>2
<1> QED
  BY <1>2, <1>3 DEF DisputesInv, RosterTypeOK, WellTyped, AccountInv, Losers

(* A step that leaves the accounts alone. *)
LEMMA AccountsUnchanged ==
    ASSUME DisputesInv, UNCHANGED <<verdict, ejected>>,
           draws' \in [Targets -> SUBSET Draw],
           WellTyped(view'), run' \in RunSettings
    PROVE  DisputesInv'
  BY DEF DisputesInv, RosterTypeOK, WellTyped, AccountInv, Losers

(* Draws marked as those of an epoch the run was set back from. *)
LEMMA MarkedDraws ==
    ASSUME draws \in [Targets -> SUBSET Draw]
    PROVE  [t \in Targets |-> {[d EXCEPT !.stands = FALSE] : d \in draws[t]}]
             \in [Targets -> SUBSET Draw]
<1>1. ASSUME NEW d \in Draw
      PROVE  [d EXCEPT !.stands = FALSE] \in Draw
  BY <1>1 DEF Draw
<1> QED
  BY <1>1

(* Nobody has lost before a dispute is decided. *)
LEMMA UndecidedLosers ==
    ASSUME NEW t, NEW d, d.status \in {"Voting", "SlashPending", "Challenged"}
    PROVE  Losers(t, d) = <<>>
  BY DEF Losers

(* A vote on a verdict. *)
LEMMA VoteStep ==
    ASSUME DisputesInv, NEW t \in Targets, NEW c \in Client, NEW claim \in Claims,
           SubmitAuditVerdict(c, t, claim)
    PROVE  DisputesInv'
<1> DEFINE new == Opens(verdict[t])
           opened == IF new THEN EmptyVerdict(FALSE, view.epoch, view.height)
                     ELSE verdict[t]
           evidence == <<Index(view.clients, t), claim>>
           quorum == VerdictQuorum(view, run.tie_breaker_committee_size)
           status == IF Len(opened.voters) + 1 < quorum THEN "Voting"
                     ELSE IF run.challenge_window_seconds > 0 THEN "SlashPending"
                     ELSE "Upheld"
           e == Voted(opened, c, evidence, status)
<1>1. WellTyped(view) /\ run \in RunSettings /\ draws \in [Targets -> SUBSET Draw]
      /\ ejected \in [Targets -> Seq(Client)]
  BY DEF DisputesInv, RosterTypeOK, WellTyped
<1>2. may_vote(c, t) /\ opened.status = "Voting" /\ c \notin Range(opened.voters)
  BY Zenon DEF SubmitAuditVerdict
<1>3. AccountInv(opened) /\ opened.fresh = FALSE
  <2>1. view.epoch \in Nat /\ view.height \in Nat
    BY <1>1 DEF WellTyped, View
  <2>2. CASE new
    BY <2>1, <2>2, EmptyAccount, Zenon
  <2>3. CASE ~new
    <3>1. AccountInv(verdict[t]) /\ verdict[t].fresh \in BOOLEAN
      BY DEF DisputesInv, AccountInv, AuditVerdict
    <3>2. ~verdict[t].fresh
      BY <2>3 DEF Opens
    <3> QED
      BY <2>3, <3>1, <3>2
  <2> QED
    BY <2>2, <2>3, Zenon
<1>4. evidence \in Nat \X Claims
  <2>1. {d \in view.clients : d < t} \in SUBSET Client
    BY <1>1 DEF WellTyped, View
  <2> QED
    BY <2>1, RosterFinite DEF Index
<1>5. quorum \in Nat /\ quorum >= 2 /\ CurrentDraw \in Draw
  BY <1>1, <1>2, QuorumAtLeastTwo, CurrentDrawTyped
<1>6. status \in {"Voting", "SlashPending", "Upheld"}
      /\ (status # "Voting" => Len(opened.voters) + 1 >= 2)
  <2> HIDE DEF opened, quorum
  <2>1. Len(opened.voters) \in Nat
    BY <1>3 DEF AccountInv, AuditVerdict
  <2>2. CASE Len(opened.voters) + 1 < quorum
    <3>1. status = "Voting"
      BY <2>2, Zenon
    <3> QED
      BY <3>1
  <2>3. CASE ~(Len(opened.voters) + 1 < quorum)
    <3>1. status # "Voting" /\ status \in {"SlashPending", "Upheld"}
      BY <2>3
    <3>2. Len(opened.voters) + 1 >= 2
      BY <1>5, <2>1, <2>3
    <3> QED
      BY <3>1, <3>2
  <2> QED
    BY <2>2, <2>3
<1>7. AccountInv(e) /\ e.status = status
  <2> HIDE DEF opened, evidence, status
  <2> QED
    BY <1>2, <1>3, <1>4, <1>6, VotedAccount, Zenon
<1>8. verdict' = [verdict EXCEPT ![t] = e] /\ run' = run
  BY DEF SubmitAuditVerdict
<1>9. draws' \in [Targets -> SUBSET Draw]
  BY <1>1, <1>5 DEF SubmitAuditVerdict
<1>10. (IF new THEN <<>> ELSE ejected[t]) = <<>>
  <2>1. CASE new
    BY <2>1
  <2>2. CASE ~new
    <3>1. verdict[t].status = "Voting"
      BY <1>2, <2>2
    <3>2. ejected[t] = <<>>
      BY <3>1, UndecidedLosers DEF DisputesInv
    <3> QED
      BY <3>2
  <2> QED
    BY <2>1, <2>2
<1>11. /\ WellTyped(view')
       /\ ejected' = [ejected EXCEPT ![t] = Losers(t, e)]
       /\ Losers(t, e) \in Seq(Client)
  <2>1. CASE status = "Upheld"
    <3>1. Losers(t, e) = <<t>> /\ t \in Client
      BY <1>7, <2>1, DisputesAssumption, Zenon DEF Losers
    <3>2. Eject(t) /\ ejected' = [ejected EXCEPT ![t] = Append(IF new THEN <<>> ELSE @, t)]
      BY <2>1, Zenon DEF SubmitAuditVerdict
    <3>3. ejected' = [ejected EXCEPT ![t] = Append(IF new THEN <<>> ELSE ejected[t], t)]
      BY <3>2
    <3>4. ejected' = [ejected EXCEPT ![t] = <<t>>]
      <4>1. Append(<<>>, t) = <<t>>
        OBVIOUS
      <4> QED
        BY <1>10, <3>3, <4>1, Zenon
    <3>5. <<t>> \in Seq(Client)
      BY <3>1
    <3>6. WellTyped(view')
      BY <1>1, <3>2, EjectTyped
    <3> QED
      BY <3>1, <3>4, <3>5, <3>6, Zenon
  <2>2. CASE status # "Upheld"
    <3>1. Losers(t, e) = <<>> /\ <<>> \in Seq(Client)
      <4> HIDE DEF e, status
      <4> QED
        BY <1>6, <1>7, <2>2, UndecidedLosers
    <3>2. view' = view /\ ejected' = [ejected EXCEPT ![t] = IF new THEN <<>> ELSE @]
      BY <2>2, Zenon DEF SubmitAuditVerdict
    <3>3. ejected' = [ejected EXCEPT ![t] = IF new THEN <<>> ELSE ejected[t]]
      BY <3>2
    <3>4. ejected' = [ejected EXCEPT ![t] = <<>>]
      BY <1>10, <3>3, Zenon
    <3> QED
      BY <1>1, <3>1, <3>2, <3>4, Zenon
  <2> QED
    BY <2>1, <2>2, Zenon
<1> HIDE DEF e
<1> QED
  BY <1>1, <1>7, <1>8, <1>9, <1>11, OneAccountStep, Zenon

(* The target's challenge. *)
LEMMA ChallengeStep ==
    ASSUME DisputesInv, NEW t \in Targets, OpenChallenge(t)
    PROVE  DisputesInv'
<1> DEFINE e == Challenged(verdict[t])
<1>1. AccountInv(e) /\ e.status = "Challenged"
  BY ChallengedAccount DEF DisputesInv, OpenChallenge
<1>2. ejected[t] = <<>> /\ Losers(t, e) = <<>> /\ <<>> \in Seq(Client)
  BY <1>1, UndecidedLosers DEF DisputesInv, OpenChallenge
<1>3. verdict' = [verdict EXCEPT ![t] = e] /\ UNCHANGED <<view, run, draws, ejected>>
  BY DEF OpenChallenge
<1> HIDE DEF e
<1>4. ejected' = [ejected EXCEPT ![t] = Losers(t, e)]
  BY <1>2, <1>3 DEF DisputesInv
<1>5. WellTyped(view') /\ run' \in RunSettings /\ draws' \in [Targets -> SUBSET Draw]
  BY <1>3 DEF DisputesInv, RosterTypeOK, WellTyped
<1> QED
  BY <1>1, <1>2, <1>3, <1>4, <1>5, OneAccountStep, Zenon

(* A tie-breaker's vote. *)
LEMMA JudgeStep ==
    ASSUME DisputesInv, NEW t \in Targets, NEW c \in Client, NEW overturn \in BOOLEAN,
           SubmitAppealVerdict(c, t, overturn)
    PROVE  DisputesInv'
<1> DEFINE quorum == AppealQuorum(run.tie_breaker_committee_size)
           e == Judged(verdict[t], c, overturn, quorum)
<1>1. /\ AccountInv(verdict[t]) /\ verdict[t].status = "Challenged"
      /\ c \notin verdict[t].appeal_voters /\ c \notin Range(verdict[t].voters)
  BY DEF DisputesInv, SubmitAppealVerdict, may_judge
<1>2. verdict' = [verdict EXCEPT ![t] = e] /\ UNCHANGED <<run, draws>>
      /\ IF e.status = "Upheld" THEN Ejects(t, t) ELSE EjectsNobody
  BY DEF SubmitAppealVerdict
<1>3. /\ AccountInv(e) /\ e.settled_count = 0
      /\ e.status \in {"Challenged", "Upheld", "Overturned"}
  BY <1>1, JudgedAccount
<1>4. ejected[t] = <<>> /\ ejected \in [Targets -> Seq(Client)] /\ WellTyped(view)
  BY <1>1, UndecidedLosers DEF DisputesInv, RosterTypeOK, WellTyped
<1> HIDE DEF e
<1>5. /\ ejected' = [ejected EXCEPT ![t] = Losers(t, e)]
      /\ Losers(t, e) \in Seq(Client) /\ WellTyped(view')
  <2>1. CASE e.status = "Upheld"
    <3>1. Losers(t, e) = <<t>> /\ <<t>> \in Seq(Client)
      BY <1>3, <2>1, DisputesAssumption DEF Losers
    <3>2. ejected' = [ejected EXCEPT ![t] = Append(<<>>, t)] /\ Eject(t)
      BY <1>2, <1>4, <2>1 DEF Ejects
    <3>3. Append(<<>>, t) = <<t>>
      OBVIOUS
    <3>4. WellTyped(view')
      BY <1>4, <3>2, EjectTyped
    <3> QED
      BY <3>1, <3>2, <3>3, <3>4
  <2>2. CASE e.status # "Upheld"
    <3>1. ejected' = ejected /\ view' = view
      BY <1>2, <2>2 DEF EjectsNobody
    <3>2. Losers(t, e) = <<>> /\ <<>> \in Seq(Client)
      <4>1. CASE e.status = "Overturned"
        <5>1. e.voters \in Seq(Client)
          BY <1>3 DEF AccountInv, AuditVerdict
        <5>2. SubSeq(e.voters, 1, 0) = <<>>
          BY <5>1
        <5> QED
          BY <1>3, <4>1, <5>2 DEF Losers
      <4>2. CASE e.status = "Challenged"
        BY <1>3, <4>2, UndecidedLosers
      <4> QED
        BY <1>3, <2>2, <4>1, <4>2
    <3>3. WellTyped(view')
      BY <1>4, <3>1
    <3> QED
      BY <1>4, <3>1, <3>2, <3>3
  <2> QED
    BY <2>1, <2>2
<1>6. run' \in RunSettings /\ draws' \in [Targets -> SUBSET Draw]
  BY <1>2 DEF DisputesInv
<1> QED
  BY <1>2, <1>3, <1>5, <1>6, OneAccountStep, Zenon

(* A conviction finalised. *)
LEMMA FinalizeStep ==
    ASSUME DisputesInv, NEW t \in Targets, FinalizeSlash(t)
    PROVE  DisputesInv'
<1> DEFINE e == [verdict[t] EXCEPT !.status = "Upheld"]
<1>1. AccountInv(verdict[t]) /\ verdict[t].status \in {"SlashPending", "Challenged"}
  BY DEF DisputesInv, FinalizeSlash, slash_due
<1>2. AccountInv(e) /\ e.status = "Upheld"
  BY <1>1, FinalizedAccount
<1>3. verdict' = [verdict EXCEPT ![t] = e] /\ UNCHANGED <<run, draws>> /\ Ejects(t, t)
  BY DEF FinalizeSlash
<1>4. ejected[t] = <<>> /\ WellTyped(view)
  BY <1>1, UndecidedLosers DEF DisputesInv, RosterTypeOK, WellTyped
<1> HIDE DEF e
<1>5. Losers(t, e) = <<t>> /\ <<t>> \in Seq(Client)
  BY <1>2, DisputesAssumption DEF Losers
<1>6. ejected' = [ejected EXCEPT ![t] = Append(<<>>, t)] /\ Eject(t)
  BY <1>3, <1>4 DEF Ejects
<1>7. Append(<<>>, t) = <<t>>
  OBVIOUS
<1>8. WellTyped(view') /\ run' \in RunSettings /\ draws' \in [Targets -> SUBSET Draw]
  BY <1>3, <1>4, <1>6, EjectTyped DEF DisputesInv
<1> QED
  BY <1>2, <1>3, <1>5, <1>6, <1>7, <1>8, OneAccountStep, Zenon

(* A losing verifier settled. *)
LEMMA SettleStep ==
    ASSUME DisputesInv, NEW t \in Targets, SlashLosingVerifier(t)
    PROVE  DisputesInv'
<1> DEFINE d == verdict[t]
           e == [d EXCEPT !.settled_count = @ + 1]
           loser == d.voters[d.settled_count + 1]
<1>1. AccountInv(d) /\ d.status = "Overturned" /\ d.settled_count < Len(d.voters)
  BY DEF DisputesInv, SlashLosingVerifier
<1>2. /\ AccountInv(e) /\ e.status = "Overturned" /\ e.voters = d.voters
      /\ e.settled_count = d.settled_count + 1
  <2> HIDE DEF d
  <2> QED
    BY <1>1, SettledAccount
<1>3. verdict' = [verdict EXCEPT ![t] = e] /\ UNCHANGED <<run, draws>> /\ Ejects(t, loser)
  BY DEF SlashLosingVerifier
<1>4. d.voters \in Seq(Client) /\ d.settled_count \in Nat /\ WellTyped(view)
  BY <1>1 DEF DisputesInv, RosterTypeOK, WellTyped, AccountInv, AuditVerdict
<1>5. ejected[t] = SubSeq(d.voters, 1, d.settled_count)
  BY <1>1 DEF DisputesInv, Losers
<1> HIDE DEF d, e
<1>6. Losers(t, e) = SubSeq(d.voters, 1, d.settled_count + 1)
  BY <1>2, Zenon DEF Losers
<1>7. /\ Append(SubSeq(d.voters, 1, d.settled_count), loser)
             = SubSeq(d.voters, 1, d.settled_count + 1)
      /\ SubSeq(d.voters, 1, d.settled_count + 1) \in Seq(Client)
  <2> DEFINE s == d.voters
             k == d.settled_count
  <2>1. s \in Seq(Client) /\ k \in Nat /\ k < Len(s)
    BY <1>1, <1>4
  <2> HIDE DEF s, k
  <2>2. /\ Append(SubSeq(s, 1, k), s[k + 1]) = SubSeq(s, 1, k + 1)
        /\ SubSeq(s, 1, k + 1) \in Seq(Client)
    BY <2>1, AppendLoser, Zenon
  <2> QED
    BY <2>2, Zenon DEF s, k, loser
<1>8. ejected' = [ejected EXCEPT ![t] = Append(ejected[t], loser)] /\ Eject(loser)
  BY <1>3 DEF Ejects
<1>9. WellTyped(view') /\ run' \in RunSettings /\ draws' \in [Targets -> SUBSET Draw]
  BY <1>3, <1>4, <1>8, EjectTyped DEF DisputesInv
<1> HIDE DEF loser
<1> QED
  BY <1>2, <1>3, <1>5, <1>6, <1>7, <1>8, <1>9, OneAccountStep, Zenon

(* Time passing. *)
LEMMA ElapseStep ==
    ASSUME DisputesInv, Elapse
    PROVE  DisputesInv'
<1>1. ASSUME NEW t \in Targets
      PROVE  /\ AccountInv(verdict'[t]) /\ ejected'[t] = Losers(t, verdict'[t])
             /\ verdict'[t] \in AuditVerdict
  <2> DEFINE e == [verdict[t] EXCEPT !.elapsed = @ + 1]
  <2>1. AccountInv(verdict[t]) /\ ejected'[t] = Losers(t, verdict[t])
    BY <1>1 DEF DisputesInv, Elapse
  <2>2. \/ verdict'[t] = verdict[t]
        \/ verdict'[t] = e /\ verdict[t].elapsed < MaxWindow
    BY <1>1 DEF Elapse
  <2>3. CASE verdict'[t] = verdict[t]
    BY <2>1, <2>3 DEF AccountInv
  <2>4. CASE verdict'[t] = e /\ verdict[t].elapsed < MaxWindow
    <3>1. /\ AccountInv(e) /\ e.status = verdict[t].status
          /\ e.voters = verdict[t].voters /\ e.settled_count = verdict[t].settled_count
      BY <2>1, <2>4, ElapsedAccount
    <3> HIDE DEF e
    <3>2. Losers(t, e) = Losers(t, verdict[t])
      BY <3>1 DEF Losers
    <3> QED
      BY <2>1, <2>4, <3>1, <3>2 DEF AccountInv
  <2> QED
    BY <2>2, <2>3, <2>4
<1>2. verdict' \in [Targets -> AuditVerdict]
  <2>1. DOMAIN verdict' = Targets /\ verdict' = [t \in Targets |-> verdict'[t]]
    BY DEF Elapse
  <2> QED
    BY <1>1, <2>1
<1>3. UNCHANGED <<view, run, draws, ejected>>
  BY DEF Elapse
<1> QED
  BY <1>1, <1>2, <1>3 DEF DisputesInv, RosterTypeOK, AccountInv, Losers

(* The initial state satisfies the invariant. *)
LEMMA InitDisputes == DisputesInit => DisputesInv
<1> SUFFICES ASSUME DisputesInit PROVE DisputesInv
  OBVIOUS
<1>1. RosterTypeOK
  <2>1. <<>> \in [{} -> ClientState] /\ {} \in SUBSET Client
    OBVIOUS
  <2>2. <<>> \in UNION {[S -> ClientState] : S \in SUBSET Client}
    BY <2>1, Zenon
  <2>3. ZeroElection \in Election
    BY DEF ZeroElection, Election
  <2> HIDE DEF ClientState
  <2> QED
    BY <2>1, <2>2, <2>3, Zenon DEF DisputesInit, RosterInit, RosterTypeOK, View, Phase
<1>2. run \in RunSettings
  BY DisputesAssumption DEF DisputesInit, RunSettings
<1>3. /\ AccountInv(FreshVerdict) /\ FreshVerdict.status = "Voting"
  BY EmptyAccount, Zenon DEF FreshVerdict
<1>4. FreshVerdict \in AuditVerdict
  BY <1>3 DEF AccountInv
<1>5. \A t \in Targets : AccountInv(verdict[t]) /\ ejected[t] = Losers(t, verdict[t])
  BY <1>3, UndecidedLosers DEF DisputesInit
<1>6. /\ verdict \in [Targets -> AuditVerdict] /\ draws \in [Targets -> SUBSET Draw]
      /\ ejected \in [Targets -> Seq(Client)]
  <2>1. <<>> \in Seq(Client)
    OBVIOUS
  <2> QED
    BY <1>4, <2>1 DEF DisputesInit
<1> QED
  BY <1>1, <1>2, <1>5, <1>6 DEF DisputesInv

(* Every step preserves the invariant. *)
LEMMA StepDisputes == DisputesInv /\ [DisputesNext]_dvars => DisputesInv'
<1> SUFFICES ASSUME DisputesInv, [DisputesNext]_dvars PROVE DisputesInv'
  OBVIOUS
<1>0. /\ WellTyped(view) /\ run \in RunSettings
      /\ draws \in [Targets -> SUBSET Draw]
  BY DEF DisputesInv, RosterTypeOK, WellTyped
<1>1. CASE Coordinate
  <2>1. WellTyped(view')
    BY <1>0, <1>1, MovesTyped DEF Coordinate
  <2>2. draws' \in [Targets -> SUBSET Draw]
    BY <1>0, <1>1, MarkedDraws DEF Coordinate
  <2> QED
    BY <1>0, <1>1, <2>1, <2>2, AccountsUnchanged DEF Coordinate
<1>2. ASSUME NEW settings \in Settings, SetChallengeConfig(settings)
      PROVE  DisputesInv'
  BY <1>0, <1>2, AccountsUnchanged, DisputesAssumption DEF SetChallengeConfig
<1>3. ASSUME NEW c \in Slashable, Slash(c)
      PROVE  DisputesInv'
  BY <1>0, <1>3, EjectTyped, AccountsUnchanged DEF Slash
<1>4. CASE Elapse
  BY <1>4, ElapseStep
<1>5. CASE UNCHANGED dvars
  BY <1>0, <1>5, AccountsUnchanged DEF dvars
<1> QED
  BY <1>1, <1>2, <1>3, <1>4, <1>5, VoteStep, ChallengeStep, JudgeStep, FinalizeStep,
     SettleStep DEF DisputesNext

(* The invariant holds throughout, whatever the lottery draws, whoever     *)
(* votes and however the coordinator's moves fall between the votes.       *)
THEOREM DisputesInvariant == DisputesSpec => []DisputesInv
  BY InitDisputes, StepDisputes, PTL DEF DisputesSpec

(* Accounts are well typed, no tie-breaker is counted twice and no voter   *)
(* is settled twice (submit_appeal_verdict, slash_losing_verifier).        *)
THEOREM DisputesTyped == DisputesSpec => []DisputesTypeOK
<1>1. DisputesInv => DisputesTypeOK
  BY DEF DisputesInv, DisputesTypeOK, AccountInv
<1> QED
  BY <1>1, DisputesInvariant, PTL

(* Whoever judges an appeal did not vote on the verdict, and a conviction  *)
(* has at least two different verifiers behind it.                         *)
THEOREM DisjointBenches == DisputesSpec => []BenchesAreDisjoint
<1>1. DisputesInv => BenchesAreDisjoint
  BY DEF DisputesInv, BenchesAreDisjoint, AccountInv
<1> QED
  BY <1>1, DisputesInvariant, PTL

(* A dispute ejects its target, or its voters in order, or nobody.         *)
THEOREM OneSide == DisputesSpec => []OneSideLoses
<1>1. DisputesInv => OneSideLoses
  BY DEF DisputesInv, OneSideLoses, Losers
<1> QED
  BY <1>1, DisputesInvariant, PTL

(* What the account of a dispute may not lose before it is finished. *)
Kept(d, e) ==
    /\ e.voters = d.voters
    /\ e.evidence = d.evidence
    /\ e.settled_count >= d.settled_count
    /\ <<d.status, e.status>> \notin
          {<<"Challenged", "SlashPending">>, <<"Overturned", "Upheld">>}

LEMMA SameAccountKept ==
    ASSUME NEW d \in AuditVerdict
    PROVE  Kept(d, d)
  BY DEF Kept, AuditVerdict

(* An account that kept its votes, and whose status did not go back. *)
LEMMA FieldsKept ==
    ASSUME NEW d \in AuditVerdict, NEW e, e.voters = d.voters, e.evidence = d.evidence,
           e.settled_count \in {d.settled_count, d.settled_count + 1},
           \/ e.status = d.status
           \/ d.status = "SlashPending" /\ e.status \in {"Challenged", "Upheld"}
           \/ d.status = "Challenged" /\ e.status \in {"Upheld", "Overturned"}
    PROVE  Kept(d, e)
<1>1. e.settled_count >= d.settled_count
  BY DEF AuditVerdict
<1>2. ~(d.status = "Challenged" /\ e.status = "SlashPending")
      /\ ~(d.status = "Overturned" /\ e.status = "Upheld")
  OBVIOUS
<1>3. <<d.status, e.status>> \notin
          {<<"Challenged", "SlashPending">>, <<"Overturned", "Upheld">>}
  BY <1>2
<1> QED
  BY <1>1, <1>3 DEF Kept

(* One step, one account. *)
LEMMA KeptStep ==
    ASSUME DisputesInv, [DisputesNext]_dvars, NEW t \in Targets, ~is_settled(verdict[t])
    PROVE  Kept(verdict[t], verdict'[t])
<1> DEFINE d == verdict[t]
           e == verdict'[t]
<1>0. /\ AccountInv(d) /\ d \in AuditVerdict /\ verdict \in [Targets -> AuditVerdict]
      /\ d.status \in {"SlashPending", "Challenged", "Overturned"} /\ d.fresh = FALSE
  BY DEF DisputesInv, AccountInv, AuditVerdict, VerdictStatus, is_settled
<1>1. CASE UNCHANGED verdict
  BY <1>0, <1>1, SameAccountKept
<1>2. ASSUME NEW u \in Targets, NEW f, u # t, verdict' = [verdict EXCEPT ![u] = f]
      PROVE  Kept(d, e)
  <2>1. e = d
    BY <1>0, <1>2
  <2> QED
    BY <1>0, <2>1, SameAccountKept
<1>3. ASSUME NEW c \in Client, NEW claim \in Claims, SubmitAuditVerdict(c, t, claim)
      PROVE  FALSE
  <2>1. CASE Opens(d)
    BY <1>0, <1>3, <2>1 DEF SubmitAuditVerdict, may_open
  <2>2. CASE ~Opens(d)
    <3>1. d.status = "Voting"
      BY <1>3, <2>2 DEF SubmitAuditVerdict
    <3> QED
      BY <1>0, <3>1
  <2> QED
    BY <2>1, <2>2
<1>4. CASE OpenChallenge(t)
  <2>1. e = Challenged(d) /\ d.status = "SlashPending"
    BY <1>0, <1>4 DEF OpenChallenge
  <2> HIDE DEF d, e
  <2>2. /\ e.voters = d.voters /\ e.evidence = d.evidence /\ e.status = "Challenged"
        /\ e.settled_count = d.settled_count
    BY <1>0, <2>1 DEF Challenged, AuditVerdict
  <2> QED
    BY <1>0, <2>1, <2>2, FieldsKept DEF d, e
<1>5. ASSUME NEW c \in Client, NEW overturn \in BOOLEAN, SubmitAppealVerdict(c, t, overturn)
      PROVE  Kept(d, e)
  <2> DEFINE quorum == AppealQuorum(run.tie_breaker_committee_size)
             counted == Counted(d, c, overturn)
             outcome == Outcome(counted, quorum)
  <2>1. e = [counted EXCEPT !.status = outcome] /\ d.status = "Challenged"
    BY <1>0, <1>5 DEF SubmitAppealVerdict, Judged, may_judge
  <2>2. outcome \in {"Challenged", "Upheld", "Overturned"}
    BY DEF Outcome
  <2> HIDE DEF d, e, outcome
  <2>3. /\ e.voters = d.voters /\ e.evidence = d.evidence /\ e.status = outcome
        /\ e.settled_count = d.settled_count
    BY <1>0, <2>1 DEF Counted, AuditVerdict
  <2> QED
    BY <1>0, <2>1, <2>2, <2>3, FieldsKept, Zenon
<1>6. CASE FinalizeSlash(t)
  <2>1. e = [d EXCEPT !.status = "Upheld"] /\ d.status \in {"SlashPending", "Challenged"}
    BY <1>0, <1>6 DEF FinalizeSlash, slash_due
  <2> HIDE DEF d, e
  <2>2. /\ e.voters = d.voters /\ e.evidence = d.evidence /\ e.status = "Upheld"
        /\ e.settled_count = d.settled_count
    BY <1>0, <2>1 DEF AuditVerdict
  <2> QED
    BY <1>0, <2>1, <2>2, FieldsKept, Zenon DEF d, e
<1>7. CASE SlashLosingVerifier(t)
  <2>1. e = [d EXCEPT !.settled_count = @ + 1]
    BY <1>0, <1>7 DEF SlashLosingVerifier
  <2> HIDE DEF d, e
  <2>2. /\ e.voters = d.voters /\ e.evidence = d.evidence /\ e.status = d.status
        /\ e.settled_count = d.settled_count + 1
    BY <1>0, <2>1 DEF AuditVerdict
  <2> QED
    BY <1>0, <2>2, FieldsKept DEF d, e
<1>8. CASE Elapse
  <2>1. e = d \/ e = [d EXCEPT !.elapsed = @ + 1]
    BY <1>0, <1>8 DEF Elapse
  <2> HIDE DEF d, e
  <2>2. /\ e.voters = d.voters /\ e.evidence = d.evidence /\ e.status = d.status
        /\ e.settled_count = d.settled_count
    BY <1>0, <2>1, SMTT(30) DEF AuditVerdict
  <2> QED
    BY <1>0, <2>2, FieldsKept DEF d, e
<1>9. ASSUME NEW u \in Targets, u # t,
             \/ \E c \in Client, claim \in Claims : SubmitAuditVerdict(c, u, claim)
             \/ OpenChallenge(u)
             \/ \E c \in Client, overturn \in BOOLEAN : SubmitAppealVerdict(c, u, overturn)
             \/ FinalizeSlash(u)
             \/ SlashLosingVerifier(u)
      PROVE  Kept(d, e)
  <2>1. \E f : verdict' = [verdict EXCEPT ![u] = f]
    BY <1>9, Zenon DEF SubmitAuditVerdict, OpenChallenge, SubmitAppealVerdict, FinalizeSlash,
                SlashLosingVerifier
  <2> QED
    BY <1>2, <1>9, <2>1, Zenon
<1>10. CASE Coordinate \/ (\E settings \in Settings : SetChallengeConfig(settings))
            \/ (\E c \in Slashable : Slash(c)) \/ UNCHANGED dvars
  BY <1>1, <1>10 DEF Coordinate, SetChallengeConfig, Slash, dvars
<1> QED
  BY <1>3, <1>4, <1>5, <1>6, <1>7, <1>8, <1>9, <1>10 DEF DisputesNext

(* An unfinished dispute keeps its account, whatever votes, rounds and     *)
(* epochs come in between (is_settled).                                    *)
THEOREM UnfinishedKept == DisputesSpec => UnfinishedDisputesAreKept
<1>1. DisputesInv /\ [DisputesNext]_dvars =>
         [ \A t \in Targets :
            ~is_settled(verdict[t]) =>
                /\ verdict'[t].voters = verdict[t].voters
                /\ verdict'[t].evidence = verdict[t].evidence
                /\ verdict'[t].settled_count >= verdict[t].settled_count
                /\ <<verdict[t].status, verdict'[t].status>> \notin
                      {<<"Challenged", "SlashPending">>, <<"Overturned", "Upheld">>}
         ]_dvars
  BY KeptStep DEF Kept
<1> QED
  BY <1>1, DisputesInvariant, PTL DEF DisputesSpec, UnfinishedDisputesAreKept

-----------------------------------------------------------------------------
(* Verdicts of one committee.                                              *)

(* The draw of a view that trains, with a bench of the given size. *)
DrawOf(v, size) ==
    [training |-> TRUE, stands |-> TRUE, size |-> size,
     jury |-> {c \in v.clients : Seated(v, size, c, "Verifier")},
     two_thirds |-> TwoThirds(VerifierNodes(v.config, size, v.clients_len))]

SameDraw(v, w) ==
    /\ w.config = v.config /\ w.random_seed = v.random_seed
    /\ w.clients_len = v.clients_len /\ w.clients = v.clients

(* How a view may follow another: within an epoch no round is drawn twice, *)
(* and none after the cooldown.                                            *)
Follows(v, w) ==
    w.epoch = v.epoch /\ v.phase \in {"training", "cooldown"} =>
        /\ w.phase \in {"training", "cooldown"}
        /\ w.phase = "training" =>
              /\ v.phase = "training"
              /\ w.height > v.height \/ (w.height = v.height /\ SameDraw(v, w))

(* Draw e, noted for a dispute of the given round while it trained, is a   *)
(* draw of the past or still the current one, unless the run was set back. *)
Noted(epoch, height, e, v) ==
    e.training /\ e.stands =>
        /\ epoch <= v.epoch
        /\ epoch = v.epoch =>
              /\ v.phase \in {"training", "cooldown"}
              /\ v.phase = "training" =>
                    /\ height <= v.height
                    /\ height = v.height => e = DrawOf(v, e.size)

Uniform(D) == \A d, e \in D : d.training /\ d.stands /\ d.size = e.size

(* The votes of account d, cast under the draws D. *)
JuryInv(d, D) ==
    /\ D = {} => d.voters = <<>> /\ d.status = "Voting"
    /\ Uniform(D) => \A e \in D :
          /\ Range(d.voters) \subseteq e.jury
          /\ d.status # "Voting" => Len(d.voters) >= e.two_thirds

DrawInv ==
    \A t \in Targets :
        /\ \A e \in draws[t] : Noted(verdict[t].epoch, verdict[t].round_height, e, view)
        /\ JuryInv(verdict[t], draws[t])

LEMMA SameDrawOf ==
    ASSUME NEW v, NEW w, SameDraw(v, w), NEW size
    PROVE  DrawOf(w, size) = DrawOf(v, size)
<1>1. \A c : Seated(w, size, c, "Verifier") <=> Seated(v, size, c, "Verifier")
  BY DEF Seated, SameDraw
<1>2. {c \in w.clients : Seated(w, size, c, "Verifier")}
        = {c \in v.clients : Seated(v, size, c, "Verifier")}
  BY <1>1 DEF SameDraw
<1> QED
  BY <1>2, Zenon DEF DrawOf, SameDraw

(* What was noted stays true as the view moves on. *)
LEMMA NotedLater ==
    ASSUME NEW v \in View, NEW w \in View, Follows(v, w), v.epoch <= w.epoch,
           NEW epoch \in Nat, NEW height \in Nat, NEW e, Noted(epoch, height, e, v)
    PROVE  Noted(epoch, height, e, w)
<1>1. /\ v.epoch \in Nat /\ w.epoch \in Nat /\ v.height \in Nat /\ w.height \in Nat
  BY DEF View
<1>2. SameDraw(v, w) => DrawOf(w, e.size) = DrawOf(v, e.size)
  BY SameDrawOf
<1> QED
  BY <1>1, <1>2 DEF Noted, Follows

(* Marking a client leaves everything else of a view. *)
LEMMA MarkFollows ==
    ASSUME NEW v, WellTyped(v), NEW c, NEW mark
    PROVE  /\ Follows(v, [v EXCEPT !.state[c] = mark])
           /\ [v EXCEPT !.state[c] = mark].height = v.height
           /\ [v EXCEPT !.state[c] = mark].epoch = v.epoch
<1> DEFINE w == [v EXCEPT !.state[c] = mark]
<1>1. /\ w.phase = v.phase /\ w.config = v.config /\ w.epoch = v.epoch
      /\ w.height = v.height /\ w.random_seed = v.random_seed
      /\ w.clients_len = v.clients_len /\ w.clients = v.clients
  BY DEF WellTyped, View
<1> HIDE DEF w
<1>2. Follows(v, w)
  BY <1>1 DEF Follows, SameDraw
<1> QED
  BY <1>1, <1>2 DEF w

LEMMA ReportedFollows ==
    ASSUME NEW v, WellTyped(v), NEW w \in Reported(v)
    PROVE  Follows(v, w) /\ w.height = v.height /\ w.epoch = v.epoch
<1>1. CASE w = v
  BY <1>1 DEF Follows, SameDraw
<1>2. CASE \E c \in Healthy(v) : w = [v EXCEPT !.state[c] = "Dropped"]
  <2>1. PICK c \in Healthy(v) : w = [v EXCEPT !.state[c] = "Dropped"]
    BY <1>2, Zenon
  <2> QED
    BY <2>1, MarkFollows
<1> QED
  BY <1>1, <1>2 DEF Reported

(* Each of the coordinator's moves. *)
LEMMA MovesFollow ==
    ASSUME WellTyped(view), RosterMoves
    PROVE  Follows(view, view')
<1>0. view \in View /\ view.epoch \in Nat /\ view.height \in Nat
  BY DEF WellTyped, View
<1>1. CASE view.phase \notin {"training", "cooldown"}
  BY <1>1 DEF Follows
<1>2. CASE Report
  BY <1>2, ReportedFollows DEF Report
<1>3. ASSUME NEW seed \in Seeds, NextRound(seed)
      PROVE  Follows(view, view')
  <2>1. PICK v \in Reported(view) :
            view' = [Drawn(Compacted(v), seed) EXCEPT !.height = v.height + 1]
    BY <1>3 DEF NextRound
  <2>2. WellTyped(v) /\ v.height = view.height
    BY ReportedTyped, ReportedFollows
  <2>3. WellTyped(Drawn(Compacted(v), seed))
    BY <2>2, CompactedTyped, DrawnTyped
  <2>4. view'.height = v.height + 1
    BY <2>1, <2>3 DEF WellTyped, View
  <2>5. view'.phase = "training"
    BY <2>1, <2>2, CompactedTyped DEF Drawn, WellTyped, View
  <2>6. view.phase = "training"
    BY <1>3 DEF NextRound
  <2> QED
    BY <1>0, <2>2, <2>4, <2>5, <2>6 DEF Follows
<1>4. CASE Stop
  <2>1. PICK v \in Reported(view) :
            \E w \in {Compacted(v), Withdrawn(Compacted(v))} :
                view' = [w EXCEPT !.phase = "cooldown"]
    BY <1>4 DEF Stop
  <2>2. PICK w \in {Compacted(v), Withdrawn(Compacted(v))} :
            view' = [w EXCEPT !.phase = "cooldown"]
    BY <2>1
  <2>3. WellTyped(w)
    BY ReportedTyped, CompactedTyped, WithdrawnTyped
  <2>4. view'.phase = "cooldown"
    BY <2>2, <2>3 DEF WellTyped, View
  <2> QED
    BY <2>4 DEF Follows
<1>5. CASE Close
  <2>1. PICK v \in Reported(view) :
            LET closed == [Compacted(v) EXCEPT !.epoch = @ + 1]
            IN  view' \in {[closed EXCEPT !.phase = "waiting"],
                           [closed EXCEPT !.phase = "finished"],
                           [Withdrawn(closed) EXCEPT !.phase = "halted"]}
    BY <1>5, Zenon DEF Close
  <2> DEFINE closed == [Compacted(v) EXCEPT !.epoch = @ + 1]
  <2>2. WellTyped(v) /\ WellTyped(Compacted(v)) /\ v.epoch = view.epoch
    BY ReportedTyped, CompactedTyped, ReportedFollows
  <2>3. Compacted(v).epoch = v.epoch
    BY <2>2 DEF Compacted, WellTyped, View
  <2>4. WellTyped(closed) /\ closed.epoch = view.epoch + 1
    BY <2>2, <2>3 DEF WellTyped, View
  <2>5. view' \in {[closed EXCEPT !.phase = "waiting"],
                   [closed EXCEPT !.phase = "finished"],
                   [Withdrawn(closed) EXCEPT !.phase = "halted"]}
    BY <2>1
  <2> HIDE DEF closed
  <2>6. WellTyped(Withdrawn(closed)) /\ Withdrawn(closed).epoch = closed.epoch
    <3>1. WellTyped(Withdrawn(closed))
      BY <2>4, WithdrawnTyped
    <3> QED
      BY <2>4, <3>1 DEF Withdrawn, WellTyped, View
  <2>7. view'.epoch = view.epoch + 1
    BY <2>4, <2>5, <2>6 DEF WellTyped, View
  <2> QED
    BY <1>0, <2>7 DEF Follows
<1> QED
  BY <1>1, <1>2, <1>3, <1>4, <1>5, Zenon
  DEF RosterMoves, Gather, Compact, Start, Pause, Resume, Update

(* Every step is a move of the coordinator, an ejection or leaves the view. *)
LEMMA StepEjects ==
    ASSUME [DisputesNext]_dvars
    PROVE  Coordinate \/ UNCHANGED view \/ \E c : Eject(c)
<1>1. ASSUME NEW t \in Targets, NEW c \in Client, NEW claim \in Claims,
             SubmitAuditVerdict(c, t, claim)
      PROVE  UNCHANGED view \/ Eject(t)
  BY <1>1, Zenon DEF SubmitAuditVerdict
<1>2. ASSUME NEW t \in Targets, NEW c \in Client, NEW overturn \in BOOLEAN,
             SubmitAppealVerdict(c, t, overturn)
      PROVE  UNCHANGED view \/ Eject(t)
  BY <1>2 DEF SubmitAppealVerdict, Ejects, EjectsNobody
<1>3. ASSUME NEW t \in Targets, FinalizeSlash(t) \/ SlashLosingVerifier(t)
      PROVE  \E c : Eject(c)
  BY <1>3 DEF FinalizeSlash, SlashLosingVerifier, Ejects
<1> QED
  BY <1>1, <1>2, <1>3
  DEF DisputesNext, dvars, SetChallengeConfig, Slash, OpenChallenge, Elapse

(* So every step follows. *)
LEMMA StepFollows ==
    ASSUME DisputesInv, [DisputesNext]_dvars
    PROVE  Follows(view, view')
<1>1. WellTyped(view)
  BY DEF DisputesInv, RosterTypeOK, WellTyped
<1>2. CASE UNCHANGED view
  BY <1>2 DEF Follows, SameDraw
<1>3. ASSUME NEW c, Eject(c)
      PROVE  Follows(view, view')
  BY <1>1, <1>3, MarkFollows DEF Eject
<1>4. CASE Coordinate
  BY <1>1, <1>4, MovesFollow DEF Coordinate
<1> QED
  BY <1>2, <1>3, <1>4, StepEjects

(* The same dispute with the same votes, as far as a conviction goes. *)
SameVotes(d, e) ==
    /\ e.epoch = d.epoch /\ e.round_height = d.round_height /\ e.voters = d.voters
    /\ e.status = "Voting" <=> d.status = "Voting"

(* Only a vote against t changes the votes on t, and only a vote or an     *)
(* epoch set back the draws noted for them.                                *)
LEMMA VotesStay ==
    ASSUME DisputesInv, [DisputesNext]_dvars, NEW t \in Targets,
           ~ \E c \in Client, claim \in Claims : SubmitAuditVerdict(c, t, claim),
           ~(view'.epoch < view.epoch)
    PROVE  SameVotes(verdict[t], verdict'[t]) /\ draws'[t] = draws[t]
<1> DEFINE d == verdict[t]
           e == verdict'[t]
<1>0. /\ d \in AuditVerdict /\ verdict \in [Targets -> AuditVerdict]
      /\ draws \in [Targets -> SUBSET Draw]
  BY DEF DisputesInv
<1>1. CASE UNCHANGED <<verdict, draws>>
  BY <1>1 DEF SameVotes
<1>2. ASSUME NEW u \in Targets, u # t,
             \/ \E c \in Client, claim \in Claims : SubmitAuditVerdict(c, u, claim)
             \/ OpenChallenge(u)
             \/ \E c \in Client, overturn \in BOOLEAN : SubmitAppealVerdict(c, u, overturn)
             \/ FinalizeSlash(u)
             \/ SlashLosingVerifier(u)
      PROVE  SameVotes(d, e) /\ draws'[t] = draws[t]
  <2>1. \E f : verdict' = [verdict EXCEPT ![u] = f]
    BY <1>2, ZenonT(30) DEF SubmitAuditVerdict, OpenChallenge, SubmitAppealVerdict, FinalizeSlash,
                SlashLosingVerifier
  <2>2. draws' = draws \/ \E D : draws' = [draws EXCEPT ![u] = D]
    BY <1>2, Zenon DEF SubmitAuditVerdict, OpenChallenge, SubmitAppealVerdict, FinalizeSlash,
                SlashLosingVerifier
  <2>3. e = d /\ draws'[t] = draws[t]
    BY <1>0, <1>2, <2>1, <2>2
  <2> QED
    BY <2>3 DEF SameVotes
<1>3. CASE OpenChallenge(t)
  <2>1. e = Challenged(d) /\ d.status = "SlashPending" /\ draws' = draws
    BY <1>0, <1>3 DEF OpenChallenge
  <2> HIDE DEF d, e
  <2>2. SameVotes(d, e)
    BY <1>0, <2>1 DEF Challenged, AuditVerdict, SameVotes
  <2> QED
    BY <2>1, <2>2 DEF d, e
<1>4. ASSUME NEW c \in Client, NEW overturn \in BOOLEAN, SubmitAppealVerdict(c, t, overturn)
      PROVE  SameVotes(d, e) /\ draws'[t] = draws[t]
  <2> DEFINE quorum == AppealQuorum(run.tie_breaker_committee_size)
             counted == Counted(d, c, overturn)
             outcome == Outcome(counted, quorum)
  <2>1. /\ e = [counted EXCEPT !.status = outcome] /\ d.status = "Challenged"
        /\ draws' = draws
    BY <1>0, <1>4 DEF SubmitAppealVerdict, Judged, may_judge
  <2>2. outcome \in {"Challenged", "Upheld", "Overturned"}
    BY DEF Outcome
  <2> HIDE DEF d, e, outcome
  <2>3. /\ e.voters = d.voters /\ e.epoch = d.epoch /\ e.status = outcome
        /\ e.round_height = d.round_height
    BY <1>0, <2>1 DEF Counted, AuditVerdict
  <2> QED
    BY <2>1, <2>2, <2>3 DEF SameVotes, d, e
<1>5. CASE FinalizeSlash(t)
  <2>1. /\ e = [d EXCEPT !.status = "Upheld"] /\ d.status \in {"SlashPending", "Challenged"}
        /\ draws' = draws
    BY <1>0, <1>5 DEF FinalizeSlash, slash_due
  <2> HIDE DEF d, e
  <2>2. SameVotes(d, e)
    BY <1>0, <2>1, SMTT(30) DEF AuditVerdict, SameVotes
  <2> QED
    BY <2>1, <2>2 DEF d, e
<1>6. CASE SlashLosingVerifier(t)
  <2>1. e = [d EXCEPT !.settled_count = @ + 1] /\ draws' = draws
    BY <1>0, <1>6 DEF SlashLosingVerifier
  <2> HIDE DEF d, e
  <2>2. SameVotes(d, e)
    BY <1>0, <2>1 DEF AuditVerdict, SameVotes
  <2> QED
    BY <2>1, <2>2 DEF d, e
<1>7. CASE Elapse
  <2>1. (e = d \/ e = [d EXCEPT !.elapsed = @ + 1]) /\ draws' = draws
    BY <1>0, <1>7 DEF Elapse
  <2> HIDE DEF d, e
  <2>2. SameVotes(d, e)
    BY <1>0, <2>1, SMTT(30) DEF AuditVerdict, SameVotes
  <2> QED
    BY <2>1, <2>2 DEF d, e
<1>8. CASE Coordinate \/ (\E settings \in Settings : SetChallengeConfig(settings))
            \/ (\E c \in Slashable : Slash(c)) \/ UNCHANGED dvars
  BY <1>1, <1>8 DEF Coordinate, SetChallengeConfig, Slash, dvars
<1> HIDE DEF d, e
<1> QED
  BY <1>2, <1>3, <1>4, <1>5, <1>6, <1>7, <1>8 DEF DisputesNext, d, e

(* A vote in an account d that was opened in the current round: the draws  *)
(* of the dispute, if they may be compared, are the current one.           *)
LEMMA VotedJury ==
    ASSUME WellTyped(view), run \in RunSettings, NEW c \in Client, NEW t, may_vote(c, t),
           NEW d \in AuditVerdict, d.epoch = view.epoch, d.round_height = view.height,
           d.status = "Voting",
           NEW D \in SUBSET Draw, JuryInv(d, D),
           \A e \in D : Noted(d.epoch, d.round_height, e, view),
           NEW f, f.voters = Append(d.voters, c), f.epoch = d.epoch,
           f.round_height = d.round_height,
           f.status # "Voting" =>
              Len(d.voters) + 1 >= VerdictQuorum(view, run.tie_breaker_committee_size)
    PROVE  /\ JuryInv(f, D \cup {CurrentDraw})
           /\ \A e \in D \cup {CurrentDraw} : Noted(f.epoch, f.round_height, e, view)
<1> DEFINE size == run.tie_breaker_committee_size
           now == CurrentDraw
           two_thirds == TwoThirds(VerifierNodes(view.config, size, view.clients_len))
<1>1. now.training => view.phase = "training" /\ now = DrawOf(view, now.size)
  BY Zenon DEF CurrentDraw, DrawOf
<1>2. now.two_thirds = two_thirds /\ now.size = size
  BY DEF CurrentDraw
<1>3. c \in now.jury
  BY Zenon DEF CurrentDraw, may_vote, Seated
<1>4. /\ VerdictQuorum(view, size) \in Nat /\ two_thirds \in Nat
  BY QuorumAtLeastTwo
<1>5. VerdictQuorum(view, size) >= two_thirds
  <2> HIDE DEF two_thirds
  <2>1. VerdictQuorum(view, size) = AtLeast(two_thirds, 2)
    BY ZenonT(30) DEF VerdictQuorum, two_thirds
  <2> QED
    BY <1>4, <2>1 DEF AtLeast
<1>6. /\ d.voters \in Seq(Client) /\ view.epoch \in Nat /\ view.height \in Nat
  BY Zenon DEF AuditVerdict, WellTyped, View
<1>7. Len(f.voters) = Len(d.voters) + 1 /\ Range(f.voters) = Range(d.voters) \cup {c}
  <2>1. Len(Append(d.voters, c)) = Len(d.voters) + 1
    BY <1>6
  <2>2. Range(Append(d.voters, c)) = Range(d.voters) \cup {c}
    BY <1>6, SMTT(30) DEF Range
  <2> QED
    BY <2>1, <2>2
<1> HIDE DEF now, two_thirds, size
<1>8. Noted(f.epoch, f.round_height, now, view)
  BY <1>1, <1>6 DEF Noted
<1>9. \A e \in D \cup {now} : Noted(f.epoch, f.round_height, e, view)
  BY <1>8
<1>10. ASSUME Uniform(D \cup {now}), NEW e \in D
       PROVE  e = now
  <2>1. e.training /\ e.stands /\ now.training /\ e.size = now.size
    BY <1>10 DEF Uniform
  <2>2. e = DrawOf(view, e.size)
    BY <1>1, <1>6, <2>1 DEF Noted
  <2> QED
    BY <1>1, <2>1, <2>2
<1>11. ASSUME Uniform(D \cup {now})
       PROVE  Range(d.voters) \subseteq now.jury
  <2>1. CASE D = {}
    <3>1. d.voters = <<>>
      BY <2>1 DEF JuryInv
    <3> QED
      BY <3>1 DEF Range
  <2>2. CASE D # {}
    <3>1. PICK e \in D : TRUE
      BY <2>2
    <3>2. Uniform(D)
      BY <1>11 DEF Uniform
    <3>3. Range(d.voters) \subseteq e.jury
      BY <3>2 DEF JuryInv
    <3> QED
      BY <1>10, <1>11, <3>3
  <2> QED
    BY <2>1, <2>2
<1>12. f.status # "Voting" => Len(f.voters) >= now.two_thirds
  <2>1. Len(d.voters) \in Nat
    BY <1>6
  <2> QED
    BY <1>2, <1>4, <1>5, <1>7, <2>1 DEF size
<1>13. Uniform(D \cup {now}) => \A e \in D \cup {now} :
          /\ Range(f.voters) \subseteq e.jury
          /\ f.status # "Voting" => Len(f.voters) >= e.two_thirds
  BY <1>3, <1>7, <1>10, <1>11, <1>12
<1>14. JuryInv(f, D \cup {now})
  BY <1>13 DEF JuryInv
<1> QED
  BY <1>9, <1>14 DEF now

(* A vote against t. *)
LEMMA VoteDraws ==
    ASSUME DisputesInv, DrawInv, NEW t \in Targets, NEW c \in Client, NEW claim \in Claims,
           SubmitAuditVerdict(c, t, claim)
    PROVE  /\ JuryInv(verdict'[t], draws'[t])
           /\ \A e \in draws'[t] :
                 Noted(verdict'[t].epoch, verdict'[t].round_height, e, view)
<1> DEFINE new == Opens(verdict[t])
           d == IF new THEN EmptyVerdict(FALSE, view.epoch, view.height) ELSE verdict[t]
           D == IF new THEN {} ELSE draws[t]
           evidence == <<Index(view.clients, t), claim>>
           quorum == VerdictQuorum(view, run.tie_breaker_committee_size)
           status == IF Len(d.voters) + 1 < quorum THEN "Voting"
                     ELSE IF run.challenge_window_seconds > 0 THEN "SlashPending"
                     ELSE "Upheld"
           f == Voted(d, c, evidence, status)
<1>1. /\ WellTyped(view) /\ run \in RunSettings /\ verdict \in [Targets -> AuditVerdict]
      /\ draws \in [Targets -> SUBSET Draw] /\ view.epoch \in Nat /\ view.height \in Nat
  BY Zenon DEF DisputesInv, RosterTypeOK, WellTyped, View
<1>2. /\ may_vote(c, t) /\ d.status = "Voting"
      /\ verdict' = [verdict EXCEPT ![t] = f]
      /\ draws' = [draws EXCEPT ![t] = D \cup {CurrentDraw}]
  BY Zenon DEF SubmitAuditVerdict
<1>3. verdict'[t] = f /\ draws'[t] = D \cup {CurrentDraw}
  <2> HIDE DEF f, D
  <2> QED
    BY <1>1, <1>2
<1>4. /\ d \in AuditVerdict /\ D \in SUBSET Draw /\ d.epoch = view.epoch
      /\ d.round_height = view.height /\ JuryInv(d, D)
      /\ \A e \in D : Noted(d.epoch, d.round_height, e, view)
  <2>1. CASE new
    <3> DEFINE o == EmptyVerdict(FALSE, view.epoch, view.height)
    <3>1. AccountInv(o) /\ o.voters = <<>> /\ o.status = "Voting"
      BY <1>1, EmptyAccount, Zenon
    <3>2. o.epoch = view.epoch /\ o.round_height = view.height
      BY DEF EmptyVerdict
    <3>3. d = o /\ D = {}
      BY <2>1
    <3> HIDE DEF o, d, D
    <3> QED
      BY <3>1, <3>2, <3>3, Zenon DEF AccountInv, JuryInv
  <2>2. CASE ~new
    <3>1. d = verdict[t] /\ D = draws[t]
      BY <2>2
    <3>2. d.epoch = view.epoch /\ d.round_height = view.height
      BY <2>2 DEF Opens, SameRound
    <3> HIDE DEF d, D
    <3> QED
      BY <1>1, <3>1, <3>2 DEF DrawInv
  <2> QED
    BY <2>1, <2>2, ZenonT(30)
<1>5. quorum \in Nat
  BY <1>1, <1>2, QuorumAtLeastTwo
<1>6. status # "Voting" => Len(d.voters) + 1 >= quorum
  <2>1. Len(d.voters) \in Nat
    <3> HIDE DEF d
    <3> QED
      BY <1>4 DEF AuditVerdict
  <2> HIDE DEF d, quorum
  <2> QED
    BY <1>5, <2>1
<1> HIDE DEF d, D, evidence, status
<1>7. /\ f.voters = Append(d.voters, c) /\ f.epoch = d.epoch
      /\ f.round_height = d.round_height /\ f.status = status
  BY <1>4 DEF Voted, AuditVerdict
<1> HIDE DEF f
<1> QED
  BY <1>1, <1>2, <1>3, <1>4, <1>6, <1>7, VotedJury, ZenonT(30)

(* Only the authority, among the coordinator's moves, sets the epoch back; *)
(* every draw noted so far is then marked.                                 *)
LEMMA SetBackDraws ==
    ASSUME DisputesInv, DrawInv, [DisputesNext]_dvars, view'.epoch < view.epoch
    PROVE  DrawInv'
<1>1. WellTyped(view) /\ view.epoch \in Nat /\ draws \in [Targets -> SUBSET Draw]
  BY DEF DisputesInv, RosterTypeOK, WellTyped, View
<1>2. ~UNCHANGED view
  BY <1>1
<1>3. ASSUME NEW c, Eject(c)
      PROVE  FALSE
  <2>1. view'.epoch = view.epoch
    BY <1>1, <1>3, MarkFollows DEF Eject
  <2> QED
    BY <1>1, <2>1
<1>4. Coordinate
  BY <1>2, <1>3, StepEjects
<1>5. /\ verdict' = verdict
      /\ draws' = [t \in Targets |-> {[d EXCEPT !.stands = FALSE] : d \in draws[t]}]
  BY <1>4 DEF Coordinate
<1>6. ASSUME NEW t \in Targets, NEW e \in draws'[t]
      PROVE  e.stands = FALSE
  <2>1. PICK d \in draws[t] : e = [d EXCEPT !.stands = FALSE]
    BY <1>5, <1>6
  <2>2. d \in Draw
    BY <1>1
  <2> QED
    BY <2>1, <2>2 DEF Draw
<1>7. ASSUME NEW t \in Targets, draws'[t] = {}
      PROVE  draws[t] = {}
  BY <1>5, <1>7
<1>8. ASSUME NEW t \in Targets
      PROVE  JuryInv(verdict'[t], draws'[t])
  <2>1. Uniform(draws'[t]) => draws'[t] = {}
    BY <1>6 DEF Uniform
  <2>2. draws'[t] = {} => verdict[t].voters = <<>> /\ verdict[t].status = "Voting"
    BY <1>7 DEF DrawInv, JuryInv
  <2> QED
    BY <1>5, <2>1, <2>2 DEF JuryInv
<1>9. ASSUME NEW t \in Targets, NEW e \in draws'[t]
      PROVE  Noted(verdict'[t].epoch, verdict'[t].round_height, e, view')
  BY <1>6, <1>9 DEF Noted
<1> QED
  BY <1>8, <1>9 DEF DrawInv

(* Every other step keeps the draws right. *)
LEMMA StepDraws ==
    ASSUME DisputesInv, DisputesInv', DrawInv, [DisputesNext]_dvars,
           ~(view'.epoch < view.epoch)
    PROVE  DrawInv'
<1>1. view \in View /\ view' \in View /\ view.epoch <= view'.epoch
  <2>1. view \in View /\ view' \in View
    BY DEF DisputesInv, RosterTypeOK
  <2>2. view.epoch \in Nat /\ view'.epoch \in Nat
    BY <2>1 DEF View
  <2> QED
    BY <2>1, <2>2
<1>2. Follows(view, view')
  BY StepFollows
<1>3. ASSUME NEW t \in Targets
      PROVE  /\ JuryInv(verdict'[t], draws'[t])
             /\ \A e \in draws'[t] :
                   Noted(verdict'[t].epoch, verdict'[t].round_height, e, view)
  <2>1. CASE \E c \in Client, claim \in Claims : SubmitAuditVerdict(c, t, claim)
    BY <2>1, VoteDraws
  <2>2. CASE ~ \E c \in Client, claim \in Claims : SubmitAuditVerdict(c, t, claim)
    <3>1. SameVotes(verdict[t], verdict'[t]) /\ draws'[t] = draws[t]
      BY <2>2, VotesStay
    <3>2. /\ JuryInv(verdict[t], draws[t])
          /\ \A e \in draws[t] : Noted(verdict[t].epoch, verdict[t].round_height, e, view)
      BY DEF DrawInv
    <3>3. JuryInv(verdict'[t], draws[t])
      BY <3>1, <3>2 DEF JuryInv, SameVotes
    <3> QED
      BY <3>1, <3>2, <3>3 DEF SameVotes
  <2> QED
    BY <2>1, <2>2
<1>4. ASSUME NEW t \in Targets, NEW e \in draws'[t]
      PROVE  Noted(verdict'[t].epoch, verdict'[t].round_height, e, view')
  <2>1. verdict'[t].epoch \in Nat /\ verdict'[t].round_height \in Nat
    BY SMTT(30) DEF DisputesInv, AuditVerdict
  <2> QED
    BY <1>1, <1>2, <1>3, <2>1, NotedLater
<1> QED
  BY <1>3, <1>4 DEF DrawInv

(* The draws noted for a dispute are past ones or the current one, and its *)
(* voters sit in each of them as far as they can be compared, whatever     *)
(* epoch the authority installs (run_submit_audit_verdict, run_update).    *)
THEOREM DrawInvariance == DisputesSpec => []DrawInv
<1>1. DisputesInit => DrawInv
  <2>1. FreshVerdict.voters = <<>> /\ FreshVerdict.status = "Voting"
    BY DEF FreshVerdict, EmptyVerdict
  <2> QED
    BY <2>1 DEF DisputesInit, DrawInv, JuryInv
<1>2. DisputesInv /\ DisputesInv' /\ DrawInv /\ [DisputesNext]_dvars => DrawInv'
  BY StepDraws, SetBackDraws
<1> QED
  BY <1>1, <1>2, DisputesInvariant, PTL DEF DisputesSpec

(* A conviction whose votes were all cast while a round trained, with one  *)
(* bench size and no epoch set back in between, is the verdict of two      *)
(* thirds of one committee (run_submit_audit_verdict).                     *)
THEOREM OneCommittee == DisputesSpec => []TrainingVerdictsAreOneCommittees
<1>1. DrawInv => TrainingVerdictsAreOneCommittees
  <2> SUFFICES ASSUME DrawInv, NEW t \in Targets, verdict[t].status # "Voting",
                      \A d, e \in draws[t] : d.training /\ d.stands /\ d.size = e.size
               PROVE  \E d \in draws[t] : ConvictedBy(t, d)
    BY DEF TrainingVerdictsAreOneCommittees
  <2>1. JuryInv(verdict[t], draws[t]) /\ Uniform(draws[t])
    BY DEF DrawInv, Uniform
  <2>2. PICK d \in draws[t] : TRUE
    BY <2>1 DEF JuryInv
  <2> QED
    BY <2>1, <2>2 DEF JuryInv, ConvictedBy
<1> QED
  BY <1>1, DrawInvariance, PTL
=============================================================================
