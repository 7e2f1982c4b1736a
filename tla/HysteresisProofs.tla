-------------------------- MODULE HysteresisProofs --------------------------
(***************************************************************************)
(* Facts about the hysteresis state machine, for every domain state,       *)
(* proposal, policy and tick, that the proofs about its users need.        *)
(***************************************************************************)
EXTENDS Hysteresis, TLAPS

-----------------------------------------------------------------------------
(* Severities and goals *)

\* A severity is the severity of the state it stands for.
LEMMA StateOfSeverity ==
  ASSUME NEW v \in Severity
  PROVE  /\ StateOf(v) \in AuthoritativeStates /\ StateOf(v) # "Recovering"
         /\ SeverityOf(StateOf(v)) = v
         /\ StateOf(v) = "Clear" <=> v = Clear
<1>1. v = 0 \/ v = 1 \/ v = 2 \/ v = 3
  BY DEF Severity, Clear, Severe
<1>2. CASE v = 0
  <2>1. StateOf(v) = "Clear"
    BY <1>2 DEF StateOf
  <2> QED BY <1>2, <2>1 DEF SeverityOf, AuthoritativeStates, Clear
<1>3. CASE v = 1
  <2>1. StateOf(v) = "Watch"
    BY <1>3 DEF StateOf
  <2> QED BY <1>3, <2>1 DEF SeverityOf, AuthoritativeStates, Clear, Watch
<1>4. CASE v = 2
  <2>1. StateOf(v) = "Congested"
    BY <1>4 DEF StateOf
  <2> QED BY <1>4, <2>1 DEF SeverityOf, AuthoritativeStates, Clear, Congested
<1>5. CASE v = 3
  <2>1. StateOf(v) = "Severe"
    BY <1>5 DEF StateOf
  <2> QED BY <1>5, <2>1 DEF SeverityOf, AuthoritativeStates, Clear, Severe
<1> QED BY <1>1, <1>2, <1>3, <1>4, <1>5

LEMMA SeverityOfType ==
  ASSUME NEW s
  PROVE  SeverityOf(s) \in Severity
BY DEF SeverityOf, Severity, Clear, Watch, Congested, Severe

\* A number of samples that the streak can reach.
LEMMA RecoverySamplesType ==
  ASSUME NEW q \in Policy
  PROVE  RecoverySamples(q) \in 1..MaxSamples
BY SamplesAssumption DEF RecoverySamples, Policy

\* A proposal with a value is one of two severities, the second no lower.
LEMMA ValueProposal ==
  ASSUME NEW p \in Proposal, p.value
  PROVE  p.up \in Severity /\ p.down \in Severity /\ p.up <= p.down
BY DEF Proposal

\* What HysteresisEngine::step counts samples for: a state with authority, out
\* of reach of no streak; one below Congested only for evidence below Congested;
\* Recovering with the samples a recovery takes; and never Clear for a domain
\* that was Congested when it last had authority, if recovery is on.
LEMMA GoalFacts ==
  ASSUME NEW d \in DomainState, NEW p \in Proposal, p.value, NEW q \in Policy
  PROVE  LET g == GoalOf(d, p, q)
         IN  /\ g.target \in AuthoritativeStates /\ g.required \in 1..MaxSamples
             /\ SeverityOf(g.target) < Congested => p.up < Congested
             /\ g.target = "Recovering" => g.required = RecoverySamples(q)
             /\ g.target = "Clear" /\ q.recovery /\ ~IsAuthoritative(d.state)
                  => d.severity < Congested
             /\ g.target = "Clear" /\ q.recovery /\ IsAuthoritative(d.state)
                  => SeverityOf(d.state) < Congested
<1> DEFINE g == GoalOf(d, p, q)
<1>1. p.up \in Severity /\ p.down \in Severity /\ p.up <= p.down
  BY ValueProposal
<1>2. /\ SeverityOf(d.state) \in Severity /\ d.severity \in Severity
      /\ \A v \in Severity : v \in Int /\ v >= Clear
      /\ p.up \in Int /\ p.down \in Int /\ d.severity \in Int /\ SeverityOf(d.state) \in Int
  BY <1>1, SeverityOfType DEF DomainState, Severity, Clear, Severe
<1>3. /\ q.escalate \in 1..MaxSamples /\ q.deescalate \in 1..MaxSamples
      /\ q.clear \in 1..MaxSamples /\ 1 \in 1..MaxSamples
      /\ RecoverySamples(q) \in 1..MaxSamples
  BY RecoverySamplesType, SamplesAssumption DEF Policy
<1>4. /\ "Recovering" \in AuthoritativeStates /\ "Clear" \in AuthoritativeStates
      /\ SeverityOf("Recovering") = Watch /\ SeverityOf("Clear") = Clear
      /\ Clear = 0 /\ Watch = 1 /\ Congested = 2
  BY DEF AuthoritativeStates, SeverityOf, Clear, Watch, Congested
<1>5. CASE ~IsAuthoritative(d.state)
  <2>1. g = GoalFromRefusal(d, p, q)
    BY <1>5 DEF GoalOf
  <2>2. CASE p.up >= Congested
    <3>1. g = Goal(StateOf(p.up), q.escalate, TRUE)
      BY <1>2, <2>1, <2>2 DEF GoalFromRefusal, Congested, Goal
    <3> QED BY <1>1, <1>2, <1>3, <1>4, <1>5, <2>2, <3>1, StateOfSeverity DEF Goal
  <2>3. CASE p.up < Congested /\ q.recovery /\ d.severity >= Congested
    <3>1. g = Goal("Recovering", RecoverySamples(q), FALSE)
      BY <1>2, <2>1, <2>3 DEF GoalFromRefusal, Congested, Goal
    <3> QED BY <1>1, <1>3, <1>4, <2>3, <3>1 DEF Goal
  <2>4. CASE p.up < Congested /\ ~(q.recovery /\ d.severity >= Congested)
    <3>1. g = Goal(StateOf(p.up), 1, FALSE)
      BY <1>2, <2>1, <2>4 DEF GoalFromRefusal, Congested, Goal
    <3> QED BY <1>1, <1>2, <1>3, <1>4, <1>5, <2>4, <3>1, StateOfSeverity DEF Goal
  <2> QED BY <1>1, <1>2, <1>4, <2>2, <2>3, <2>4
<1>6. CASE IsAuthoritative(d.state) /\ p.up > SeverityOf(d.state)
  <2>1. g = Goal(StateOf(p.up), q.escalate, TRUE)
    BY <1>6 DEF GoalOf
  <2> QED BY <1>1, <1>2, <1>3, <1>4, <1>6, <2>1, StateOfSeverity DEF Goal
<1>7. CASE IsAuthoritative(d.state) /\ ~(p.up > SeverityOf(d.state))
  <2>1. g = GoalDown(d, p, q)
    BY <1>7 DEF GoalOf
  <2>2. CASE d.state = "Recovering" /\ p.down = Clear
    <3>1. g = Goal("Clear", q.clear, FALSE)
      BY <2>1, <2>2 DEF GoalDown
    <3> QED BY <1>1, <1>2, <1>3, <1>4, <1>7, <2>2, <3>1 DEF Goal
  <2>3. CASE /\ d.state # "Recovering" /\ q.recovery /\ p.down = Clear
             /\ SeverityOf(d.state) >= Congested
    <3>1. g = Goal("Recovering", RecoverySamples(q), FALSE)
      BY <2>1, <2>3 DEF GoalDown
    <3> QED BY <1>1, <1>2, <1>3, <1>4, <2>3, <3>1 DEF Goal
  <2>4. CASE /\ ~(d.state = "Recovering" /\ p.down = Clear)
             /\ ~(/\ d.state # "Recovering" /\ q.recovery /\ p.down = Clear
                  /\ SeverityOf(d.state) >= Congested)
    <3>1. g = Goal(StateOf(p.down), q.deescalate, FALSE)
      BY <2>1, <2>4 DEF GoalDown
    <3> QED BY <1>1, <1>2, <1>3, <1>4, <1>7, <2>4, <3>1, StateOfSeverity DEF Goal
  <2> QED BY <2>2, <2>3, <2>4
<1> QED BY <1>5, <1>6, <1>7

-----------------------------------------------------------------------------
(* Type correctness of every operation on a domain state *)

LEMMA SamplesRange ==
  /\ MaxSamples \in Nat /\ MaxSamples >= 2
  /\ 0 \in 0..MaxSamples /\ 1 \in 0..MaxSamples
BY SamplesAssumption

LEMMA RefuseType ==
  ASSUME NEW d \in DomainState, NEW why \in {"Conflict", "Unknown"}, NEW now \in Nat
  PROVE  /\ Refuse(d, why, now) \in DomainState
         /\ ~IsAuthoritative(Refuse(d, why, now).state)
<1>1. PICK target \in IndeterminateStates, n \in Nat :
        Refuse(d, why, now) = [d EXCEPT !.state = target, !.candidate = "Unknown",
                                        !.streak = 0, !.lastChange = n]
  BY DEF Refuse, DomainState, IndeterminateStates
<1>2. target \in CongestionState /\ "Unknown" \in CongestionState /\ ~IsAuthoritative(target)
  BY DEF CongestionState, IndeterminateStates, AuthoritativeStates, IsAuthoritative
<1> QED BY <1>1, <1>2, SamplesRange DEF DomainState

LEMMA StaySteadyType ==
  ASSUME NEW d \in DomainState, NEW now \in Nat
  PROVE  StaySteady(d, now) \in DomainState
BY SamplesRange, SeverityOfType DEF StaySteady, DomainState

LEMMA CountedType ==
  ASSUME NEW d \in DomainState, NEW target \in CongestionState
  PROVE  Counted(d, target) \in DomainState
<1> DEFINE n == IF d.candidate # target \/ d.streak = 0 THEN 1
                ELSE IF d.streak < MaxSamples THEN d.streak + 1 ELSE d.streak
<1>1. d.streak \in 0..MaxSamples
  BY DEF DomainState
<1>2. n \in 0..MaxSamples
  BY <1>1, SamplesRange
<1>3. Counted(d, target) = [d EXCEPT !.candidate = target, !.streak = n]
  BY DEF Counted, DomainState
<1> HIDE DEF n
<1> QED BY <1>2, <1>3 DEF DomainState

LEMMA CommitType ==
  ASSUME NEW d \in DomainState, NEW target \in CongestionState, NEW now \in Nat
  PROVE  Commit(d, target, now) \in DomainState
<1>1. "Unknown" \in CongestionState
  BY DEF CongestionState, IndeterminateStates
<1> QED BY <1>1, SamplesRange, SeverityOfType DEF Commit, DomainState

\* Without a value a proposal says why.
LEMMA RefusingProposal ==
  ASSUME NEW p \in Proposal
  PROVE  p.value \in BOOLEAN /\ (~p.value => p.why \in {"Conflict", "Unknown"})
BY DEF Proposal

\* HysteresisEngine::step refuses the tick, refuses to decide, stays, counts the
\* sample towards a goal, or commits to a goal whose samples are complete.
LEMMA StepCases ==
  ASSUME NEW d \in DomainState, NEW p \in Proposal, NEW q \in Policy, NEW now \in Nat
  PROVE  LET t == GoalOf(d, p, q).target
             c == Counted(d, t)
         IN  \/ Regressed(d, now) /\ Step(d, p, q, now) = d
             \/ /\ ~Regressed(d, now) /\ ~p.value
                /\ Step(d, p, q, now) = Refuse(d, p.why, now)
             \/ /\ ~Regressed(d, now) /\ p.value /\ Steady(d, p)
                /\ Step(d, p, q, now) = StaySteady(d, now)
             \/ ~Regressed(d, now) /\ p.value /\ Step(d, p, q, now) = c
             \/ /\ ~Regressed(d, now) /\ p.value /\ ~(c.streak < GoalOf(d, p, q).required)
                /\ Step(d, p, q, now) = Commit(c, t, now)
<1> DEFINE t == GoalOf(d, p, q).target
           c == Counted(d, t)
<1>1. CASE Regressed(d, now)
  BY <1>1 DEF Step
<1>2. CASE ~Regressed(d, now) /\ ~p.value
  BY <1>2 DEF Step
<1>3. CASE ~Regressed(d, now) /\ p.value /\ Steady(d, p)
  BY <1>3 DEF Step
<1>4. CASE ~Regressed(d, now) /\ p.value /\ ~Steady(d, p)
  <2>1. Step(d, p, q, now) = Climb(d, p, q, now)
    BY <1>4 DEF Step
  <2>2. \/ Climb(d, p, q, now) = c
        \/ /\ ~(c.streak < GoalOf(d, p, q).required)
           /\ Climb(d, p, q, now) = Commit(c, t, now)
    BY DEF Climb
  <2> QED BY <1>4, <2>1, <2>2
<1>5. p.value \in BOOLEAN
  BY RefusingProposal
<1> QED BY <1>1, <1>2, <1>3, <1>4, <1>5

LEMMA StepType ==
  ASSUME NEW d \in DomainState, NEW p \in Proposal, NEW q \in Policy, NEW now \in Nat
  PROVE  Step(d, p, q, now) \in DomainState
<1> DEFINE t == GoalOf(d, p, q).target
<1>1. p.value \in BOOLEAN /\ (~p.value => p.why \in {"Conflict", "Unknown"})
  BY RefusingProposal
<1>2. CASE ~p.value
  BY <1>1, <1>2, StepCases, RefuseType
<1>3. CASE p.value
  <2>1. t \in CongestionState
    BY <1>3, GoalFacts DEF CongestionState
  <2>2. Counted(d, t) \in DomainState
    BY <2>1, CountedType
  <2>3. Commit(Counted(d, t), t, now) \in DomainState
    BY <2>1, <2>2, CommitType
  <2>4. StaySteady(d, now) \in DomainState
    BY StaySteadyType
  <2>5. \/ Step(d, p, q, now) = d
        \/ Step(d, p, q, now) = StaySteady(d, now)
        \/ Step(d, p, q, now) = Counted(d, t)
        \/ Step(d, p, q, now) = Commit(Counted(d, t), t, now)
    BY <1>1, <1>3, StepCases
  <2> QED BY <2>2, <2>3, <2>4, <2>5
<1> QED BY <1>1, <1>2, <1>3

LEMMA EvaluatedType ==
  ASSUME NEW d \in DomainState, NEW p \in Proposal, NEW q \in Policy, NEW now \in Nat
  PROVE  /\ Evaluated(d, p, q, now) \in DomainState
         /\ Evaluated(d, p, q, now).lastEval = now
<1>1. Step(d, p, q, now) \in DomainState
  BY StepType
<1> QED BY <1>1 DEF Evaluated, DomainState

\* The streak grows by one, if the sample is for the same target, and saturates.
LEMMA CountedStreak ==
  ASSUME NEW d \in DomainState, NEW target
  PROVE  LET n == Counted(d, target).streak
         IN  \/ n = 1
             \/ d.candidate = target /\ n = d.streak + 1 /\ n <= MaxSamples
             \/ d.candidate = target /\ n = d.streak /\ n = MaxSamples
<1>1. d.streak \in 0..MaxSamples
  BY DEF DomainState
<1>2. Counted(d, target).streak = IF d.candidate # target \/ d.streak = 0 THEN 1
                                  ELSE IF d.streak < MaxSamples THEN d.streak + 1 ELSE d.streak
  BY DEF Counted, DomainState
<1> QED BY <1>1, <1>2, SamplesRange

\* What CongestionEvaluator::evaluate does to the fields of the domain, case by
\* case.
LEMMA EvaluatedFields ==
  ASSUME NEW d \in DomainState, NEW p \in Proposal, NEW q \in Policy, NEW now \in Nat
  PROVE  LET e == Evaluated(d, p, q, now)
             t == GoalOf(d, p, q).target
             n == Counted(d, t).streak
         IN  \/ /\ Regressed(d, now)
                /\ e.state = d.state /\ e.candidate = d.candidate /\ e.streak = d.streak
                /\ e.severity = d.severity /\ e.flag = d.flag
             \/ /\ ~Regressed(d, now) /\ ~p.value
                /\ ~IsAuthoritative(e.state) /\ e.candidate = "Unknown"
                /\ e.severity = d.severity
             \/ /\ ~Regressed(d, now) /\ p.value /\ IsAuthoritative(d.state)
                /\ e.state = d.state /\ e.streak = 0 /\ e.severity = SeverityOf(d.state)
             \/ /\ ~Regressed(d, now) /\ p.value
                /\ e.state = d.state /\ e.severity = d.severity
                /\ e.candidate = t /\ e.streak = n
             \/ /\ ~Regressed(d, now) /\ p.value /\ ~(n < GoalOf(d, p, q).required)
                /\ e.state = t /\ e.severity = SeverityOf(t) /\ e.candidate = "Unknown"
<1> DEFINE s == Step(d, p, q, now)
           e == Evaluated(d, p, q, now)
           t == GoalOf(d, p, q).target
           c == Counted(d, t)
<1>1. s \in DomainState
  BY StepType
<1>2. /\ e.state = s.state /\ e.candidate = s.candidate /\ e.streak = s.streak
      /\ e.severity = s.severity /\ e.flag = s.flag
  BY <1>1 DEF Evaluated, DomainState
<1>3. CASE Regressed(d, now) /\ s = d
  BY <1>2, <1>3
<1>4. CASE ~Regressed(d, now) /\ ~p.value /\ s = Refuse(d, p.why, now)
  <2>1. p.why \in {"Conflict", "Unknown"}
    BY <1>4, RefusingProposal
  <2>2. ~IsAuthoritative(s.state)
    BY <1>4, <2>1, RefuseType
  <2>3. s.candidate = "Unknown" /\ s.severity = d.severity
    BY <1>4 DEF Refuse, DomainState
  <2> QED BY <1>2, <1>4, <2>2, <2>3
<1>5. CASE ~Regressed(d, now) /\ p.value /\ Steady(d, p) /\ s = StaySteady(d, now)
  <2>1. s.state = d.state /\ s.streak = 0 /\ s.severity = SeverityOf(d.state)
    BY <1>5 DEF StaySteady, DomainState
  <2>2. IsAuthoritative(d.state)
    BY <1>5 DEF Steady
  <2> QED BY <1>2, <1>5, <2>1, <2>2
<1>6. CASE ~Regressed(d, now) /\ p.value /\ s = c
  <2>1. c.state = d.state /\ c.severity = d.severity /\ c.candidate = t
    BY DEF Counted, DomainState
  <2> QED BY <1>2, <1>6, <2>1
<1>7. CASE /\ ~Regressed(d, now) /\ p.value /\ ~(c.streak < GoalOf(d, p, q).required)
           /\ s = Commit(c, t, now)
  <2>1. t \in CongestionState
    BY <1>7, GoalFacts DEF CongestionState
  <2>2. c \in DomainState
    BY <2>1, CountedType
  <2>3. s.state = t /\ s.severity = SeverityOf(t) /\ s.candidate = "Unknown"
    <3> HIDE DEF c, t
    <3> QED BY <1>7, <2>2 DEF Commit, DomainState
  <2> QED BY <1>2, <1>7, <2>3
<1>8. \/ Regressed(d, now) /\ s = d
      \/ ~Regressed(d, now) /\ ~p.value /\ s = Refuse(d, p.why, now)
      \/ ~Regressed(d, now) /\ p.value /\ Steady(d, p) /\ s = StaySteady(d, now)
      \/ ~Regressed(d, now) /\ p.value /\ s = c
      \/ /\ ~Regressed(d, now) /\ p.value /\ ~(c.streak < GoalOf(d, p, q).required)
         /\ s = Commit(c, t, now)
  BY StepCases
<1> QED BY <1>3, <1>4, <1>5, <1>6, <1>7, <1>8

\* CongestionEvaluator::evaluate moves a domain to a state with authority only
\* when the proposal has a value and the domain is not already where it points.
LEMMA EvaluatedMoves ==
  ASSUME NEW d \in DomainState, NEW p \in Proposal, NEW q \in Policy, NEW now \in Nat,
         ~Regressed(d, now),
         Evaluated(d, p, q, now).state # d.state,
         IsAuthoritative(Evaluated(d, p, q, now).state)
  PROVE  p.value /\ ~Steady(d, p) /\ Evaluated(d, p, q, now).state = GoalOf(d, p, q).target
<1> DEFINE s == Step(d, p, q, now)
           t == GoalOf(d, p, q).target
           c == Counted(d, t)
<1>1. s \in DomainState
  BY StepType
<1>2. Evaluated(d, p, q, now).state = s.state
  BY <1>1 DEF Evaluated, DomainState
<1>3. p.value
  <2>1. SUFFICES ASSUME ~p.value PROVE FALSE
    BY RefusingProposal
  <2>2. s = Refuse(d, p.why, now) /\ p.why \in {"Conflict", "Unknown"}
    BY <2>1, RefusingProposal DEF Step
  <2>3. ~IsAuthoritative(s.state)
    BY <2>2, RefuseType
  <2> QED BY <1>2, <2>3
<1>4. ~Steady(d, p)
  <2>1. SUFFICES ASSUME Steady(d, p) PROVE FALSE
    OBVIOUS
  <2>2. s = StaySteady(d, now)
    BY <1>3, <2>1 DEF Step
  <2>3. s.state = d.state
    BY <2>2 DEF StaySteady, DomainState
  <2> QED BY <1>2, <2>3
<1>5. s = Climb(d, p, q, now)
  BY <1>3, <1>4 DEF Step
<1>6. s = c \/ s = Commit(c, t, now)
  BY <1>5 DEF Climb
<1>7. t \in CongestionState
  BY <1>3, GoalFacts DEF CongestionState
<1>8. c \in DomainState
  BY <1>7, CountedType
<1>9. c.state = d.state
  BY DEF Counted, DomainState
<1>10. s.state = t
  <2>1. s = Commit(c, t, now)
    BY <1>2, <1>6, <1>9
  <2> HIDE DEF s, c, t
  <2> QED BY <1>8, <2>1 DEF Commit, DomainState
<1> QED BY <1>2, <1>3, <1>4, <1>10

\* What the proposal must say for a move: a rise to Congested or Severe goes to
\* the severity it names, a fall goes no lower than its downgrade severity, and
\* Clear takes a proposal that is Clear.
LEMMA EvaluatedJustified ==
  ASSUME NEW d \in DomainState, NEW p \in Proposal, NEW q \in Policy, NEW now \in Nat,
         ~Regressed(d, now)
  PROVE  LET s == Evaluated(d, p, q, now).state
         IN  /\ s \in {"Congested", "Severe"} /\ SeverityOf(s) > SeverityOf(d.state)
                  => p.value /\ p.up = SeverityOf(s)
             /\ IsAuthoritative(d.state) /\ IsAuthoritative(s) /\ SeverityOf(s) < SeverityOf(d.state)
                  => p.value /\ p.down <= SeverityOf(s)
             /\ d.state # "Clear" /\ s = "Clear" => p.value /\ p.up = Clear
<1> DEFINE s == Evaluated(d, p, q, now).state
           t == GoalOf(d, p, q).target
           n == SeverityOf(d.state)
           rises == s \in {"Congested", "Severe"} /\ SeverityOf(s) > n
                      => p.value /\ p.up = SeverityOf(s)
           falls == IsAuthoritative(d.state) /\ IsAuthoritative(s) /\ SeverityOf(s) < n
                      => p.value /\ p.down <= SeverityOf(s)
           clears == d.state # "Clear" /\ s = "Clear" => p.value /\ p.up = Clear
<1> SUFFICES rises /\ falls /\ clears
  OBVIOUS
<1> HIDE DEF s, t, n
<1>1. CASE s = d.state
  <2>1. SeverityOf(s) = n
    BY <1>1 DEF n
  <2>2. n \in Severity
    BY SeverityOfType DEF n
  <2>3. ~(n > n) /\ ~(n < n)
    BY <2>2 DEF Severity, Clear, Severe
  <2> QED BY <1>1, <2>1, <2>3
<1>2. CASE ~IsAuthoritative(s)
  <2>1. s \notin {"Congested", "Severe", "Clear"}
    BY <1>2 DEF IsAuthoritative, AuthoritativeStates
  <2> QED BY <1>2, <2>1
<1>3. CASE s # d.state /\ IsAuthoritative(s)
  <2>1. p.value /\ ~Steady(d, p) /\ s = t
    BY <1>3, EvaluatedMoves DEF s, t
  <2>2. p.up \in Severity /\ p.down \in Severity /\ p.up <= p.down
    BY <2>1, ValueProposal
  <2>3. /\ n \in Severity
        /\ \A v \in Severity : v \in Int /\ v >= Clear
        /\ Clear = 0 /\ Watch = 1 /\ Congested = 2 /\ Severe = 3
    BY SeverityOfType DEF Severity, Clear, Severe, Watch, Congested, n
  <2>4. /\ SeverityOf(StateOf(p.up)) = p.up /\ SeverityOf(StateOf(p.down)) = p.down
        /\ StateOf(p.up) = "Clear" => p.up = Clear
        /\ StateOf(p.down) = "Clear" => p.down = Clear
    BY <2>2, StateOfSeverity
  <2>5. /\ SeverityOf("Recovering") = Watch /\ SeverityOf("Clear") = Clear
        /\ "Recovering" \notin {"Congested", "Severe"} /\ "Recovering" # "Clear"
        /\ "Clear" \notin {"Congested", "Severe"}
    BY DEF SeverityOf, Clear, Watch
  <2>6. /\ SeverityOf("Congested") = Congested /\ SeverityOf("Severe") = Severe
    BY DEF SeverityOf, Congested, Severe
  <2>7. CASE ~IsAuthoritative(d.state)
    <3>1. t \in {StateOf(p.up), "Recovering"}
      BY <2>7 DEF t, GoalOf, GoalFromRefusal, Goal
    <3> QED BY <2>1, <2>2, <2>3, <2>4, <2>5, <2>7, <3>1
  <2>8. CASE IsAuthoritative(d.state) /\ p.up > n
    <3>1. t = StateOf(p.up)
      BY <2>8 DEF t, n, GoalOf, Goal
    <3>2. p.up > n /\ ~(p.up < n) /\ p.up # Clear
      BY <2>2, <2>3, <2>8
    <3> QED BY <2>1, <2>4, <3>1, <3>2
  <2>9. CASE IsAuthoritative(d.state) /\ ~(p.up > n)
    <3>1. p.down < n
      BY <2>1, <2>2, <2>3, <2>9 DEF Steady, n
    <3>2. \/ t = "Clear" /\ p.down = Clear
          \/ t = "Recovering" /\ p.down = Clear
          \/ t = StateOf(p.down)
      BY <2>9 DEF t, n, GoalOf, GoalDown, Goal
    <3>3. p.down = Clear => p.up = Clear
      BY <2>2, <2>3
    <3>4. CASE t = "Clear" /\ p.down = Clear
      <4>1. SeverityOf(s) = Clear /\ s = "Clear" /\ p.down <= SeverityOf(s)
        BY <2>1, <2>3, <2>5, <3>4
      <4> QED BY <2>1, <2>5, <3>3, <3>4, <4>1
    <3>5. CASE t = "Recovering" /\ p.down = Clear
      <4>1. s = "Recovering" /\ p.down <= SeverityOf(s)
        BY <2>1, <2>3, <2>5, <3>5
      <4> QED BY <2>1, <2>5, <4>1
    <3>6. CASE t = StateOf(p.down)
      <4>1. SeverityOf(s) = p.down /\ p.down <= p.down /\ ~(p.down > n)
        BY <2>1, <2>2, <2>3, <2>4, <3>1, <3>6
      <4>2. s = "Clear" => p.up = Clear
        BY <2>1, <2>4, <3>3, <3>6
      <4> QED BY <2>1, <4>1, <4>2
    <3> QED BY <3>2, <3>4, <3>5, <3>6
  <2> QED BY <2>7, <2>8, <2>9
<1> QED BY <1>1, <1>2, <1>3

\* The tick of the last change is that of a tick that was evaluated.
LEMMA EvaluatedTicks ==
  ASSUME NEW d \in DomainState, NEW p \in Proposal, NEW q \in Policy, NEW now \in Nat
  PROVE  Evaluated(d, p, q, now).lastChange \in {d.lastChange, now}
<1> DEFINE s == Step(d, p, q, now)
           t == GoalOf(d, p, q).target
           c == Counted(d, t)
<1>1. s \in DomainState
  BY StepType
<1>2. Evaluated(d, p, q, now).lastChange = s.lastChange
  BY <1>1 DEF Evaluated, DomainState
<1>3. c.lastChange = d.lastChange /\ Commit(c, t, now).lastChange = now
  BY DEF Counted, Commit, DomainState
<1>4. StaySteady(d, now).lastChange = d.lastChange
  BY DEF StaySteady, DomainState
<1>5. \A why : Refuse(d, why, now).lastChange \in {d.lastChange, now}
  BY DEF Refuse, DomainState
<1>6. \/ s = d
      \/ s = Refuse(d, p.why, now)
      \/ s = StaySteady(d, now)
      \/ s = c
      \/ s = Commit(c, t, now)
  BY StepCases
<1> HIDE DEF s, t, c
<1> QED BY <1>2, <1>3, <1>4, <1>5, <1>6

LEMMA NewDomainType == NewDomain \in DomainState
<1>1. "Unknown" \in CongestionState /\ Clear \in Severity
  BY DEF CongestionState, IndeterminateStates, Clear, Severe, Severity
<1> QED BY <1>1, SamplesRange DEF NewDomain, DomainState

LEMMA DemoteType ==
  ASSUME NEW d \in DomainState, NEW s \in CongestionState
  PROVE  Demote(d, s) \in DomainState
<1>1. "Unknown" \in CongestionState
  BY DEF CongestionState, IndeterminateStates
<1> QED BY <1>1, SamplesRange DEF Demote, DomainState

\* Fabric::open and advance_epoch demote to a state without authority.
LEMMA DemotionTarget ==
  ASSUME NEW d \in DomainState, NEW e, e = DemoteAfterRecovery(d) \/ e = DemoteForEpoch(d)
  PROVE  \E s \in CongestionState : ~IsAuthoritative(s) /\ e = Demote(d, s)
<1>1. CASE e = DemoteAfterRecovery(d)
  <2>1. PICK s : /\ s = (IF ~IsAuthoritative(d.state) THEN d.state
                         ELSE IF d.lastAuth = 0 THEN "Unknown" ELSE "Stale")
                 /\ e = Demote(d, s)
    BY <1>1 DEF DemoteAfterRecovery
  <2>2. s \in CongestionState /\ ~IsAuthoritative(s)
    BY <2>1 DEF DomainState, CongestionState, IndeterminateStates, AuthoritativeStates,
                IsAuthoritative
  <2> QED BY <2>1, <2>2
<1>2. CASE e = DemoteForEpoch(d)
  <2>1. PICK s : /\ s = (IF IsAuthoritative(d.state) THEN "Stale" ELSE d.state)
                 /\ e = Demote(d, s)
    BY <1>2 DEF DemoteForEpoch
  <2>2. s \in CongestionState /\ ~IsAuthoritative(s)
    BY <2>1 DEF DomainState, CongestionState, IndeterminateStates, AuthoritativeStates,
                IsAuthoritative
  <2> QED BY <2>1, <2>2
<1> QED BY <1>1, <1>2

LEMMA DemotionType ==
  ASSUME NEW d \in DomainState
  PROVE  DemoteAfterRecovery(d) \in DomainState /\ DemoteForEpoch(d) \in DomainState
BY DemotionTarget, DemoteType

\* They take the authority away from every domain that was evaluated, and keep
\* the severity it had.
LEMMA DemotionFacts ==
  ASSUME NEW d \in DomainState, Absent(d) => d = NewDomain,
         NEW e, e = DemoteAfterRecovery(d) \/ e = DemoteForEpoch(d)
  PROVE  /\ e \in DomainState /\ ~IsAuthoritative(e.state)
         /\ e.severity = d.severity /\ e.candidate = "Unknown" /\ e.streak = 0
         /\ Absent(e) => e = NewDomain
<1>1. PICK s \in CongestionState : ~IsAuthoritative(s) /\ e = Demote(d, s)
  BY DemotionTarget
<1>2. e \in DomainState
  BY <1>1, DemoteType
<1>3. CASE Absent(d)
  <2>1. e = NewDomain /\ d = NewDomain
    BY <1>1, <1>3 DEF Demote
  <2> QED BY <1>2, <2>1 DEF NewDomain, IsAuthoritative, AuthoritativeStates
<1>4. CASE ~Absent(d)
  <2>1. e = [d EXCEPT !.state = s, !.candidate = "Unknown", !.streak = 0, !.flag = TRUE]
    BY <1>1, <1>4 DEF Demote
  <2> QED BY <1>1, <1>2, <1>4, <2>1 DEF DomainState, Absent
<1> QED BY <1>3, <1>4

LEMMA InvalidateType ==
  ASSUME NEW d \in DomainState
  PROVE  Invalidate(d) \in DomainState
<1>1. (d.flag \/ IsAuthoritative(d.state)) \in BOOLEAN
  BY DEF IsAuthoritative, DomainState
<1> QED BY <1>1 DEF Invalidate, DomainState

\* An authority change flags a domain that has authority, and nothing else.
LEMMA InvalidateFacts ==
  ASSUME NEW d \in DomainState, Absent(d) => d = NewDomain
  PROVE  /\ Invalidate(d) \in DomainState
         /\ Invalidate(d).state = d.state /\ Invalidate(d).severity = d.severity
         /\ Invalidate(d).candidate = d.candidate /\ Invalidate(d).streak = d.streak
         /\ IsAuthoritative(d.state) => Invalidate(d).flag
         /\ Absent(Invalidate(d)) => Invalidate(d) = NewDomain
<1>1. IsAuthoritative(d.state) \in BOOLEAN /\ d.flag \in BOOLEAN
  BY DEF IsAuthoritative, DomainState
<1>2. PICK f \in BOOLEAN : /\ f = (d.flag \/ IsAuthoritative(d.state))
                           /\ Invalidate(d) = [d EXCEPT !.flag = f]
  BY <1>1 DEF Invalidate
<1>3. /\ Invalidate(d) \in DomainState
      /\ Invalidate(d).state = d.state /\ Invalidate(d).severity = d.severity
      /\ Invalidate(d).candidate = d.candidate /\ Invalidate(d).streak = d.streak
      /\ Invalidate(d).flag = f /\ Invalidate(d).lastEval = d.lastEval
  BY <1>2 DEF DomainState
<1>4. ASSUME Absent(d) PROVE Invalidate(d) = NewDomain
  <2>1. d = NewDomain /\ ~f
    <3>1. d = NewDomain /\ d.state = "Unknown" /\ d.flag = FALSE
      BY <1>4 DEF NewDomain
    <3>2. ~IsAuthoritative(d.state)
      BY <3>1 DEF IsAuthoritative, AuthoritativeStates
    <3> QED BY <1>2, <3>1, <3>2
  <2>2. Invalidate(d) = d
    <3>1. f = FALSE /\ d.flag = FALSE
      BY <2>1 DEF NewDomain
    <3> QED BY <1>2, <3>1 DEF DomainState
  <2> QED BY <2>1, <2>2
<1> QED BY <1>2, <1>3, <1>4 DEF Absent
=============================================================================
