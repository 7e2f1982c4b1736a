----------------------- MODULE DomainLifecycleProofs -----------------------
(***************************************************************************)
(* Proofs about DomainLifecycle, for every set of valid policies and every *)
(* bound: no authority without evidence, no recovery on too few samples,   *)
(* and no way from Congested to Clear in one sample.                       *)
(***************************************************************************)
EXTENDS DomainLifecycle, HysteresisProofs

-----------------------------------------------------------------------------
(* The inductive invariant *)

\* A domain that was never evaluated is as new, in memory and in the store.
AbsentOK ==
  /\ Absent(dom) => dom = NewDomain
  /\ Absent(saved) => saved = NewDomain

\* While a domain has authority, the severity it remembers is that of its state.
SeverityOK == IsAuthoritative(dom.state) => dom.severity = SeverityOf(dom.state)

\* Every sample of a streak towards Recovering was below Congested.
StreakOK == dom.candidate = "Recovering" => dom.streak <= run

\* A domain that was Congested remembers it, or has seen a better sample since.
HurtOK == hurt => dom.severity >= Congested \/ good >= 1

IInv ==
  /\ TypeOK
  /\ AbsentOK /\ SeverityOK /\ StreakOK /\ HurtOK
  /\ NoAuthorityWithoutEvidence

LEMMA PolicyType ==
  ASSUME IInv
  PROVE  policy \in Policy /\ stored \in Policy
BY LifecycleAssumption DEF IInv, TypeOK

LEMMA InitOK == Init => IInv
<1> SUFFICES ASSUME Init PROVE IInv
  OBVIOUS
<1>1. TypeOK
  <2>1. 0 \in 0..MaxChanges /\ 0 \in 0..MaxSamples /\ 1 \in Nat \ {0}
    BY SamplesRange, LifecycleAssumption
  <2> QED BY <2>1, NewDomainType DEF Init, TypeOK
<1>2. dom.state = "Unknown" /\ dom.candidate = "Unknown"
  BY DEF Init, NewDomain
<1> QED BY <1>1, <1>2 DEF Init, IInv, AbsentOK, SeverityOK, StreakOK, HurtOK,
             NoAuthorityWithoutEvidence, IsAuthoritative, AuthoritativeStates

-----------------------------------------------------------------------------
(* Fabric::evaluate_locked *)

\* The counters stay within the saturation bound and grow.
LEMMA BumpType ==
  ASSUME NEW n \in 0..MaxSamples
  PROVE  /\ Bump(n) \in 0..MaxSamples /\ Bump(n) >= n /\ Bump(n) >= 1
         /\ Bump(n) = n + 1 \/ (Bump(n) = n /\ n = MaxSamples)
         /\ n >= 1 => Bump(n) >= 2
BY SamplesRange DEF Bump

LEMMA ObserveType ==
  ASSUME IInv, NEW p \in Proposal, Observe(p)
  PROVE  /\ run' \in 0..MaxSamples /\ good' \in 0..MaxSamples
         /\ hurt' \in BOOLEAN /\ fresh' \in BOOLEAN
         /\ fresh' <=> (fresh \/ p.value)
         /\ Below(p) => run' = Bump(run) /\ good' = Bump(good)
         /\ ~Below(p) /\ dom'.state \notin CongestedStates => good' = good
         /\ hurt' => hurt \/ dom'.state \in CongestedStates
<1>1. run \in 0..MaxSamples /\ good \in 0..MaxSamples /\ hurt \in BOOLEAN /\ fresh \in BOOLEAN
  BY DEF IInv, TypeOK
<1>2. p.value \in BOOLEAN
  BY RefusingProposal
<1>3. /\ run' \in 0..MaxSamples /\ good' \in 0..MaxSamples
      /\ Below(p) => run' = Bump(run) /\ good' = Bump(good)
      /\ ~Below(p) /\ dom'.state \notin CongestedStates => good' = good
  <2>1. Bump(run) \in 0..MaxSamples /\ Bump(good) \in 0..MaxSamples /\ 0 \in 0..MaxSamples
    BY <1>1, BumpType, SamplesRange
  <2>2. CASE Below(p)
    BY <2>1, <2>2 DEF Observe
  <2>3. CASE ~Below(p)
    BY <1>1, <2>1, <2>3 DEF Observe
  <2> QED BY <2>2, <2>3
<1>4. hurt' \in BOOLEAN /\ (hurt' => hurt \/ dom'.state \in CongestedStates)
  BY <1>1 DEF Observe
<1>5. fresh' \in BOOLEAN /\ (fresh' <=> (fresh \/ p.value))
  BY <1>1, <1>2 DEF Observe
<1> QED BY <1>3, <1>4, <1>5

LEMMA EvaluateStep ==
  ASSUME IInv, NEW p \in Proposal, Evaluate(p)
  PROVE  IInv'
<1> DEFINE t == GoalOf(dom, p, policy).target
           n == Counted(dom, t).streak
<1>1. /\ dom \in DomainState /\ policy \in Policy /\ now \in Nat /\ now # 0
      /\ run \in 0..MaxSamples /\ good \in 0..MaxSamples
  BY PolicyType DEF IInv, TypeOK
<1>2. dom' = Evaluated(dom, p, policy, now)
  BY DEF Evaluate
<1>3. dom' \in DomainState /\ dom'.lastEval = now
  BY <1>1, <1>2, EvaluatedType
<1>4. IF Regressed(dom, now) THEN UNCHANGED history ELSE Observe(p)
  BY DEF Evaluate
<1>5. AbsentOK'
  BY <1>1, <1>3 DEF IInv, AbsentOK, Absent, Evaluate
<1>6. TypeOK'
  <2>1. /\ run' \in 0..MaxSamples /\ good' \in 0..MaxSamples
        /\ hurt' \in BOOLEAN /\ fresh' \in BOOLEAN
    BY <1>4, ObserveType DEF IInv, TypeOK, history
  <2>2. changes' \in 0..MaxChanges /\ saved' \in DomainState
    BY <1>3, LifecycleAssumption DEF IInv, TypeOK, Evaluate, Change
  <2> QED BY <1>3, <2>1, <2>2 DEF IInv, TypeOK, Evaluate, Quiet
<1>7. CASE /\ Regressed(dom, now)
           /\ dom'.state = dom.state /\ dom'.candidate = dom.candidate
           /\ dom'.streak = dom.streak
           /\ dom'.severity = dom.severity /\ dom'.flag = dom.flag
  <2>1. run' = run /\ good' = good /\ hurt' = hurt /\ fresh' = fresh
    BY <1>4, <1>7 DEF history
  <2> QED BY <1>5, <1>6, <1>7, <2>1 DEF IInv, SeverityOK, StreakOK, HurtOK,
               NoAuthorityWithoutEvidence
<1>8. ASSUME ~Regressed(dom, now) PROVE Observe(p)
  BY <1>4, <1>8
<1>9. CASE /\ ~Regressed(dom, now) /\ ~p.value
           /\ ~IsAuthoritative(dom'.state) /\ dom'.candidate = "Unknown"
           /\ dom'.severity = dom.severity
  <2>1. ~Below(p) /\ dom'.state \notin CongestedStates
    BY <1>9 DEF Below, IsAuthoritative, AuthoritativeStates, CongestedStates
  <2>2. good' = good /\ (hurt' => hurt)
    BY <1>8, <1>9, <2>1, ObserveType
  <2> QED BY <1>5, <1>6, <1>9, <2>2 DEF IInv, SeverityOK, StreakOK, HurtOK,
               NoAuthorityWithoutEvidence
<1>10. CASE ~Regressed(dom, now) /\ p.value
  <2>1. NoAuthorityWithoutEvidence'
    BY <1>8, <1>10, ObserveType DEF NoAuthorityWithoutEvidence
  <2>2. SeverityOf(dom.state) \in Int /\ dom.severity \in Int /\ dom'.severity \in Int
        /\ p.up \in Int
    BY <1>1, <1>3, <1>10, SeverityOfType, ValueProposal
       DEF DomainState, Severity, Clear, Severe
  <2>3. /\ t \in AuthoritativeStates
        /\ SeverityOf(t) < Congested => p.up < Congested
        /\ SeverityOf("Recovering") < Congested
    BY <1>1, <1>10, GoalFacts DEF SeverityOf, Watch, Congested
  <2>4. \/ /\ IsAuthoritative(dom.state) /\ dom'.state = dom.state
           /\ dom'.streak = 0 /\ dom'.severity = SeverityOf(dom.state)
        \/ /\ dom'.state = dom.state /\ dom'.severity = dom.severity
           /\ dom'.candidate = t /\ dom'.streak = n
        \/ /\ dom'.state = t /\ dom'.severity = SeverityOf(t) /\ dom'.candidate = "Unknown"
    BY <1>1, <1>2, <1>10, EvaluatedFields
  <2>5. SeverityOK'
    BY <2>4 DEF IInv, SeverityOK
  <2>6. Below(p) <=> p.up < Congested
    BY <1>10 DEF Below
  <2>7. StreakOK'
    <3> SUFFICES ASSUME dom'.candidate = "Recovering" PROVE dom'.streak <= run'
      BY DEF StreakOK
    <3>1. run' \in 0..MaxSamples
      BY <1>8, <1>10, ObserveType
    <3>2. CASE dom'.streak = 0
      BY <3>1, <3>2
    <3>3. CASE dom'.candidate = t /\ dom'.streak = n
      <4>1. run' = Bump(run)
        BY <1>8, <1>10, <2>3, <2>6, <3>3, ObserveType
      <4>2. \/ n = 1
            \/ dom.candidate = "Recovering" /\ n = dom.streak + 1 /\ n <= MaxSamples
            \/ dom.candidate = "Recovering" /\ n = dom.streak /\ n = MaxSamples
        BY <1>1, <3>3, CountedStreak
      <4>3. dom.streak \in 0..MaxSamples
        BY <1>1 DEF DomainState
      <4>4. dom.candidate = "Recovering" => dom.streak <= run
        BY DEF IInv, StreakOK
      <4> HIDE DEF n, t
      <4> QED BY <1>1, <3>1, <3>3, <4>1, <4>2, <4>3, <4>4, BumpType, SamplesRange
    <3> QED BY <2>4, <3>2, <3>3
  <2>8. HurtOK'
    <3> SUFFICES ASSUME hurt', dom'.severity < Congested PROVE good' >= 1
      BY <2>2 DEF HurtOK, Congested
    <3>1. dom'.state \notin CongestedStates
      <4> SUFFICES ASSUME dom'.state \in CongestedStates PROVE FALSE
        OBVIOUS
      <4>1. IsAuthoritative(dom'.state) /\ SeverityOf(dom'.state) >= Congested
        BY DEF CongestedStates, IsAuthoritative, AuthoritativeStates, SeverityOf, Congested,
               Severe
      <4> QED BY <2>2, <2>5, <4>1 DEF SeverityOK, Congested
    <3>2. CASE Below(p)
      BY <1>1, <1>8, <1>10, <3>2, BumpType, ObserveType
    <3>3. CASE ~Below(p)
      <4>1. good' = good /\ hurt
        BY <1>8, <1>10, <3>1, <3>3, ObserveType
      <4>2. ~(SeverityOf(t) < Congested)
        BY <2>3, <2>6, <3>3
      <4>3. dom'.severity = dom.severity
        BY <2>4, <4>2 DEF IInv, SeverityOK
      <4> QED BY <2>2, <4>1, <4>3 DEF IInv, HurtOK, Congested
    <3> QED BY <3>2, <3>3
  <2> QED BY <1>5, <1>6, <2>1, <2>5, <2>7, <2>8 DEF IInv
<1>11. \/ /\ Regressed(dom, now)
          /\ dom'.state = dom.state /\ dom'.candidate = dom.candidate
          /\ dom'.streak = dom.streak
          /\ dom'.severity = dom.severity /\ dom'.flag = dom.flag
       \/ /\ ~Regressed(dom, now) /\ ~p.value
          /\ ~IsAuthoritative(dom'.state) /\ dom'.candidate = "Unknown"
          /\ dom'.severity = dom.severity
       \/ ~Regressed(dom, now) /\ p.value
  BY <1>1, <1>2, EvaluatedFields
<1> QED BY <1>7, <1>9, <1>10, <1>11

-----------------------------------------------------------------------------
(* The other steps *)

\* A bounded change stays within its bound.
LEMMA ChangeType ==
  ASSUME IInv, Change
  PROVE  changes' \in 0..MaxChanges
BY LifecycleAssumption DEF IInv, TypeOK, Change

LEMMA TickStep ==
  ASSUME IInv, Tick
  PROVE  IInv'
<1>1. TypeOK'
  BY DEF Tick, IInv, TypeOK, Quiet, history
<1> QED BY <1>1 DEF Tick, history, IInv, AbsentOK, Absent, SeverityOK, StreakOK, HurtOK,
             NoAuthorityWithoutEvidence

LEMMA SetPolicyStep ==
  ASSUME IInv, NEW q \in Policies, SetPolicy(q)
  PROVE  IInv'
<1>1. dom \in DomainState /\ (Absent(dom) => dom = NewDomain) /\ dom' = Invalidate(dom)
  BY DEF IInv, TypeOK, AbsentOK, SetPolicy
<1>2. /\ dom' \in DomainState
      /\ dom'.state = dom.state /\ dom'.severity = dom.severity
      /\ dom'.candidate = dom.candidate /\ dom'.streak = dom.streak
      /\ IsAuthoritative(dom.state) => dom'.flag
      /\ Absent(dom') => dom' = NewDomain
  BY <1>1, InvalidateFacts
<1>3. TypeOK'
  BY <1>2, ChangeType DEF SetPolicy, IInv, TypeOK, Quiet
<1>4. AbsentOK'
  BY <1>2 DEF SetPolicy, IInv, AbsentOK, Absent
<1>5. SeverityOK' /\ StreakOK' /\ HurtOK' /\ NoAuthorityWithoutEvidence'
  BY <1>2 DEF SetPolicy, IInv, SeverityOK, StreakOK, HurtOK, NoAuthorityWithoutEvidence
<1> QED BY <1>3, <1>4, <1>5 DEF IInv

LEMMA AdvanceEpochStep ==
  ASSUME IInv, AdvanceEpoch
  PROVE  IInv'
<1>1. dom \in DomainState /\ (Absent(dom) => dom = NewDomain) /\ dom' = DemoteForEpoch(dom)
  BY DEF IInv, TypeOK, AbsentOK, AdvanceEpoch
<1>2. /\ dom' \in DomainState /\ ~IsAuthoritative(dom'.state)
      /\ dom'.severity = dom.severity /\ dom'.candidate = "Unknown" /\ dom'.streak = 0
      /\ Absent(dom') => dom' = NewDomain
  BY <1>1, DemotionFacts
<1>3. TypeOK'
  <2>1. saved' \in DomainState /\ 0 \in 0..MaxSamples
    BY <1>2, SamplesRange DEF AdvanceEpoch, IInv, TypeOK
  <2> QED BY <1>2, <2>1, ChangeType DEF AdvanceEpoch, IInv, TypeOK, Quiet
<1>4. AbsentOK'
  BY <1>2 DEF AdvanceEpoch, IInv, AbsentOK, Absent
<1>5. SeverityOK' /\ StreakOK' /\ HurtOK' /\ NoAuthorityWithoutEvidence'
  BY <1>2 DEF AdvanceEpoch, IInv, SeverityOK, StreakOK, HurtOK, NoAuthorityWithoutEvidence
<1> QED BY <1>3, <1>4, <1>5 DEF IInv

LEMMA RestartStep ==
  ASSUME IInv, Restart
  PROVE  IInv'
<1>1. /\ saved \in DomainState /\ (Absent(saved) => saved = NewDomain)
      /\ dom' = DemoteAfterRecovery(saved) /\ saved' = dom'
  BY DEF IInv, TypeOK, AbsentOK, Restart
<1>2. /\ dom' \in DomainState /\ ~IsAuthoritative(dom'.state)
      /\ dom'.severity = saved.severity /\ dom'.candidate = "Unknown" /\ dom'.streak = 0
      /\ Absent(dom') => dom' = NewDomain
  BY <1>1, DemotionFacts
<1>3. TypeOK'
  <2>1. 0 \in 0..MaxSamples /\ 1 \in Nat \ {0}
    BY SamplesRange
  <2>2. hurt' \in BOOLEAN
    BY DEF Restart
  <2> QED BY <1>1, <1>2, <2>1, <2>2, ChangeType DEF Restart, IInv, TypeOK, Quiet
<1>4. AbsentOK'
  BY <1>1, <1>2 DEF AbsentOK, Absent
<1>5. SeverityOK' /\ StreakOK' /\ NoAuthorityWithoutEvidence'
  BY <1>2 DEF Restart, SeverityOK, StreakOK, NoAuthorityWithoutEvidence
<1>6. HurtOK'
  BY <1>2 DEF Restart, HurtOK
<1> QED BY <1>3, <1>4, <1>5, <1>6 DEF IInv

LEMMA SettleStep ==
  ASSUME IInv, NEW p \in Unambiguous, Settle(p)
  PROVE  IInv'
<1>1. TypeOK'
  BY DEF Settle, history, IInv, TypeOK, Quiet, Unambiguous
<1> QED BY <1>1 DEF Settle, history, IInv, AbsentOK, Absent, SeverityOK, StreakOK, HurtOK,
             NoAuthorityWithoutEvidence

LEMMA StutterStep ==
  ASSUME IInv, UNCHANGED vars
  PROVE  IInv'
<1>1. TypeOK'
  BY DEF vars, IInv, TypeOK, Quiet
<1> QED BY <1>1 DEF vars, IInv, AbsentOK, Absent, SeverityOK, StreakOK, HurtOK,
             NoAuthorityWithoutEvidence

LEMMA NextStep ==
  ASSUME IInv, [Next]_vars
  PROVE  IInv'
BY EvaluateStep, TickStep, SetPolicyStep, AdvanceEpochStep, RestartStep, SettleStep,
   StutterStep DEF Next

-----------------------------------------------------------------------------
(* The theorems *)

LEMMA Invariance == Spec => []IInv
<1>1. IInv /\ [Next]_vars => IInv'
  BY NextStep
<1> QED BY <1>1, InitOK, PTL DEF Spec

\* Type correctness: the streak never exceeds kMaxHysteresisSamples and every
\* state the machine, the demotions and the store produce is a domain state.
THEOREM TypeCorrect == Spec => []TypeOK
<1>1. IInv => TypeOK
  BY DEF IInv
<1> QED BY <1>1, Invariance, PTL

\* A domain that has authority and needs no revalidation was evaluated with a
\* value since the last restart, epoch advance or authority change.
THEOREM AuthorityNeedsEvidence == Spec => []NoAuthorityWithoutEvidence
<1>1. IInv => NoAuthorityWithoutEvidence
  BY DEF IInv
<1> QED BY <1>1, Invariance, PTL

\* The steps that can change what the domain counts as are evaluations.
LEMMA GainByEvaluation ==
  ASSUME IInv, [Next]_vars, dom'.state # dom.state, IsAuthoritative(dom'.state)
  PROVE  \E p \in Proposal :
           /\ Evaluate(p) /\ ~Regressed(dom, now) /\ p.value
           /\ dom'.state = GoalOf(dom, p, policy).target
           /\ ~(Counted(dom, GoalOf(dom, p, policy).target).streak
                  < GoalOf(dom, p, policy).required)
<1>1. CASE \E p \in Proposal : Evaluate(p)
  <2>1. PICK p \in Proposal : Evaluate(p)
    BY <1>1
  <2>2. /\ dom \in DomainState /\ policy \in Policy /\ now \in Nat
        /\ dom' = Evaluated(dom, p, policy, now)
    BY <2>1, PolicyType DEF IInv, TypeOK, Evaluate
  <2>3. /\ ~Regressed(dom, now) /\ p.value
        /\ dom'.state = GoalOf(dom, p, policy).target
        /\ ~(Counted(dom, GoalOf(dom, p, policy).target).streak
               < GoalOf(dom, p, policy).required)
    BY <2>2, EvaluatedFields
  <2> QED BY <2>1, <2>3
<1>2. CASE Tick \/ (\E p \in Unambiguous : Settle(p)) \/ UNCHANGED vars
  BY <1>2 DEF Tick, Settle, vars
<1>3. ASSUME NEW q \in Policies, SetPolicy(q) PROVE FALSE
  BY <1>3, InvalidateFacts DEF SetPolicy, IInv, TypeOK, AbsentOK
<1>4. ASSUME AdvanceEpoch PROVE FALSE
  BY <1>4, DemotionFacts DEF AdvanceEpoch, IInv, TypeOK, AbsentOK
<1>5. ASSUME Restart PROVE FALSE
  BY <1>5, DemotionFacts DEF Restart, IInv, TypeOK, AbsentOK
<1> QED BY <1>1, <1>2, <1>3, <1>4, <1>5 DEF Next

\* A recovery starts only when as many samples in a row as the policy demands
\* were below Congested, whatever came between them.
THEOREM RecoveryTakesSamples == Spec => RecoveryNeedsSamples
<1>1. ASSUME IInv, [Next]_vars, dom.state # "Recovering", dom'.state = "Recovering"
      PROVE  run' >= RecoverySamples(policy)
  <2>1. IsAuthoritative(dom'.state)
    BY <1>1 DEF IsAuthoritative, AuthoritativeStates
  <2>2. PICK p \in Proposal :
          /\ Evaluate(p) /\ ~Regressed(dom, now) /\ p.value
          /\ GoalOf(dom, p, policy).target = "Recovering"
          /\ ~(Counted(dom, "Recovering").streak < GoalOf(dom, p, policy).required)
    BY <1>1, <2>1, GainByEvaluation
  <2> DEFINE n == Counted(dom, "Recovering").streak
  <2>3. /\ dom \in DomainState /\ policy \in Policy /\ run \in 0..MaxSamples
        /\ dom.streak \in 0..MaxSamples
        /\ dom.candidate = "Recovering" => dom.streak <= run
    BY <1>1, PolicyType DEF IInv, TypeOK, StreakOK, DomainState
  <2>4. /\ GoalOf(dom, p, policy).required = RecoverySamples(policy)
        /\ SeverityOf("Recovering") < Congested => p.up < Congested
    BY <2>2, <2>3, GoalFacts
  <2>5. Below(p)
    BY <2>2, <2>4 DEF Below, SeverityOf, Watch, Congested
  <2>6. run' = Bump(run) /\ run' \in 0..MaxSamples
    BY <1>1, <2>2, <2>5, ObserveType DEF Evaluate
  <2>7. \/ n = 1
        \/ dom.candidate = "Recovering" /\ n = dom.streak + 1 /\ n <= MaxSamples
        \/ dom.candidate = "Recovering" /\ n = dom.streak /\ n = MaxSamples
    BY <2>3, CountedStreak
  <2>8. n <= run' /\ n \in Nat
    <3> HIDE DEF n
    <3> QED BY <2>3, <2>6, <2>7, BumpType, SamplesRange
  <2>9. RecoverySamples(policy) \in Nat
    BY <2>3, RecoverySamplesType
  <2>10. ~(n < RecoverySamples(policy))
    BY <2>2, <2>4
  <2> HIDE DEF n
  <2> QED BY <2>6, <2>8, <2>9, <2>10
<1>2. IInv /\ [Next]_vars
        => [dom.state # "Recovering" /\ dom'.state = "Recovering"
              => run' >= RecoverySamples(policy)]_vars
  BY <1>1
<1> QED BY <1>2, Invariance, PTL DEF Spec, RecoveryNeedsSamples

\* While the policy demands a recovery, a domain that was Congested or Severe
\* is Clear again only after two samples below Congested at least.
THEOREM ClearTakesTwoSamples == Spec => NeverHealthyAtOnce
<1>1. ASSUME IInv, [Next]_vars, hurt, dom.state # "Clear", dom'.state = "Clear"
      PROVE  good' >= 2 \/ ~policy.recovery
  <2> SUFFICES ASSUME policy.recovery PROVE good' >= 2
    OBVIOUS
  <2>1. IsAuthoritative(dom'.state)
    BY <1>1 DEF IsAuthoritative, AuthoritativeStates
  <2>2. PICK p \in Proposal :
          /\ Evaluate(p) /\ ~Regressed(dom, now) /\ p.value
          /\ GoalOf(dom, p, policy).target = "Clear"
    BY <1>1, <2>1, GainByEvaluation
  <2>3. /\ dom \in DomainState /\ policy \in Policy /\ good \in 0..MaxSamples
        /\ dom.severity >= Congested \/ good >= 1
        /\ IsAuthoritative(dom.state) => dom.severity = SeverityOf(dom.state)
    BY <1>1, PolicyType DEF IInv, TypeOK, HurtOK, SeverityOK
  <2>4. /\ SeverityOf("Clear") < Congested => p.up < Congested
        /\ ~IsAuthoritative(dom.state) => dom.severity < Congested
        /\ IsAuthoritative(dom.state) => SeverityOf(dom.state) < Congested
    BY <2>2, <2>3, GoalFacts
  <2>5. dom.severity \in Int
    BY <2>3 DEF DomainState, Severity, Clear, Severe
  <2>6. good >= 1
    BY <2>3, <2>4, <2>5 DEF Congested
  <2>7. Below(p)
    BY <2>2, <2>4 DEF Below, SeverityOf, Clear, Congested
  <2>8. good' = Bump(good)
    BY <1>1, <2>2, <2>7, ObserveType DEF Evaluate
  <2> QED BY <2>3, <2>6, <2>8, BumpType
<1>2. IInv /\ [Next]_vars
        => [hurt /\ dom.state # "Clear" /\ dom'.state = "Clear"
              => good' >= 2 \/ ~policy.recovery]_vars
  BY <1>1
<1> QED BY <1>2, Invariance, PTL DEF Spec, NeverHealthyAtOnce
=============================================================================
