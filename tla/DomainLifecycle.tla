--------------------------- MODULE DomainLifecycle ---------------------------
(***************************************************************************)
(* One congestion domain through the life of the coordinator: evaluations  *)
(* of arbitrary evidence, policy and topology changes, epoch advances and  *)
(* restarts.  dom is the entry of Fabric::domains_, saved the one in the   *)
(* durable document.                                                       *)
(*                                                                         *)
(* The clock counts from the start of the process (SteadyClock), so it     *)
(* starts over with every restart while the restored ticks do not.         *)
(*                                                                         *)
(* After Settle the environment is quiet: every evaluation sees the same   *)
(* evidence and nothing else happens.  The liveness property is about      *)
(* those behaviours.                                                       *)
(***************************************************************************)
EXTENDS Hysteresis

CONSTANTS Policies,    \* the policies an operator may install
          MaxTick,     \* bound: the clock before the environment settles
          SettleTicks, \* bound: how far it runs past a change after that
          MaxChanges   \* bound: restarts, epoch advances, policy changes

ASSUME LifecycleAssumption ==
  /\ Policies \subseteq Policy
  /\ Policies # {}
  /\ MaxTick \in Nat \ {0}
  /\ SettleTicks \in Nat
  /\ \A q \in Policies : q.dwell <= SettleTicks /\ q.hold <= SettleTicks
  /\ MaxChanges \in Nat

VARIABLES
  now,     \* Clock::now()
  policy,  \* Fabric::policy_
  dom,     \* Fabric::domains_[d]
  saved,   \* the domain's state in the durable document
  stored,  \* the policy in the durable document
  settled, \* the proposals the environment still makes
  \* history variables
  run,     \* consecutive samples below Congested, up to MaxSamples
  good,    \* samples below Congested since one that kept the domain there
  hurt,    \* the domain was Congested or Severe since it was last Clear
  fresh,   \* a sample with a value was evaluated since the last demotion
  changes

vars == <<now, policy, dom, saved, stored, settled, run, good, hurt, fresh,
          changes>>
history == <<run, good, hurt, fresh>>

Quiet == \E p \in Proposal : settled = {p}

TypeOK ==
  /\ now \in Nat \ {0}
  /\ policy \in Policies
  /\ dom \in DomainState
  /\ saved \in DomainState
  /\ stored \in Policies
  /\ settled = Proposal \/ Quiet
  /\ run \in 0..MaxSamples /\ good \in 0..MaxSamples
  /\ hurt \in BOOLEAN /\ fresh \in BOOLEAN
  /\ changes \in 0..MaxChanges

Init ==
  /\ now = 1
  /\ policy \in Policies
  /\ stored = policy
  /\ dom = NewDomain /\ saved = NewDomain
  /\ settled = Proposal
  /\ run = 0 /\ good = 0 /\ hurt = FALSE
  /\ fresh = FALSE
  /\ changes = 0

-----------------------------------------------------------------------------

Bump(n) == IF n < MaxSamples THEN n + 1 ELSE n

CongestedStates == {"Congested", "Severe"}

Below(p) == p.value /\ p.up < Congested

\* What the history variables make of a sample that the step did not refuse.
Observe(p) ==
  /\ run' = IF Below(p) THEN Bump(run) ELSE 0
  /\ good' = CASE Below(p) -> Bump(good)
               [] ~Below(p) /\ dom'.state \in CongestedStates -> 0
               [] OTHER -> good
  /\ hurt' = CASE dom'.state \in CongestedStates -> TRUE
               [] dom'.state = "Clear" -> FALSE
               [] OTHER -> hurt
  /\ fresh' = (fresh \/ p.value)

\* Something out of the ordinary, of which there are at most MaxChanges.
Change ==
  /\ ~Quiet
  /\ changes < MaxChanges
  /\ changes' = changes + 1

\* Fabric::evaluate_locked: the new state replaces the old one in memory and
\* is then committed to the store, which may fail.
Evaluate(p) ==
  /\ p \in settled
  /\ dom' = Evaluated(dom, p, policy, now)
  /\ IF Regressed(dom, now) THEN UNCHANGED history ELSE Observe(p)
  /\ \/ saved' = dom' /\ UNCHANGED changes
     \/ saved' = saved /\ Change
  /\ UNCHANGED <<now, policy, stored, settled>>

\* The steady clock. Once the environment is quiet it runs on for as long as
\* a dwell or hold time can depend on it.
Tick ==
  /\ \/ now < MaxTick
     \/ Quiet /\ now < dom.lastChange + SettleTicks
  /\ now' = now + 1
  /\ UNCHANGED <<policy, dom, saved, stored, settled, history, changes>>

\* Fabric::set_policy, and set_topology when the policy stays the same: the
\* flag is set in memory only, and the policy written last, which may fail.
SetPolicy(q) ==
  /\ Change
  /\ policy' = q
  /\ stored' \in {stored, q}
  /\ dom' = Invalidate(dom)
  /\ fresh' = FALSE
  /\ UNCHANGED <<now, saved, settled, run, good, hurt>>

\* Fabric::advance_epoch: the demoted state is committed too, unless an
\* earlier write of the call fails.
AdvanceEpoch ==
  /\ Change
  /\ dom' = DemoteForEpoch(dom)
  /\ saved' \in {saved, dom'}
  /\ run' = 0 /\ fresh' = FALSE
  /\ UNCHANGED <<now, policy, stored, settled, good, hurt>>

\* The process ends, by a crash or in order, and Fabric::open restores what the
\* store holds. What memory knew beyond it is forgotten.
Restart ==
  /\ Change
  /\ now' = 1
  /\ dom' = DemoteAfterRecovery(saved)
  /\ saved' = dom'
  /\ run' = 0 /\ good' = 0 /\ fresh' = FALSE
  /\ hurt' = (saved.severity >= Congested)
  /\ policy' = stored
  /\ UNCHANGED <<stored, settled>>

\* Evidence outside the downgrade margin.
Unambiguous == {p \in Proposal : IF p.value THEN p.up = p.down ELSE TRUE}

\* From here on the environment is quiet (bound: not after the last change).
Settle(p) ==
  /\ ~Quiet
  /\ changes < MaxChanges
  /\ settled' = {p}
  /\ UNCHANGED <<now, policy, dom, saved, stored, history, changes>>

Next ==
  \/ \E p \in Proposal : Evaluate(p)
  \/ Tick
  \/ \E q \in Policies : SetPolicy(q)
  \/ AdvanceEpoch
  \/ Restart
  \/ \E p \in Unambiguous : Settle(p)

Spec == Init /\ [][Next]_vars

\* The evaluation loop of the coordinator sweeps every domain again and again,
\* and the clock runs.
Fairness == WF_vars(Tick) /\ WF_vars(\E p \in Proposal : Evaluate(p))

FairSpec == Spec /\ Fairness

-----------------------------------------------------------------------------
(* Properties *)

\* Recovery never starts on one improved sample, unless the policy allows it:
\* not after a blackout, a restart, an epoch advance or a policy change between
\* two samples either.
RecoveryNeedsSamples ==
  [][dom.state # "Recovering" /\ dom'.state = "Recovering"
       => run' >= RecoverySamples(policy)]_vars

\* A domain that was Congested or Severe is not declared Clear by the first
\* sample that is better, whatever happened in between, as long as the policy
\* demands a recovery.
NeverHealthyAtOnce ==
  [][hurt /\ dom.state # "Clear" /\ dom'.state = "Clear"
       => good' >= 2 \/ ~policy.recovery]_vars

\* After a restart, an epoch advance or an authority change a domain is relied
\* upon only once a sample of the new time was evaluated.
NoAuthorityWithoutEvidence ==
  IsAuthoritative(dom.state) /\ ~dom.flag => fresh

\* The state that evidence outside the downgrade margin calls for.
Adopted(p) ==
  CASE ~p.value -> ~IsAuthoritative(dom.state)
    [] p.value /\ p.up = Watch -> dom.state \in {"Watch", "Recovering"}
    [] OTHER -> dom.state = StateOf(p.up)

\* Evidence that stays the same is adopted in the end, restarts with a clock
\* that is behind the restored ticks included: the domain settles in the state
\* that belongs to its severity, Recovering standing in for Watch.
EvidencePrevails ==
  <>[](Quiet => \A p \in settled : Adopted(p))
=============================================================================
