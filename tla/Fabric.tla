------------------------------- MODULE Fabric -------------------------------
(***************************************************************************)
(* The coordinator's Fabric (src/fabric/fabric.cpp): publisher             *)
(* registrations and fences, the window of current evidence, one           *)
(* congestion domain with its interventions, epochs and authority          *)
(* generations, and what of all that the durable store holds.              *)
(*                                                                         *)
(* One mutex makes every call atomic, except that plan() lets go of it     *)
(* between evaluating and planning.  The store is the document that        *)
(* DurableStore proves to survive a crash: a write succeeds, or fails and  *)
(* is then found by the next process or not.                               *)
(*                                                                         *)
(* A sample is a severity level instead of a set of metric readings, far   *)
(* enough from the other levels to be outside every tolerance and margin,  *)
(* and covers every required metric.                                       *)
(***************************************************************************)
EXTENDS Hysteresis, FiniteSets

CONSTANTS
  Publishers, Boots, Resources, \* Resources are the members of the domain
  Levels,        \* the severities a sample may show
  policy,        \* hysteresis and recovery parameters
  AtLeast,       \* InterventionRule::at_least
  MaxAge,        \* FreshnessPolicy::default_max_age_ticks
  MaxEvidence,   \* FabricOptions::max_evidence_entries
  MaxPublishers, \* FabricOptions::max_publishers
  MaxGeneration, \* bound: generations a publisher counts
  MaxSequence,   \* bound: sequence numbers in a generation
  Mints,         \* bound: generation, sequence and level of each publisher's samples
  MaxTick,       \* bound: the clock
  MaxChanges,    \* bound: authority changes, epoch advances, restarts
  MaxFaults      \* bound: failures of the store

ASSUME FabricAssumption ==
  /\ Levels \subseteq Severity
  /\ policy \in Policy
  /\ AtLeast \in Severity
  /\ {MaxAge, MaxEvidence, MaxPublishers, MaxGeneration, MaxSequence, MaxTick,
      MaxChanges, MaxFaults} \subseteq Nat
  /\ MaxTick # 0
  /\ Mints \subseteq Publishers \X (1..MaxGeneration) \X (0..MaxSequence) \X Levels

VARIABLES
  running,    \* the Fabric is open
  now,        \* Clock::now()
  epoch,      \* epoch_
  generation, \* authority_generation_
  publishers, \* publishers_, as the set of its registrations
  fences,     \* fences_, as a set of incarnations
  evidence,   \* evidence_, as the set of its samples
  dom,        \* domains_ at the one domain, NewDomain if it has no entry
  intents,    \* intents_ at the domain
  last,       \* last_outcomes_ at the domain, as a set of at most one
  planning,   \* the outcome plan() holds while it is not in the mutex
  disk,       \* the durable document
  \* history variables and counters
  acked,      \* incarnations whose fence was reported durable
  used,       \* epochs of former processes
  changes, faults

vars == <<running, now, epoch, generation, publishers, fences, evidence, dom,
          intents, last, planning, disk, acked, used, changes, faults>>

-----------------------------------------------------------------------------

Incarnation == Publishers \X Boots

Registration ==
  [publisher : Publishers, boot : Boots, epoch : Nat, lastGeneration : Nat]

Sample ==
  [publisher : Publishers, boot : Boots, resource : Resources, epoch : Nat,
   generation : 1..MaxGeneration, sequence : 0..MaxSequence, level : Levels,
   tick : 1..MaxTick]

\* EvaluationOutcome: seen holds the newest tick of every resource covered.
Outcome ==
  [authoritative : BOOLEAN, state : CongestionState,
   seen : SUBSET [resource : Resources, tick : 1..MaxTick]]

\* InterventionIntent: its target and the authority it is bound to.
Intent == [resource : Resources, epoch : Nat, generation : Nat]

Document == [epoch : Nat, fences : SUBSET Incarnation, dom : DomainState]

Holding(e, f, d) == [epoch |-> e, fences |-> f, dom |-> d]

Of(p, b) == <<p, b>>
By(x) == <<x.publisher, x.boot>>

\* The key of evidence_; a resource stands for its queues.
Key(s) == <<s.resource, s.publisher>>

OnePer(S, key(_)) == \A x, y \in S : key(x) = key(y) => x = y

\* The maps are maps, and within the bounds of the options.
TypeOK ==
  /\ running \in BOOLEAN
  /\ now \in 1..MaxTick
  /\ epoch \in Nat /\ generation \in Nat
  /\ publishers \in SUBSET Registration
  /\ fences \in SUBSET Incarnation
  /\ evidence \in SUBSET Sample
  /\ Cardinality(publishers) <= MaxPublishers /\ OnePer(publishers, LAMBDA x : x.publisher)
  /\ Cardinality(evidence) <= MaxEvidence /\ OnePer(evidence, Key)
  /\ dom \in DomainState
  /\ intents \in SUBSET Intent
  /\ last \in SUBSET Outcome /\ planning \in SUBSET Outcome
  /\ disk \in Document
  /\ acked \in SUBSET Incarnation
  /\ used \in SUBSET Nat
  /\ changes \in 0..MaxChanges /\ faults \in 0..MaxFaults

\* An empty state directory.
Init ==
  /\ running = FALSE
  /\ now = 1
  /\ epoch = 0 /\ generation = 0
  /\ publishers = {} /\ fences = {} /\ evidence = {}
  /\ dom = NewDomain
  /\ intents = {} /\ last = {} /\ planning = {}
  /\ disk = Holding(0, {}, NewDomain)
  /\ acked = {} /\ used = {}
  /\ changes = 0 /\ faults = 0

Change == changes < MaxChanges /\ changes' = changes + 1

Fault == faults < MaxFaults /\ faults' = faults + 1

Tick ==
  /\ running
  /\ now < MaxTick
  /\ now' = now + 1
  /\ UNCHANGED <<running, epoch, generation, publishers, fences, evidence, dom,
                 intents, last, planning, disk, acked, used, changes, faults>>

-----------------------------------------------------------------------------
(* Fabric::open and the end of the process *)

\* Mutant: the restored document's fences are not put in force.
RestoreNoFences(doc) == {}

RestoreFences(doc) == doc.fences

\* Mutant: the epoch goes on where the document left it.
SameEpoch(doc) == IF doc.epoch = 0 THEN 1 ELSE doc.epoch

NextEpoch(doc) == doc.epoch + 1

Open ==
  /\ ~running
  /\ running' = TRUE
  /\ now' = 1
  /\ epoch' = NextEpoch(disk)
  /\ generation' = epoch'
  /\ fences' = RestoreFences(disk)
  /\ dom' = DemoteAfterRecovery(disk.dom)
  /\ disk' = Holding(epoch', disk.fences, dom')
  /\ UNCHANGED <<publishers, evidence, intents, last, planning, acked, used, changes,
                 faults>>

\* The store fails before or after the new epoch is written.
OpenFails ==
  /\ ~running
  /\ Fault
  /\ disk' \in {disk, Holding(NextEpoch(disk), disk.fences, disk.dom),
                Holding(NextEpoch(disk), disk.fences, DemoteAfterRecovery(disk.dom))}
  /\ UNCHANGED <<running, now, epoch, generation, publishers, fences, evidence, dom,
                 intents, last, planning, acked, used, changes>>

\* A crash, or Fabric::close and the end of the process.
Stop ==
  /\ running
  /\ Change
  /\ running' = FALSE
  /\ publishers' = {} /\ fences' = {} /\ evidence' = {}
  /\ dom' = NewDomain
  /\ intents' = {} /\ last' = {} /\ planning' = {}
  /\ used' = used \cup {epoch}
  /\ UNCHANGED <<now, epoch, generation, disk, acked, faults>>

-----------------------------------------------------------------------------
(* Publishers *)

\* Mutant: the fence is not looked at.
MayRegisterAgain(p, b) ==
  \/ \E r \in publishers : r.publisher = p
  \/ Cardinality(publishers) < MaxPublishers

MayRegister(p, b) ==
  /\ Of(p, b) \notin fences
  /\ \/ \E r \in publishers : r.publisher = p
     \/ Cardinality(publishers) < MaxPublishers

\* A new registration replaces the publisher's old one, whatever its boot.
RegisterPublisher(p, b) ==
  /\ running
  /\ MayRegister(p, b)
  /\ publishers' = {r \in publishers : r.publisher # p}
       \cup {[publisher |-> p, boot |-> b, epoch |-> epoch, lastGeneration |-> 0]}
  /\ UNCHANGED <<running, now, epoch, generation, fences, evidence, dom, intents, last,
                 planning, disk, acked, used, changes, faults>>

\* unregister_publisher with FenceReason::None. The evidence stays.
UnregisterPublisher(p, b) ==
  /\ running
  /\ \E r \in publishers : By(r) = Of(p, b)
  /\ publishers' = {r \in publishers : By(r) # Of(p, b)}
  /\ UNCHANGED <<running, now, epoch, generation, fences, evidence, dom, intents, last,
                 planning, disk, acked, used, changes, faults>>

WindowWithout(p, b) == {s \in evidence : By(s) # Of(p, b)}

\* fence_publisher, and unregister_publisher with any other reason. In force at
\* once, durable if the store takes it.
FencePublisher(p, b) ==
  /\ running
  /\ publishers' = {r \in publishers : By(r) # Of(p, b)}
  /\ fences' = fences \cup {Of(p, b)}
  /\ evidence' = WindowWithout(p, b)
  /\ \/ /\ disk' = Holding(disk.epoch, disk.fences \cup {Of(p, b)}, disk.dom)
        /\ acked' = acked \cup {Of(p, b)}
        /\ UNCHANGED faults
     \/ /\ Fault
        /\ disk' \in {disk, Holding(disk.epoch, disk.fences \cup {Of(p, b)}, disk.dom)}
        /\ UNCHANGED acked
  /\ UNCHANGED <<running, now, epoch, generation, dom, intents, last, planning, used,
                 changes>>

-----------------------------------------------------------------------------
(* Fabric::ingest, one sample of the batch at a time *)

SameKey(s, e) == Key(s) = Key(e)

\* Mutant: the same sample again counts as newer.
NewerOrSame(s, e) ==
  \/ s.generation > e.generation
  \/ /\ s.generation = e.generation
     /\ s.sequence >= e.sequence

\* A duplicate, a replay or an out-of-order delivery is not newer.
Newer(s, e) ==
  \/ s.generation > e.generation
  \/ /\ s.generation = e.generation
     /\ s.sequence # 0 /\ e.sequence # 0
     /\ s.sequence > e.sequence

\* Mutant: the window has no bound.
FitsAlways(s) == TRUE

Fits(s) ==
  \/ \E e \in evidence : SameKey(s, e)
  \/ Cardinality(evidence) < MaxEvidence

\* Mutant: the epoch of the sample is not looked at.
AdmittedAnyEpoch(s) ==
  /\ \E r \in publishers : By(r) = By(s) /\ s.generation >= r.lastGeneration
  /\ By(s) \notin fences

\* Minted in this epoch by the incarnation that is registered, not fenced, and
\* of a generation it has not passed.
Admitted(s) ==
  /\ s.epoch = epoch
  /\ \E r \in publishers : By(r) = By(s) /\ s.generation >= r.lastGeneration
  /\ By(s) \notin fences

\* The registration follows the sample's generation.
Seen(s) ==
  {[r EXCEPT !.lastGeneration =
      IF By(r) = By(s) /\ s.generation > @ THEN s.generation ELSE @] : r \in publishers}

Ingest(s) ==
  /\ running
  /\ Admitted(s)
  /\ Fits(s)
  /\ \A e \in evidence : SameKey(s, e) => Newer(s, e)
  /\ evidence' = {e \in evidence : ~SameKey(s, e)} \cup {s}
  /\ publishers' = Seen(s)
  /\ UNCHANGED <<running, now, epoch, generation, fences, dom, intents, last, planning,
                 disk, acked, used, changes, faults>>

\* A heartbeat sample counts for the registration only.
IngestHeartbeat(s) ==
  /\ running
  /\ Admitted(s)
  /\ publishers' = Seen(s)
  /\ UNCHANGED <<running, now, epoch, generation, fences, evidence, dom, intents, last,
                 planning, disk, acked, used, changes, faults>>

-----------------------------------------------------------------------------
(* Evaluation *)

Fresh(t) == now - t <= MaxAge

Current == {s \in evidence : s.epoch = epoch /\ Fresh(s.tick)}

Contradicted ==
  \E s, e \in Current : /\ s.resource = e.resource
                        /\ s.publisher # e.publisher
                        /\ s.level # e.level

\* CongestionEvaluator::evaluate up to the hysteresis: a resource without
\* evidence has no say.
Propose ==
  LET top == CHOOSE v \in Levels :
               /\ \E s \in Current : s.level = v
               /\ \A s \in Current : s.level <= v
  IN  CASE Contradicted -> [value |-> FALSE, why |-> "Conflict"]
        [] Current = {} -> [value |-> FALSE, why |-> "Unknown"]
        [] OTHER -> [value |-> TRUE, up |-> top, down |-> top]

SeenNow ==
  {[resource |-> s.resource, tick |-> s.tick] :
     s \in {s \in Current : \A e \in Current : e.resource = s.resource => e.tick <= s.tick}}

OutcomeOf(d, p) ==
  [authoritative |-> OutcomeAuthoritative(d, p), state |-> d.state, seen |-> SeenNow]

\* Mutant: a domain that lost its authority keeps its interventions.
KeepIntents(o) == intents

\* What was planned does not survive an outcome without authority.
Surviving(o) == IF o.authoritative THEN intents ELSE {}

\* Fabric::evaluate_locked. When the store fails the new state is in force
\* and the outcome is not recorded. With hold, the caller is plan().
Evaluate(hold) ==
  /\ running
  /\ hold => planning = {}
  /\ LET p == Propose
         d == Evaluated(dom, p, policy, now)
         o == OutcomeOf(d, p)
     IN  /\ dom' = d
         /\ intents' = Surviving(o)
         /\ \/ /\ disk' = Holding(disk.epoch, disk.fences, d)
               /\ last' = {o}
               /\ planning' = IF hold THEN {o} ELSE planning
               /\ UNCHANGED faults
            \/ /\ Fault
               /\ disk' \in {disk, Holding(disk.epoch, disk.fences, d)}
               /\ UNCHANGED <<last, planning>>
  /\ UNCHANGED <<running, now, epoch, generation, publishers, fences, evidence, acked,
                 used, changes>>

-----------------------------------------------------------------------------
(* Planning *)

\* evidence_within_freshness: the newest tick of the whole outcome.
EvidenceWithinFreshness(o) == \E x \in o.seen : Fresh(x.tick)

\* InterventionPlanner::plan for one rule, whose interventions do not expire.
Authorized(o) ==
  {[resource |-> x.resource, epoch |-> epoch, generation |-> generation] :
     x \in {x \in o.seen : /\ o.authoritative
                           /\ SeverityOf(o.state) >= AtLeast
                           /\ EvidenceWithinFreshness(o)
                           /\ \A i \in intents : i.resource # x.resource}}

\* Fabric::plan_outcome_locked. When the store fails nothing is emitted.
PlanOutcome(o) ==
  /\ \/ intents' = intents \cup Authorized(o) /\ UNCHANGED faults
     \/ Authorized(o) # {} /\ Fault /\ UNCHANGED intents
  /\ UNCHANGED <<running, now, epoch, generation, publishers, fences, evidence, dom, last,
                 disk, acked, used, changes>>

\* The second half of plan().
PlanHeld ==
  /\ running
  /\ planning' = {}
  /\ \E o \in planning : PlanOutcome(o)

PlanLast ==
  /\ running
  /\ \E o \in last : PlanOutcome(o)
  /\ UNCHANGED planning

-----------------------------------------------------------------------------
(* Authority *)

\* Mutant: outstanding interventions survive the change.
IntentsOutlive == intents

IntentsAfterChange == {}

\* set_policy and set_topology: invalidate_generations_locked.
ChangeAuthority ==
  /\ running
  /\ Change
  /\ generation' = generation + 1
  /\ intents' = IntentsAfterChange
  /\ dom' = Invalidate(dom)
  /\ UNCHANGED <<running, now, epoch, publishers, fences, evidence, last, planning, disk,
                 acked, used, faults>>

\* Everything bound to the epoch is fenced in memory first; then the epoch,
\* the fences and the domain are written, in that order, until a write fails.
AdvanceEpoch ==
  LET gone == {By(r) : r \in publishers}
      d == DemoteForEpoch(dom)
  IN  /\ running
      /\ Change
      /\ epoch' = epoch + 1
      /\ generation' = generation + 1
      /\ publishers' = {} /\ evidence' = {}
      /\ intents' = IntentsAfterChange
      /\ fences' = fences \cup gone
      /\ dom' = d
      /\ \/ /\ disk' = Holding(epoch', disk.fences \cup gone, d)
            /\ acked' = acked \cup gone
            /\ UNCHANGED faults
         \/ /\ Fault
            /\ \/ disk' = disk
               \/ \E some \in SUBSET gone :
                    disk' = Holding(epoch', disk.fences \cup some, disk.dom)
               \/ disk' = Holding(epoch', disk.fences \cup gone, d)
            /\ UNCHANGED acked
      /\ UNCHANGED <<running, now, last, planning, used>>

-----------------------------------------------------------------------------

\* What a publisher may have minted up to now.
Deliverable ==
  {[publisher |-> m[1], boot |-> b, resource |-> r, epoch |-> e, generation |-> m[2],
    sequence |-> m[3], level |-> m[4], tick |-> t] :
     m \in Mints, b \in Boots, r \in Resources, e \in 1..epoch, t \in 1..now}

Next ==
  \/ Tick \/ Open \/ OpenFails \/ Stop
  \/ \E p \in Publishers, b \in Boots :
       \/ RegisterPublisher(p, b)
       \/ UnregisterPublisher(p, b)
       \/ FencePublisher(p, b)
  \/ \E s \in Deliverable : Ingest(s) \/ IngestHeartbeat(s)
  \/ \E hold \in BOOLEAN : Evaluate(hold)
  \/ PlanHeld \/ PlanLast
  \/ ChangeAuthority \/ AdvanceEpoch

Spec == Init /\ [][Next]_vars

-----------------------------------------------------------------------------
(* Properties *)

\* A fence that was reported durable is in force whenever the fabric runs,
\* after any number of restarts, and a fence in force leaves the incarnation
\* without a registration and without evidence, whatever order registrations,
\* deliveries, deaths and epoch advances came in.
FenceHolds ==
  /\ running => acked \subseteq fences
  /\ \A f \in fences : /\ \A r \in publishers : By(r) # f
                       /\ \A s \in evidence : By(s) # f

\* No sample and no registration outlives the epoch it belongs to.
EpochBound ==
  /\ \A r \in publishers : r.epoch = epoch
  /\ \A s \in evidence : s.epoch = epoch

\* An authority change invalidates what was authorized before it: every
\* outstanding intervention is bound to the epoch and generation in force.
IntentsBound ==
  \A i \in intents : i.epoch = epoch /\ i.generation = generation

\* What a step leaves standing of the interventions, it leaves to a domain that
\* has authority: no evaluation, policy change, epoch advance or restart takes
\* the authority away and forgets the interventions.
IntentsFallWithAuthority ==
  [][dom' # dom /\ intents' \cap intents # {}
       => IsAuthoritative(dom'.state) /\ ~dom'.flag]_vars

\* What the window holds about a resource from a publisher is replaced only by
\* a later generation, or a later sequence number of the same one, through
\* registrations that come, go and are repeated: no replay takes effect.
EvidenceNeverRegresses ==
  [][\A e \in evidence, s \in evidence' :
       Key(s) = Key(e) /\ s # e
         => \/ s.generation > e.generation
            \/ s.generation = e.generation /\ s.sequence > e.sequence]_vars

\* As long as the store does not fail, no process runs in an epoch that an
\* earlier one used.
EpochFresh == running /\ faults = 0 => epoch \notin used

-----------------------------------------------------------------------------
(* What makes FenceHolds, EpochBound, IntentsBound and EpochFresh inductive *)

\* The shape of what EXCEPT updates.
Shape ==
  /\ epoch \in Nat /\ faults \in Nat
  /\ publishers \in SUBSET Registration
  /\ disk.epoch \in Nat
  /\ used \in SUBSET Nat

\* Nothing of the former process is left when the next one opens.
DownInv == ~running => publishers = {} /\ evidence = {} /\ intents = {}

\* The store holds every fence it reported.
FenceInv == acked \subseteq disk.fences

\* The store holds the epoch in force, unless it failed.
EpochInv ==
  faults = 0 => /\ running => disk.epoch = epoch /\ \A u \in used : u < epoch
                /\ \A u \in used : u <= disk.epoch

IInv ==
  /\ Shape /\ DownInv /\ FenceInv /\ EpochInv
  /\ FenceHolds /\ EpochBound /\ IntentsBound

-----------------------------------------------------------------------------
(* What the repository says of the program and the program does not do *)

\* "UNKNOWN, STALE and CONFLICT ... suppress every corrective intent", and a
\* state that requires revalidation "never authorizes corrective action".
NoIntentWithoutAuthority ==
  intents # {} => IsAuthoritative(dom.state) /\ ~dom.flag
=============================================================================
