----------------------------- MODULE Evaluator -----------------------------
(***************************************************************************)
(* The congestion evaluator (src/eval/evaluator.cpp): from the samples in  *)
(* the Fabric's window to the severity proposal that moves a domain, by    *)
(* way of freshness, contradiction, thresholds, corroboration, propagation *)
(* and aggregation.  The Fabric of this module is reduced to what feeds    *)
(* the evaluator: the window, the topology, the clock and the domain.      *)
(*                                                                         *)
(* The window holds one sample for each resource, queue and publisher and  *)
(* no heartbeat (Fabric::ingest), so no publisher has two readings of a    *)
(* key and no snapshot comes twice.  Epochs and registrations are in the   *)
(* module Fabric.  Fabric never asks for a single resource.                *)
(***************************************************************************)
EXTENDS Propagation

CONSTANTS
  Domain,       \* the domain under evaluation
  Metrics,      \* the kinds of metrics
  Policies,     \* the policies in force, one in every behaviour
  Candidates,   \* the topologies an operator offers
  Observations, \* bound: what publishers report, and how far their clock is ahead
  MaxPeers,     \* limits::kMaxContradictionPeers
  MaxEvidence,  \* FabricOptions::max_evidence_entries
  MaxTick       \* bound: the clock

\* ThresholdRule; the weight, which must be positive, has no other effect.
Rule ==
  [metric : Metrics, op : {"AtLeast", "AtMost"}, watch : Nat, congested : Nat, severe : Nat,
   required : BOOLEAN, maxAge : Nat]

\* CongestionPolicy without its intervention rules. gates are the
\* min_agreeing_rules_for_watch, _congested and _severe.
CongestionPolicy ==
  [rules : Seq(Rule), ladder : Policy, margin : 0..Unit, requireAll : BOOLEAN,
   gates : Seq(Nat), maxAge : Nat, skew : Nat,
   mode : {"Reject", "PreferHighestPriority", "PreferNewest"}, absolute : Nat,
   relative : 0..Unit, distinct : Nat, order : Seq(Nat),
   propagation : PropagationPolicy, maxEntries : Nat]

\* validate_policy, of a rule.
ValidRule(q, u) ==
  /\ IF u.op = "AtLeast" THEN u.watch <= u.congested /\ u.congested <= u.severe
     ELSE u.severe <= u.congested /\ u.congested <= u.watch
  /\ u.maxAge <= q.maxAge * 1000 + 1

\* validate_policy, of the corroboration gates. Those of Congested and Severe
\* may be 0, which switches the severity off.
ValidGates(q) ==
  /\ Len(q.gates) = 3 /\ q.gates[1] > 0 /\ q.gates[2] <= q.gates[3]
  /\ \A v \in Watch..Severe : q.gates[v] <= Len(q.rules)

\* validate_policy.
ValidPolicy(q) ==
  /\ q \in CongestionPolicy
  /\ q.rules # <<>>
  /\ \A i, j \in DOMAIN q.rules : q.rules[i].metric = q.rules[j].metric => i = j
  /\ \A i \in DOMAIN q.rules : ValidRule(q, q.rules[i])
  /\ q.maxAge > 0 /\ q.skew <= q.maxAge
  /\ q.distinct >= 2
  /\ q.maxEntries > 0
  /\ ValidGates(q)

ASSUME EvaluatorAssumption ==
  /\ Policies # {} /\ \A q \in Policies : ValidPolicy(q)
  /\ \A o \in Observations :
       /\ {o.publisher, o.queue, o.ahead} \subseteq Nat
       /\ o.resource \in Nat \ {None}
       /\ DOMAIN o.values \subseteq Metrics
       /\ \A m \in DOMAIN o.values : o.values[m] \in Nat
  /\ \A t \in Candidates : t \in Snapshot(Nat, Nat)
  /\ {MaxPeers, MaxEvidence, MaxTick} \subseteq Nat \ {0}

VARIABLES
  now,      \* Clock::now()
  policy,   \* Fabric::policy_
  topology, \* Fabric::topology_
  offered,  \* the topology that was offered last
  window,   \* Fabric::evidence_, as the set of its samples
  dom       \* Fabric::domains_ at Domain

vars == <<now, policy, topology, offered, window, dom>>

\* No topology is installed.
NoTopology == [resources |-> <<>>, links |-> <<>>, paths |-> <<>>]

-----------------------------------------------------------------------------
(* Sample admission *)

\* CongestionPolicy::max_age_for.
MaxAgeFor(q, m) ==
  LET own == {i \in DOMAIN q.rules : q.rules[i].metric = m /\ q.rules[i].maxAge # 0}
  IN  IF own = {} THEN q.maxAge ELSE q.rules[Min(own)].maxAge

\* The sample has a reading of m that is neither too old nor too far ahead.
Usable(q, s, m, t) ==
  /\ m \in DOMAIN s.values
  /\ IF s.tick > t THEN s.tick - t <= q.skew ELSE t - s.tick <= MaxAgeFor(q, m)

\* The readings of a metric for one queue: a reading from ahead of the clock
\* counts as one of now, and publishers beyond MaxPeers are left out.
Readings(q, w, t, r, k, m) ==
  LET all == {[publisher |-> s.publisher, value |-> s.values[m], tick |-> Capped(s.tick, t)] :
                s \in {x \in w : x.resource = r /\ x.queue = k /\ Usable(q, x, m, t)}}
  IN  {x \in all : Cardinality({y \in all : y.publisher < x.publisher}) < MaxPeers}

Queues(w, r) == {s.queue : s \in {x \in w : x.resource = r}}

-----------------------------------------------------------------------------
(* Contradiction detection *)

\* apply_ppm
Portion(n, part) == (n \div Unit) * part + ((n % Unit) * part) \div Unit

\* Mutant: the tolerances add up.
DisagreeAdded(q, R) ==
  LET values == {x.value : x \in R}
  IN  /\ Cardinality(R) >= q.distinct
      /\ Max(values) - Min(values) > q.absolute + Portion(Max(values), q.relative)

\* The readings of different publishers lie further apart than is tolerated.
Disagree(q, R) ==
  LET values == {x.value : x \in R}
  IN  /\ Cardinality(R) >= q.distinct
      /\ Max(values) - Min(values) > Max({q.absolute, Portion(Max(values), q.relative)})

Unresolved(q, w, t, r, m) ==
  /\ q.mode = "Reject"
  /\ \E k \in Queues(w, r) : Disagree(q, Readings(q, w, t, r, k, m))

\* reading_better: the newest reading, from the lowest publisher.
Newest(R) ==
  CHOOSE x \in R : \A y \in R :
    x.tick > y.tick \/ (x.tick = y.tick /\ x.publisher <= y.publisher)

\* The reading that stands for the queue: of publishers that disagree the one
\* that ranks highest, if the policy says so and ranks one of them.
Chosen(q, R) ==
  LET rank(x) == SelectInSeq(q.order, LAMBDA p : p = x.publisher)
      ranked == {x \in R : rank(x) # 0}
  IN  IF q.mode = "PreferHighestPriority" /\ Disagree(q, R) /\ ranked # {}
      THEN CHOOSE x \in ranked : \A y \in ranked : rank(x) <= rank(y)
      ELSE Newest(R)

-----------------------------------------------------------------------------
(* Per-resource classification *)

\* Mutant: the margin lowers the thresholds of either kind of rule.
ScaledDown(u, threshold, margin) == threshold - Portion(threshold, margin)

\* scale_down_by_margin and scale_up_by_margin.
Scaled(u, threshold, margin) ==
  IF u.op = "AtLeast" THEN threshold - Portion(threshold, margin)
  ELSE threshold + Portion(threshold, margin)

\* classify_rule_with_margin
Classify(u, value, margin) ==
  LET meets(threshold) == IF u.op = "AtLeast" THEN value >= Scaled(u, threshold, margin)
                          ELSE value <= Scaled(u, threshold, margin)
  IN  CASE meets(u.severe) -> Severe
        [] ~meets(u.severe) /\ meets(u.congested) -> Congested
        [] ~meets(u.severe) /\ ~meets(u.congested) /\ meets(u.watch) -> Watch
        [] OTHER -> Clear

\* What the queues of r say to rule u, at most one reading each.
Verdicts(q, w, t, r, u) ==
  {LET x == Chosen(q, Readings(q, w, t, r, k, u.metric))
   IN  [queue |-> k, tick |-> x.tick, up |-> Classify(u, x.value, 0),
        down |-> Classify(u, x.value, q.margin)] :
     k \in {j \in Queues(w, r) : Readings(q, w, t, r, j, u.metric) # {}}}

\* The queue that decides: the worst, then the newest, then the lowest.
Worst(V) ==
  CHOOSE x \in V : \A y \in V :
    \/ x.up > y.up
    \/ x.up = y.up /\ x.tick > y.tick
    \/ x.up = y.up /\ x.tick = y.tick /\ x.queue <= y.queue

\* Mutant: one rule suffices for every severity.
GateUngated(q, count) ==
  Max({Clear} \cup {v \in Watch..Severe : q.gates[v] # 0 /\ count[v] >= 1})

\* gate_severity: the highest severity that enough rules agree on.
Gate(q, count) ==
  Max({Clear} \cup {v \in Watch..Severe : q.gates[v] # 0 /\ count[v] >= q.gates[v]})

\* Mutant: a resource counts as covered by any of the required metrics.
CoverageOfAny(q, present, contradictory) ==
  CASE present = {} /\ ~contradictory -> "None"
    [] present # {} /\ (\E i \in present : q.rules[i].required) -> "Full"
    [] OTHER -> "Partial"

CoverageOf(q, present, contradictory) ==
  CASE present = {} /\ ~contradictory -> "None"
    [] present # {} /\ (\A i \in DOMAIN q.rules : q.rules[i].required => i \in present) -> "Full"
    [] OTHER -> "Partial"

\* ResourceAssessment
Assess(q, w, t, r) ==
  LET split == {i \in DOMAIN q.rules : Unresolved(q, w, t, r, q.rules[i].metric)}
      verdicts == [i \in DOMAIN q.rules \ split |-> Verdicts(q, w, t, r, q.rules[i])]
      present == {i \in DOMAIN verdicts : verdicts[i] # {}}
      rule == [i \in present |-> Worst(verdicts[i])]
      up == Gate(q, [v \in Watch..Severe |-> Cardinality({i \in present : rule[i].up >= v})])
      down == IF q.requireAll THEN Max({Clear} \cup {rule[i].down : i \in present})
              ELSE Gate(q, [v \in Watch..Severe |->
                              Cardinality({i \in present : rule[i].down >= v})])
  IN  [up |-> up, down |-> Max({up, down}), contradictory |-> split # {},
       coverage |-> CoverageOf(q, present, split # {})]

-----------------------------------------------------------------------------
(* Domain aggregation *)

\* The scope of an evaluation; without a topology, whatever has a sample.
Members(top, w) ==
  IF top = NoTopology THEN {s.resource : s \in w} ELSE DomainResources(top, Domain)

\* The severities of the resources, raised to what propagation induces.
Raised(q, top, a) ==
  LET edges == IF top = NoTopology THEN <<>>
               ELSE Propagate(top, [r \in DOMAIN a |-> a[r].up], q.propagation, q.maxEntries)
      induced(r) == {edges[i].induced : i \in {j \in DOMAIN edges : edges[j].to = r}}
  IN  [r \in DOMAIN a |-> [a[r] EXCEPT !.up = Max({@} \cup induced(r)),
                                       !.down = Max({@} \cup induced(r))]]

\* The aggregate over the resources that have evidence. Incomplete coverage
\* keeps both directions at Watch at least.
Aggregate(q, a) ==
  LET heard == {r \in DOMAIN a : a[r].coverage # "None"}
      partial == /\ \E i \in DOMAIN q.rules : q.rules[i].required
                 /\ \E r \in heard : a[r].coverage = "Partial"
      floor == IF partial THEN {Watch} ELSE {Clear}
      conflict == \E r \in DOMAIN a : a[r].contradictory
  IN  CASE conflict -> [value |-> FALSE, why |-> "Conflict"]
        [] ~conflict /\ heard = {} -> [value |-> FALSE, why |-> "Unknown"]
        [] OTHER -> [value |-> TRUE, up |-> Max(floor \cup {a[r].up : r \in heard}),
                     down |-> Max(floor \cup {a[r].down : r \in heard})]

Assessed == [r \in Members(topology, window) |-> Assess(policy, window, now, r)]

Proposed == Aggregate(policy, Raised(policy, topology, Assessed))

-----------------------------------------------------------------------------
(* The Fabric around the evaluator *)

SampleKey(s) == <<s.resource, s.queue, s.publisher>>

TypeOK ==
  /\ now \in 1..MaxTick
  /\ policy \in Policies
  /\ offered \in Snapshot(Nat, Nat)
  /\ topology \in {offered, NoTopology}
  /\ \A s \in window : \E o \in Observations :
       s.values = o.values /\ SampleKey(s) = SampleKey(o) /\ s.tick \in 1..(now + o.ahead)
  /\ \A s, u \in window : SampleKey(s) = SampleKey(u) => s = u
  /\ Cardinality(window) <= MaxEvidence
  /\ dom \in DomainState

Init ==
  /\ now = 1
  /\ policy \in Policies
  /\ topology = NoTopology /\ offered = NoTopology
  /\ window = {}
  /\ dom = NewDomain

Tick ==
  /\ now < MaxTick
  /\ now' = now + 1
  /\ UNCHANGED <<policy, topology, offered, window, dom>>

\* Mutant: the sample that is replaced stays in the window.
DeliverBeside(o) ==
  LET s == [publisher |-> o.publisher, resource |-> o.resource, queue |-> o.queue,
            values |-> o.values, tick |-> now + o.ahead]
  IN  /\ Cardinality(window) < MaxEvidence
      /\ window' = window \cup {s}
      /\ UNCHANGED <<now, policy, topology, offered, dom>>

\* Fabric::ingest, of a sample that the registration admits and that is newer
\* than the one it replaces. The publisher's clock may be ahead.
Deliver(o) ==
  LET s == [publisher |-> o.publisher, resource |-> o.resource, queue |-> o.queue,
            values |-> o.values, tick |-> now + o.ahead]
      others == {x \in window : SampleKey(x) # SampleKey(s)}
  IN  /\ others # window \/ Cardinality(window) < MaxEvidence
      /\ window' = others \cup {s}
      /\ UNCHANGED <<now, policy, topology, offered, dom>>

\* Fabric::fence_publisher: the evidence of the publisher goes.
Fence(p) ==
  /\ window' = {s \in window : s.publisher # p}
  /\ window' # window
  /\ UNCHANGED <<now, policy, topology, offered, dom>>

\* Fabric::set_topology: refused, or installed and the domain flagged. Bound:
\* one in a behaviour, at the first tick, when the window is empty.
SetTopology(t) ==
  /\ now = 1 /\ window = {} /\ topology = NoTopology
  /\ offered' = t
  /\ IF ValidTopology(t) THEN topology' = t /\ dom' = Invalidate(dom)
     ELSE UNCHANGED <<topology, dom>>
  /\ UNCHANGED <<now, policy, window>>

\* Fabric::evaluate_locked, and CongestionEvaluator::evaluate, which has
\* nothing to say about a domain without resources.
Evaluate ==
  /\ Members(topology, window) # {}
  /\ dom' = Evaluated(dom, Proposed, policy.ladder, now)
  /\ UNCHANGED <<now, policy, topology, offered, window>>

Next ==
  \/ Tick
  \/ \E o \in Observations : Deliver(o)
  \/ \E p \in {o.publisher : o \in Observations} : Fence(p)
  \/ \E t \in Candidates : SetTopology(t)
  \/ Evaluate

Spec == Init /\ [][Next]_vars

-----------------------------------------------------------------------------
(* Properties *)

\* Of what the model has of a topology, one is refused exactly when its
\* containment is not a forest of bounded depth, a recorded depth is beyond the
\* bound, a name is used twice or a link or path leaves it: the climb from every
\* resource finds every cycle, also one that the resource itself is not on.
TopologyExact ==
  offered # NoTopology => (topology = offered <=> Sound(offered))

\* Breadth-first search from one source after the other finds, for every
\* resource, the strongest pressure that any source sends it over the shortest
\* way, and reports a last hop that the topology has; nothing else is induced.
\* Compared once for each topology that is installed.
PropagationMatches ==
  window = {} /\ dom = NewDomain /\ topology # NoTopology =>
    \A sources \in [ResourceIds(topology) -> Severity] :
      Matches(topology, sources, policy.propagation)

\* Propagation is a reasoning step: an evaluation moves the domain as it would
\* without what propagation induces in the domain's members.
PropagationInert ==
  [][dom' # dom /\ window # {} =>
       dom' = Evaluated(dom, Aggregate(policy, Assessed), policy.ladder, now)]_vars

\* Two publishers say of one queue what cannot both be true.
Contradicted(q, w, t) ==
  \E s, u \in w, i \in DOMAIN q.rules :
    LET m == q.rules[i].metric
    IN  /\ s # u /\ s.resource = u.resource /\ s.queue = u.queue
        /\ Usable(q, s, m, t) /\ Usable(q, u, m, t)
        /\ s.values[m] < u.values[m]
        /\ u.values[m] - s.values[m] > q.absolute
        /\ u.values[m] - s.values[m] > Portion(u.values[m], q.relative)
        /\ s.resource \in Members(topology, w)
        /\ Cardinality({x \in w : x.resource = s.resource /\ x.queue = s.queue}) <= MaxPeers

\* Under a policy that rejects contradictions, an evaluation that sees one
\* leaves the domain without authority, however the readings are distributed
\* over queues and ticks, as long as no queue has more than MaxPeers publishers.
ConflictNeverMerged ==
  [][policy.mode = "Reject" /\ policy.distinct = 2 /\ Contradicted(policy, window, now)
       /\ dom' # dom => ~IsAuthoritative(dom'.state)]_vars

\* The rules that a usable sample of r backs at severity v or above.
Backed(q, w, t, r, v) ==
  {i \in DOMAIN q.rules :
     \E s \in w : /\ s.resource = r
                  /\ Usable(q, s, q.rules[i].metric, t)
                  /\ Classify(q.rules[i], s.values[q.rules[i].metric], 0) >= v}

\* A domain rises to Congested or Severe only when usable samples of one of its
\* resources make as many rules agree as the policy demands: one metric alone,
\* several resources with one metric each or pressure from a neighbour do not.
Corroborated ==
  [][dom'.state \in {"Congested", "Severe"} /\ SeverityOf(dom'.state) > SeverityOf(dom.state)
       => \E r \in Members(topology, window), v \in SeverityOf(dom'.state)..Severe :
            /\ policy.gates[v] > 0
            /\ Cardinality(Backed(policy, window, now, r, v)) >= policy.gates[v]]_vars

\* The rules on which some sample of r is usable.
Heard(q, w, t, r) ==
  {i \in DOMAIN q.rules : \E s \in w : s.resource = r /\ Usable(q, s, q.rules[i].metric, t)}

Required(q) == {i \in DOMAIN q.rules : q.rules[i].required}

\* A domain becomes Clear only when each of its resources that reports anything
\* usable reports everything the policy requires.
MissingNotHealthy ==
  [][dom.state # "Clear" /\ dom'.state = "Clear"
       => \A r \in Members(topology, window) :
            Heard(policy, window, now, r) # {}
              => Required(policy) \subseteq Heard(policy, window, now, r)]_vars

\* The only usable sample of r on the metric of rule u.
Sole(q, w, t, r, u) ==
  LET S == {s \in w : s.resource = r /\ Usable(q, s, u.metric, t)}
  IN  IF Cardinality(S) = 1 THEN S ELSE {}

\* The value is at the threshold of v or within the margin of it.
WithinMargin(u, value, margin, v) ==
  LET threshold == <<u.watch, u.congested, u.severe>>[v]
  IN  IF u.op = "AtLeast" THEN value * Unit >= threshold * (Unit - margin)
      ELSE value * Unit <= threshold * (Unit + margin)

\* When every rule must agree on a downgrade, the domain does not fall below
\* the severity that any undisputed reading still has within the margin.
MarginRespected ==
  [][policy.requireAll /\ IsAuthoritative(dom.state) /\ IsAuthoritative(dom'.state)
       /\ SeverityOf(dom'.state) < SeverityOf(dom.state)
       => \A r \in Members(topology, window), i \in DOMAIN policy.rules :
            LET u == policy.rules[i]
            IN  \A s \in Sole(policy, window, now, r, u), v \in Watch..Severe :
                  WithinMargin(u, s.values[u.metric], policy.margin, v)
                    => v <= SeverityOf(dom'.state)]_vars

\* README.md: "Missing evidence never becomes positive authority. Incomplete
\* required coverage floors the domain at WATCH in both directions, so it can
\* never be reported as healthy." Here of a domain that was congested.
HealthyOnlyWhenCovered ==
  [][dom.state \in {"Congested", "Severe"} /\ dom'.state = "Clear"
       => \A r \in Members(topology, window) :
            Required(policy) \subseteq Heard(policy, window, now, r)]_vars
=============================================================================
