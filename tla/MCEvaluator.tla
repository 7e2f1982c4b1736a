---------------------------- MODULE MCEvaluator ----------------------------
(***************************************************************************)
(* Instances of Evaluator for TLC: resources 1 and 2 are the members of    *)
(* domain 1, resource 3 belongs to domain 2, and 9 does not exist.         *)
(***************************************************************************)
EXTENDS Evaluator

MCMetrics == {"utilization", "headroom"}

Utilization ==
  [metric |-> "utilization", op |-> "AtLeast", watch |-> 10, congested |-> 20, severe |-> 30,
   required |-> TRUE, maxAge |-> 0]
Headroom ==
  [metric |-> "headroom", op |-> "AtMost", watch |-> 20, congested |-> 10, severe |-> 5,
   required |-> TRUE, maxAge |-> 2]

\* Corroborated, no contradictions, all rules agree on a downgrade.
Strict ==
  [rules |-> <<Utilization, Headroom>>,
   ladder |-> [escalate |-> 1, deescalate |-> 1, dwell |-> 0, dwellOnEscalation |-> FALSE,
               recovery |-> FALSE, improved |-> 1, single |-> TRUE, clear |-> 1, hold |-> 0],
   margin |-> 100, requireAll |-> TRUE, gates |-> <<1, 2, 2>>, maxAge |-> 1, skew |-> 1,
   mode |-> "Reject", absolute |-> 4, relative |-> 200, distinct |-> 2, order |-> <<>>,
   propagation |-> [enabled |-> TRUE, depth |-> 2, decay |-> 700, min |-> 0, cap |-> Severe,
                    links |-> TRUE, paths |-> TRUE],
   maxEntries |-> 2]

\* Publisher 2 ranks highest, and any rule will do for Congested.
Loose ==
  [Strict EXCEPT !.requireAll = FALSE, !.gates = <<1, 1, 2>>,
                 !.mode = "PreferHighestPriority", !.order = <<2>>,
                 !.rules = <<Utilization, [Headroom EXCEPT !.required = FALSE]>>,
                 !.propagation.links = FALSE, !.propagation.decay = 1000,
                 !.propagation.min = 400, !.propagation.cap = Watch]

MCPolicies == {Strict, Loose}

Values(u, h) == [m \in MCMetrics |-> IF m = "utilization" THEN u ELSE h]
Only(m, v) == [x \in {m} |-> v]

Report(p, r, k, ahead, V) ==
  {[publisher |-> p, resource |-> r, queue |-> k, ahead |-> ahead, values |-> v] : v \in V}

\* Everything severe, healthy, within the margin of the next severity, further
\* from severe than one tolerance but not than both together, or one metric.
MCObservations ==
  Report(1, 1, 1, 0, {Values(30, 5), Values(5, 40), Only("utilization", 30)})
    \cup Report(1, 1, 1, 2, {Values(5, 40)})
    \cup Report(1, 1, 2, 0, {Values(18, 21)})
    \cup Report(2, 1, 1, 0, {Values(23, 8)})
    \cup Report(1, 2, 1, 0, {Values(5, 40), Values(20, 10), Only("headroom", 40)})

Resource(r, parent, d) == [id |-> r, parent |-> parent, domain |-> d, depth |-> 0]
Link(l, a, b) == [id |-> l, from |-> a, to |-> b]

\* The links between the pairs of S, with a name each.
Links(S) ==
  LET s == SetToSeq(S) IN [i \in DOMAIN s |-> Link(i, s[i][1], s[i][2])]

Base == [resources |-> <<Resource(1, 0, 1), Resource(2, 1, 1), Resource(3, 1, 2)>>,
         links |-> <<Link(1, 1, 3), Link(0, 2, 1)>>, paths |-> <<[id |-> 1, hops |-> <<3, 2>>]>>]

\* Every containment of the three resources, every set of links without and
\* with a path that visits a resource twice, links without names, and every
\* other defect once.
MCCandidates ==
  {[Base EXCEPT !.resources = <<Resource(1, a, 1), Resource(2, b, 1), Resource(3, c, 2)>>] :
     a, b, c \in {0, 1, 2, 3, 9}}
  \cup {[Base EXCEPT !.links = Links(l), !.paths = p] :
          l \in SUBSET {<<1, 2>>, <<2, 1>>, <<1, 3>>, <<3, 1>>, <<2, 3>>, <<3, 2>>},
          p \in {<<>>, <<[id |-> 1, hops |-> <<1, 2, 1, 3>>], [id |-> 2, hops |-> <<3, 2>>]>>}}
  \cup {[Base EXCEPT !.resources = <<Resource(0, 0, 1)>>],
        [Base EXCEPT !.resources[2] = Resource(1, 0, 1)],
        [Base EXCEPT !.resources[2] = Resource(2, 0, 0)],
        [Base EXCEPT !.resources[3].depth = MaxResourceDepth],
        [Base EXCEPT !.resources[3].depth = MaxResourceDepth + 1],
        [Base EXCEPT !.links = <<Link(1, 1, 9)>>], [Base EXCEPT !.links = <<Link(1, 9, 1)>>],
        [Base EXCEPT !.links = <<Link(0, 1, 3), Link(0, 2, 1), Link(1, 1, 2)>>],
        [Base EXCEPT !.links = <<Link(1, 1, 3), Link(0, 2, 1), Link(1, 1, 2)>>],
        [Base EXCEPT !.paths = <<[id |-> 0, hops |-> <<1>>]>>],
        [Base EXCEPT !.paths = <<[id |-> 1, hops |-> <<1>>], [id |-> 1, hops |-> <<2>>]>>],
        [Base EXCEPT !.paths = <<[id |-> 1, hops |-> <<>>]>>],
        [Base EXCEPT !.paths = <<[id |-> 1, hops |-> <<1, 9>>]>>],
        [Base EXCEPT !.paths = <<[id |-> 1, hops |-> <<1, 2, 3, 1, 2>>]>>]}

\* Evaluations are explored with one topology and without any; the others are
\* only offered.
Explored == offered = topology /\ topology \in {NoTopology, Base}
=============================================================================
