---------------------------- MODULE Propagation ----------------------------
(***************************************************************************)
(* The propagation engine (src/eval/propagation.cpp): pressure spreads     *)
(* from the congested resources along links and paths, breadth first, and  *)
(* loses strength with every hop.                                          *)
(*                                                                         *)
(* Ratios are parts of Unit, a million in the code.                        *)
(***************************************************************************)
EXTENDS Hysteresis, Topology

CONSTANT Unit

ASSUME UnitAssumption == Unit \in Nat /\ Unit >= 3

\* PropagationPolicy, as validate_policy accepts it.
PropagationPolicy ==
  [enabled : BOOLEAN, depth : 0..MaxResourceDepth, decay : 0..Unit, min : Nat,
   cap : Severity, links : BOOLEAN, paths : BOOLEAN]

\* severity_pressure_ppm, the least pressure of a severity.
PressureOf(v) == <<0, Unit \div 3, (2 * Unit) \div 3, Unit>>[v + 1]

PressureToSeverity(p) ==
  CHOOSE v \in Severity :
    PressureOf(v) <= p /\ \A u \in Severity : PressureOf(u) <= p => u <= v

\* The next hop after the first place of r on a path, if there is one.
NextHop(t, r, i) ==
  LET hops == t.paths[i].hops
      at == SelectInSeq(hops, LAMBDA h : h = r)
  IN  IF at < Len(hops) THEN {<<hops[at + 1], t.paths[i].id>>} ELSE {}

\* The places pressure flows to from r, each with the path it takes.
NeighbourSet(t, r, g) ==
  {<<s, None>> : s \in IF g.links THEN Successors(t, r) ELSE {}}
    \cup UNION {NextHop(t, r, i) : i \in IF g.paths THEN ResourcePaths(t, r) ELSE {}}

Before(x, y) == x[1] < y[1] \/ (x[1] = y[1] /\ x[2] < y[2])

\* The elements of S in ascending order, each after those that come before it.
\* This is SetToSortSeq, defined so that proofs can expand it.
Sorted(S, before(_, _)) ==
  [i \in 1..Cardinality(S) |-> CHOOSE x \in S : Cardinality({y \in S : before(y, x)}) = i - 1]

Neighbours(t, r, g) == Sorted(NeighbourSet(t, r, g), Before)

-----------------------------------------------------------------------------
(* PropagationEngine::propagate *)

\* best holds the strongest pressure that reached each resource, how far it
\* came, from which resource and by which path.
NoTarget == [pressure |-> 0, hops |-> 0, from |-> None, path |-> None]

\* Stronger, or as strong and from a lower resource or path.
Replaces(new, old) ==
  \/ new.pressure > old.pressure
  \/ new.pressure = old.pressure /\ Before(<<new.from, new.path>>, <<old.from, old.path>>)

\* The neighbours of a frontier in the order in which they are looked at.
Outward(t, frontier, g) ==
  FlattenSeq([i \in DOMAIN frontier |->
    LET n == Neighbours(t, frontier[i][1], g)
    IN  [j \in DOMAIN n |-> [from |-> frontier[i][1], to |-> n[j][1], path |-> n[j][2],
                             pressure |-> (frontier[i][2] * g.decay) \div Unit]]])

\* One neighbour: a resource is visited once, and pressure that is too weak
\* ends there.
Visit(g, hops, at, e) ==
  LET seen == [at EXCEPT !.visited = @ \cup {e.to}]
      target == [pressure |-> e.pressure, hops |-> hops, from |-> e.from, path |-> e.path]
  IN  IF e.to \in at.visited THEN at
      ELSE IF e.pressure < g.min \/ PressureToSeverity(e.pressure) = Clear THEN seen
      ELSE [seen EXCEPT !.best[e.to] = IF Replaces(target, @) THEN target ELSE @,
                        !.frontier = Append(@, <<e.to, e.pressure>>)]

\* The neighbours of the frontier, and the frontier they make.
Level(t, g, hops, at) ==
  FoldLeft(LAMBDA a, e : Visit(g, hops, a, e), [at EXCEPT !.frontier = <<>>],
           Outward(t, at.frontier, g))

\* Mutant: a resource that one source reached is not visited from the next.
SpreadShared(t, g, at, s, v) ==
  LET level[d \in 0..g.depth] ==
        IF d = 0
        THEN [at EXCEPT !.visited = @ \cup {s}, !.frontier = << <<s, PressureOf(v)>> >>]
        ELSE Level(t, g, d, level[d - 1])
  IN  level[g.depth]

\* Breadth first from one source.
Spread(t, g, at, s, v) ==
  LET level[d \in 0..g.depth] ==
        IF d = 0
        THEN [at EXCEPT !.visited = {s}, !.frontier = << <<s, PressureOf(v)>> >>]
        ELSE Level(t, g, d, level[d - 1])
  IN  level[g.depth]

Best(t, sources, g) ==
  LET from == {s \in DOMAIN sources : sources[s] # Clear /\ s \in ResourceIds(t)}
      none == [visited |-> {}, frontier |-> <<>>, best |-> [r \in ResourceIds(t) |-> NoTarget]]
  IN  FoldLeft(LAMBDA a, s : Spread(t, g, a, s, sources[s]), none,
               Sorted(from, <)).best

Capped(v, cap) == IF v > cap THEN cap ELSE v

\* Mutant: whatever is induced has the severity of the cap.
InducedAtCap(g, p) == IF PressureToSeverity(p) = Clear THEN Clear ELSE g.cap

Induced(g, p) == Capped(PressureToSeverity(p), g.cap)

\* The edges in ascending order of their resource, at most maxEdges of them.
\* sources maps resources to severities.
Propagate(t, sources, g, maxEdges) ==
  LET best == Best(t, sources, g)
      induced(r) == Induced(g, best[r].pressure)
      reached == {r \in ResourceIds(t) : induced(r) # Clear}
      order == Sorted(reached, <)
  IN  IF ~g.enabled \/ g.depth = 0 THEN <<>>
      ELSE [i \in 1..Capped(Len(order), maxEdges) |->
              [to |-> order[i], induced |-> induced(order[i]), edge |-> best[order[i]]]]

-----------------------------------------------------------------------------
(* What propagation computes *)

\* The resources within n hops of s.
Within(t, g, s) ==
  LET ball[n \in 0..g.depth] ==
        IF n = 0 THEN {s}
        ELSE ball[n - 1] \cup UNION {{x[1] : x \in NeighbourSet(t, r, g)} : r \in ball[n - 1]}
  IN  ball

\* What is left of v after n hops.
Decayed(g, v) ==
  LET p[n \in 0..g.depth] == IF n = 0 THEN PressureOf(v) ELSE (p[n - 1] * g.decay) \div Unit
  IN  p

\* The sources whose pressure reaches r, each with its distance from r.
Arrivals(t, sources, g, r) ==
  {a \in (DOMAIN sources) \X (1..g.depth) :
     /\ sources[a[1]] # Clear
     /\ r \in Within(t, g, a[1])[a[2]] \ Within(t, g, a[1])[a[2] - 1]
     /\ Decayed(g, sources[a[1]])[a[2]] >= g.min}

\* The target of r tells where the strongest pressure came from: a neighbour
\* of r that is one hop closer to the source.
Explains(t, sources, g, r, target) ==
  \E a \in Arrivals(t, sources, g, r) :
    /\ target.hops = a[2]
    /\ target.pressure = Decayed(g, sources[a[1]])[a[2]]
    /\ target.from \in Within(t, g, a[1])[a[2] - 1]
    /\ <<r, target.path>> \in NeighbourSet(t, target.from, g)
    /\ \A b \in Arrivals(t, sources, g, r) :
         Decayed(g, sources[b[1]])[b[2]] <= target.pressure

\* The edges are those that the definition by distances demands.
Matches(t, sources, g) ==
  LET edges == Propagate(t, sources, g, Cardinality(ResourceIds(t)))
      felt(r) == {a \in Arrivals(t, sources, g, r) :
                    PressureToSeverity(Decayed(g, sources[a[1]])[a[2]]) # Clear}
  IN  /\ \A i \in DOMAIN edges :
           /\ Explains(t, sources, g, edges[i].to, edges[i].edge)
           /\ edges[i].induced = Min({g.cap, PressureToSeverity(edges[i].edge.pressure)})
      /\ {edges[i].to : i \in DOMAIN edges} =
           IF g.enabled /\ g.cap # Clear THEN {r \in ResourceIds(t) : felt(r) # {}} ELSE {}
=============================================================================
