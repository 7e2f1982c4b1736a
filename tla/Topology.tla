------------------------------ MODULE Topology ------------------------------
(***************************************************************************)
(* Topology snapshots, their validation and the index built from them      *)
(* (src/model/topology.cpp).                                               *)
(*                                                                         *)
(* A snapshot is its vectors of resources, links and paths.  Identities    *)
(* are natural numbers, 0 the null identity.  Capacities and latencies are *)
(* left out, and with them the bounds on what is plausible of them; so are *)
(* the bounds on the lengths of the three vectors, and fingerprints.       *)
(***************************************************************************)
EXTENDS Integers, Sequences, FiniteSets, SequencesExt

CONSTANTS MaxResourceDepth,   \* limits::kMaxResourceDepth
          MaxResourcesPerPath \* limits::kMaxResourcesPerPath

ASSUME TopologyAssumption ==
  MaxResourceDepth \in Nat /\ MaxResourcesPerPath \in Nat

None == 0

\* TopologySnapshot, of resources and paths named in ids.
Snapshot(ids, domains) ==
  [resources : Seq([id : ids, parent : ids, domain : domains, depth : Nat]),
   links : Seq([id : ids, from : ids, to : ids]),
   paths : Seq([id : ids, hops : Seq(ids)])]

-----------------------------------------------------------------------------
(* TopologyIndex *)

\* TopologyIndex::contains.
ResourceIds(t) == {t.resources[i].id : i \in DOMAIN t.resources}

\* TopologyIndex::resource: the slot that is emplaced first stays.
Record(t, r) == t.resources[SelectInSeq(t.resources, LAMBDA x : x.id = r)]

Parent(t, r) == Record(t, r).parent

\* TopologyIndex::successors, ascending and without duplicates in the code.
Successors(t, r) ==
  {t.links[i].to : i \in {j \in DOMAIN t.links : t.links[j].from = r}}

\* TopologyIndex::resource_paths and path.
ResourcePaths(t, r) == {i \in DOMAIN t.paths : Contains(t.paths[i].hops, r)}

\* TopologyIndex::domain_resources.
DomainResources(t, d) == {r \in ResourceIds(t) : Record(t, r).domain = d}

-----------------------------------------------------------------------------
(* validate_topology *)

Distinct(s) == \A i, j \in DOMAIN s : s[i].id = s[j].id => i = j

\* Any number of links may have the null identity.
DistinctLinks(s) ==
  \A i, j \in DOMAIN s : s[i].id = s[j].id /\ s[i].id # None => i = j

\* The cursor that climbs from r, after n moves; None once it left the forest.
Cursor(t, r) ==
  LET cursor[n \in 0..MaxResourceDepth] ==
        LET at == IF n = 0 THEN r ELSE cursor[n - 1]
        IN  IF at \in ResourceIds(t) THEN Parent(t, at) ELSE None
  IN  cursor

\* Mutant: only the parent itself is looked up.
ContainedParentOnly(t, r) ==
  Parent(t, r) = None \/ Parent(t, r) \in ResourceIds(t) \ {r}

\* The climb ends at a root after at most MaxResourceDepth moves, and meets
\* neither an unknown resource nor r itself.
Contained(t, r) ==
  LET cursor == Cursor(t, r)
  IN  \E n \in 0..MaxResourceDepth :
        /\ cursor[n] = None
        /\ \A m \in 0..(n - 1) : cursor[m] \in ResourceIds(t) \ {r}

\* The depth a resource records is bounded; the containment is not asked.
ValidTopology(t) ==
  /\ t.resources # <<>>
  /\ None \notin ResourceIds(t)
  /\ \A i \in DOMAIN t.resources :
       t.resources[i].domain # None /\ t.resources[i].depth <= MaxResourceDepth
  /\ Distinct(t.resources)
  /\ \A r \in ResourceIds(t) : Contained(t, r)
  /\ \A i \in DOMAIN t.links : {t.links[i].from, t.links[i].to} \subseteq ResourceIds(t)
  /\ DistinctLinks(t.links)
  /\ Distinct(t.paths)
  /\ \A i \in DOMAIN t.paths :
       /\ t.paths[i].id # None
       /\ Len(t.paths[i].hops) \in 1..MaxResourcesPerPath
       /\ ToSet(t.paths[i].hops) \subseteq ResourceIds(t)

-----------------------------------------------------------------------------
(* What validation is for *)

\* A set of resources each of which has its parent in the set.
Cyclic(t) ==
  \E S \in SUBSET ResourceIds(t) : S # {} /\ \A r \in S : Parent(t, r) \in S

\* The least set that holds the parent of r and, with a resource, its parent.
Ancestors(t, r) ==
  LET closed == {S \in SUBSET ResourceIds(t) :
                   /\ Parent(t, r) # None => Parent(t, r) \in S
                   /\ \A x \in S : Parent(t, x) # None => Parent(t, x) \in S}
  IN  {x \in ResourceIds(t) : \A S \in closed : x \in S}

\* The links that have a name.
Named(t) == {i \in DOMAIN t.links : t.links[i].id # None}

\* The containment is a forest over the resources of bounded depth, links and
\* paths stay inside it, and there are as many names as things to name.
Sound(t) ==
  /\ t.resources # <<>>
  /\ Cardinality(ResourceIds(t)) = Len(t.resources)
  /\ \A r \in ResourceIds(t) :
       /\ r # None
       /\ Record(t, r).domain # None /\ Record(t, r).depth <= MaxResourceDepth
       /\ Parent(t, r) \in ResourceIds(t) \cup {None}
  /\ ~Cyclic(t)
  /\ \A r \in ResourceIds(t) : Cardinality(Ancestors(t, r)) <= MaxResourceDepth
  /\ {<<t.links[i].from, t.links[i].to>> : i \in DOMAIN t.links}
       \subseteq ResourceIds(t) \X ResourceIds(t)
  /\ Cardinality({t.links[i].id : i \in Named(t)}) = Cardinality(Named(t))
  /\ Cardinality({t.paths[i].id : i \in DOMAIN t.paths} \ {None}) = Len(t.paths)
  /\ \A i \in DOMAIN t.paths :
       /\ t.paths[i].hops # <<>> /\ Len(t.paths[i].hops) <= MaxResourcesPerPath
       /\ \A j \in DOMAIN t.paths[i].hops : t.paths[i].hops[j] \in ResourceIds(t)
=============================================================================
