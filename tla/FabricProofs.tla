---------------------------- MODULE FabricProofs ----------------------------
(***************************************************************************)
(* Proofs about Fabric, for any publishers, incarnations, resources,       *)
(* policy and bounds.                                                      *)
(***************************************************************************)
EXTENDS Fabric, HysteresisProofs, FiniteSetTheorems

LEMMA InitHolds == Init => IInv
  BY DEF Init, Holding, IInv, Shape, DownInv, FenceInv, EpochInv, FenceHolds, EpochBound, IntentsBound

\* A sample moves the generation of a registration and nothing else.
LEMMA SeenRegistrations ==
  ASSUME NEW s \in Deliverable, publishers \in SUBSET Registration
  PROVE  /\ Seen(s) \in SUBSET Registration
         /\ \A x \in Seen(s) : \E r \in publishers : By(x) = By(r) /\ x.epoch = r.epoch
<1>1. PICK m \in Mints : s.generation = m[2]
  BY DEF Deliverable
<1>2. m[2] \in 1..MaxGeneration /\ MaxGeneration \in Nat
  BY FabricAssumption
<1>3. s.generation \in Nat
  BY <1>1, <1>2
<1> QED
  BY <1>3 DEF Seen, Registration, By

\* The steps that only move the clock, the plans or nothing.
LEMMA TickStep == IInv /\ Tick => IInv'
  BY DEF Tick, IInv, Shape, DownInv, FenceInv, EpochInv, FenceHolds, EpochBound, IntentsBound

LEMMA OpenStep == IInv /\ Open => IInv'
<1> SUFFICES ASSUME IInv, Open
             PROVE  IInv'
    OBVIOUS
<1>1. /\ disk' = Holding(epoch', disk.fences, dom')
      /\ epoch' = disk.epoch + 1
  BY DEF Open, NextEpoch, IInv, Shape
<1>2. Shape' /\ EpochInv'
  BY <1>1 DEF Open, Holding, IInv, Shape, EpochInv
<1>3. DownInv' /\ EpochBound' /\ IntentsBound'
  BY DEF Open, IInv, DownInv, EpochBound, IntentsBound
<1>4. FenceInv' /\ FenceHolds'
  BY <1>1 DEF Open, Holding, RestoreFences, IInv, DownInv, FenceInv, FenceHolds
<1> QED
  BY <1>2, <1>3, <1>4 DEF IInv

LEMMA OpenFailsStep == IInv /\ OpenFails => IInv'
<1> SUFFICES ASSUME IInv, OpenFails
             PROVE  IInv'
    OBVIOUS
<1>1. disk'.epoch \in Nat /\ disk'.fences = disk.fences
  BY DEF OpenFails, Holding, NextEpoch, IInv, Shape
<1>2. faults' \in Nat /\ faults' # 0
  BY DEF OpenFails, Fault, IInv, Shape
<1> QED
  BY <1>1, <1>2
  DEF OpenFails, IInv, Shape, DownInv, FenceInv, EpochInv, FenceHolds, EpochBound, IntentsBound

LEMMA StopStep == IInv /\ Stop => IInv'
<1> SUFFICES ASSUME IInv, Stop
             PROVE  IInv'
    OBVIOUS
<1>1. Shape' /\ EpochInv'
  BY DEF Stop, IInv, Shape, EpochInv
<1>2. DownInv' /\ FenceInv' /\ FenceHolds' /\ EpochBound' /\ IntentsBound'
  BY DEF Stop, IInv, DownInv, FenceInv, FenceHolds, EpochBound, IntentsBound
<1> QED
  BY <1>1, <1>2 DEF IInv

LEMMA RegisterStep ==
  ASSUME IInv, NEW p \in Publishers, NEW b \in Boots, RegisterPublisher(p, b)
  PROVE  IInv'
  BY DEF RegisterPublisher, MayRegister, Of, By, Registration, IInv, Shape, DownInv, FenceInv,
         EpochInv, FenceHolds, EpochBound, IntentsBound

LEMMA UnregisterStep ==
  ASSUME IInv, NEW p \in Publishers, NEW b \in Boots, UnregisterPublisher(p, b)
  PROVE  IInv'
  BY DEF UnregisterPublisher, IInv, Shape, DownInv, FenceInv, EpochInv, FenceHolds, EpochBound,
         IntentsBound

LEMMA FenceStep ==
  ASSUME IInv, NEW p \in Publishers, NEW b \in Boots, FencePublisher(p, b)
  PROVE  IInv'
  BY DEF FencePublisher, Holding, WindowWithout, Fault, IInv, Shape, DownInv, FenceInv, EpochInv,
      FenceHolds, EpochBound, IntentsBound

LEMMA IngestStep ==
  ASSUME IInv, NEW s \in Deliverable, Ingest(s)
  PROVE  IInv'
  BY SeenRegistrations
  DEF Ingest, Admitted, IInv, Shape, DownInv, FenceInv, EpochInv, FenceHolds, EpochBound,
      IntentsBound

LEMMA HeartbeatStep ==
  ASSUME IInv, NEW s \in Deliverable, IngestHeartbeat(s)
  PROVE  IInv'
  BY SeenRegistrations
  DEF IngestHeartbeat, IInv, Shape, DownInv, FenceInv, EpochInv, FenceHolds, EpochBound,
      IntentsBound

LEMMA EvaluateStep ==
  ASSUME IInv, NEW hold \in BOOLEAN, Evaluate(hold)
  PROVE  IInv'
  BY DEF Evaluate, Holding, Surviving, Fault, IInv, Shape, DownInv, FenceInv, EpochInv, FenceHolds,
      EpochBound, IntentsBound

\* What is planned now is bound to the authority of now.
LEMMA PlanStep ==
  ASSUME IInv, running, NEW o, PlanOutcome(o)
  PROVE  IInv'
  BY DEF PlanOutcome, Authorized, Fault, IInv, Shape, DownInv, FenceInv, EpochInv, FenceHolds,
      EpochBound, IntentsBound

LEMMA ChangeAuthorityStep == IInv /\ ChangeAuthority => IInv'
  BY DEF ChangeAuthority, Change, IntentsAfterChange, IInv, Shape, DownInv, FenceInv, EpochInv,
         FenceHolds, EpochBound, IntentsBound

LEMMA AdvanceEpochStep == IInv /\ AdvanceEpoch => IInv'
<1> SUFFICES ASSUME IInv, AdvanceEpoch
             PROVE  IInv'
    OBVIOUS
<1>1. /\ publishers' = {} /\ evidence' = {} /\ intents' = {}
      /\ running /\ running' /\ epoch' = epoch + 1 /\ used' = used
  BY DEF AdvanceEpoch, IntentsAfterChange
<1> DEFINE gone == {By(r) : r \in publishers}
<1>2. fences' = fences \cup gone
  BY DEF AdvanceEpoch
<1>3. CASE /\ disk' = Holding(epoch', disk.fences \cup gone, dom')
           /\ acked' = acked \cup gone
           /\ faults' = faults
  BY <1>1, <1>2, <1>3
  DEF Holding, IInv, Shape, DownInv, FenceInv, EpochInv, FenceHolds, EpochBound, IntentsBound
<1>4. CASE /\ Fault
           /\ \/ disk' = disk
              \/ \E some \in SUBSET gone :
                   disk' = Holding(epoch', disk.fences \cup some, disk.dom)
              \/ disk' = Holding(epoch', disk.fences \cup gone, dom')
           /\ acked' = acked
  <2>1. disk'.epoch \in Nat /\ disk.fences \subseteq disk'.fences
    BY <1>1, <1>4 DEF Holding, IInv, Shape
  <2>2. faults' \in Nat /\ faults' # 0
    BY <1>4 DEF Fault, IInv, Shape
  <2> QED
    BY <1>1, <1>2, <1>4, <2>1, <2>2
    DEF IInv, Shape, DownInv, FenceInv, EpochInv, FenceHolds, EpochBound, IntentsBound
<1> QED
  BY <1>3, <1>4 DEF AdvanceEpoch

LEMMA NextStep == IInv /\ [Next]_vars => IInv'
<1> SUFFICES ASSUME IInv, [Next]_vars
             PROVE  IInv'
    OBVIOUS
<1>1. CASE UNCHANGED vars
  BY <1>1 DEF vars, IInv, Shape, DownInv, FenceInv, EpochInv, FenceHolds, EpochBound,
              IntentsBound
<1>2. CASE Tick \/ Open \/ OpenFails \/ Stop
  BY <1>2, TickStep, OpenStep, OpenFailsStep, StopStep
<1>3. CASE \E p \in Publishers, b \in Boots :
             RegisterPublisher(p, b) \/ UnregisterPublisher(p, b) \/ FencePublisher(p, b)
  BY <1>3, RegisterStep, UnregisterStep, FenceStep
<1>4. CASE \E s \in Deliverable : Ingest(s) \/ IngestHeartbeat(s)
  BY <1>4, IngestStep, HeartbeatStep
<1>5. CASE \E hold \in BOOLEAN : Evaluate(hold)
  BY <1>5, EvaluateStep
<1>6. CASE PlanHeld \/ PlanLast
  BY <1>6, PlanStep DEF PlanHeld, PlanLast
<1>7. CASE ChangeAuthority \/ AdvanceEpoch
  BY <1>7, ChangeAuthorityStep, AdvanceEpochStep
<1> QED
  BY <1>1, <1>2, <1>3, <1>4, <1>5, <1>6, <1>7 DEF Next

\* The inductive invariant: a fence reported durable is in the document, the
\* document's epoch is the one in force unless a write failed, and nothing in
\* memory is left over from a fenced incarnation, an earlier epoch or an
\* earlier generation.
THEOREM FabricInvariance == Spec => []IInv
<1>1. Init => IInv
  BY InitHolds
<1>2. IInv /\ [Next]_vars => IInv'
  BY NextStep
<1> QED
  BY <1>1, <1>2, PTL DEF Spec

\* No registration and no sample of an earlier epoch is left: neither an epoch
\* advance nor a restart lets one through.
THEOREM EpochBinding == Spec => []EpochBound
<1>1. IInv => EpochBound
  BY DEF IInv
<1> QED
  BY <1>1, FabricInvariance, PTL

\* A fenced incarnation has no registration and no evidence, and stays fenced
\* through every restart once its fence was reported durable.
THEOREM Fencing == Spec => []FenceHolds
<1>1. IInv => FenceHolds
  BY DEF IInv
<1> QED
  BY <1>1, FabricInvariance, PTL

\* Every outstanding intervention is bound to the authority in force.
THEOREM Binding == Spec => []IntentsBound
<1>1. IInv => IntentsBound
  BY DEF IInv
<1> QED
  BY <1>1, FabricInvariance, PTL

\* No process runs in an epoch of an earlier one, if no write failed.
THEOREM FreshEpochs == Spec => []EpochFresh
<1>1. IInv => EpochFresh
  BY DEF IInv, EpochInv, EpochFresh, Shape
<1> QED
  BY <1>1, FabricInvariance, PTL

\* An intervention that a step leaves standing belongs to a domain with
\* authority.
THEOREM NoOrphanedIntents == Spec => IntentsFallWithAuthority
<1> DEFINE Falls == dom' # dom /\ intents' \cap intents # {}
                      => IsAuthoritative(dom'.state) /\ ~dom'.flag
<1>1. IInv /\ [Next]_vars => [Falls]_vars
  <2> SUFFICES ASSUME IInv, Next, dom' # dom, intents' \cap intents # {}
               PROVE  IsAuthoritative(dom'.state) /\ ~dom'.flag
    OBVIOUS
  <2>1. \E hold \in BOOLEAN : Evaluate(hold)
    BY DEF Next, IInv, DownInv, Tick, Open, OpenFails, Stop, RegisterPublisher,
           UnregisterPublisher, FencePublisher, Ingest, IngestHeartbeat, PlanHeld, PlanLast,
           PlanOutcome, ChangeAuthority, AdvanceEpoch, IntentsAfterChange
  <2> QED
    BY <2>1 DEF Evaluate, Surviving, OutcomeOf, OutcomeAuthoritative
<1> QED
  BY <1>1, FabricInvariance, PTL DEF Spec, IntentsFallWithAuthority

-----------------------------------------------------------------------------
(* Type correctness and the bounds *)

\* The bounds are natural numbers, the samples may be those of Mints.
LEMMA Bounds ==
  /\ MaxAge \in Nat /\ MaxEvidence \in Nat /\ MaxPublishers \in Nat /\ MaxGeneration \in Nat
  /\ MaxSequence \in Nat /\ MaxTick \in Nat /\ MaxTick # 0
  /\ MaxChanges \in Nat /\ MaxFaults \in Nat
BY FabricAssumption

\* The scalars, within the bounds of the model.
ScalarsOK ==
  /\ running \in BOOLEAN
  /\ now \in 1..MaxTick
  /\ epoch \in Nat /\ generation \in Nat
  /\ used \in SUBSET Nat
  /\ changes \in 0..MaxChanges /\ faults \in 0..MaxFaults

\* publishers_ is a map of at most max_publishers entries.
PublishersOK ==
  /\ publishers \in SUBSET Registration /\ IsFiniteSet(publishers)
  /\ Cardinality(publishers) <= MaxPublishers
  /\ OnePer(publishers, LAMBDA x : x.publisher)

\* evidence_ is a map of at most max_evidence_entries entries.
WindowOK ==
  /\ evidence \in SUBSET Sample /\ IsFiniteSet(evidence)
  /\ Cardinality(evidence) <= MaxEvidence
  /\ OnePer(evidence, Key)

\* The domain, its plans and the document.
DomainOK ==
  /\ dom \in DomainState /\ disk \in Document
  /\ intents \in SUBSET Intent
  /\ last \in SUBSET Outcome /\ planning \in SUBSET Outcome
  /\ fences \in SUBSET Incarnation /\ acked \in SUBSET Incarnation

TypeInv == ScalarsOK /\ PublishersOK /\ WindowOK /\ DomainOK

\* A subset of a map is a map, and no larger.
LEMMA FewerPublishers ==
  ASSUME PublishersOK, publishers' \subseteq publishers
  PROVE  PublishersOK'
<1>1. /\ IsFiniteSet(publishers') /\ Cardinality(publishers') <= Cardinality(publishers)
      /\ Cardinality(publishers') \in Nat /\ Cardinality(publishers) \in Nat
  BY FS_Subset, FS_CardinalityType DEF PublishersOK
<1>2. Cardinality(publishers') <= MaxPublishers
  BY <1>1, Bounds DEF PublishersOK
<1> QED BY <1>1, <1>2 DEF PublishersOK, OnePer

LEMMA LessEvidence ==
  ASSUME WindowOK, evidence' \subseteq evidence
  PROVE  WindowOK'
<1>1. /\ IsFiniteSet(evidence') /\ Cardinality(evidence') <= Cardinality(evidence)
      /\ Cardinality(evidence') \in Nat /\ Cardinality(evidence) \in Nat
  BY FS_Subset, FS_CardinalityType DEF WindowOK
<1>2. Cardinality(evidence') <= MaxEvidence
  BY <1>1, Bounds DEF WindowOK
<1> QED BY <1>1, <1>2 DEF WindowOK, OnePer

\* To replace an entry of a finite set, or to add one below a bound, keeps
\* within the bound.
LEMMA ReplaceBound ==
  ASSUME NEW S, IsFiniteSet(S), NEW T \in SUBSET S, NEW x, NEW N \in Nat,
         Cardinality(S) <= N, T # S \/ Cardinality(S) < N
  PROVE  IsFiniteSet(T \cup {x}) /\ Cardinality(T \cup {x}) <= N
<1>1. /\ IsFiniteSet(T) /\ Cardinality(T) <= Cardinality(S)
      /\ Cardinality(S) = Cardinality(T) => S = T
  BY FS_Subset
<1>2. Cardinality(S) \in Nat /\ Cardinality(T) \in Nat
  BY <1>1, FS_CardinalityType
<1>3. Cardinality(T) < N
  BY <1>1, <1>2
<1>4. /\ IsFiniteSet(T \cup {x})
      /\ Cardinality(T \cup {x}) = Cardinality(T) \/ Cardinality(T \cup {x}) = Cardinality(T) + 1
  BY <1>1, FS_AddElement
<1> QED BY <1>2, <1>3, <1>4

LEMMA RegisterType ==
  ASSUME TypeInv, NEW p \in Publishers, NEW b \in Boots, RegisterPublisher(p, b)
  PROVE  PublishersOK'
<1> DEFINE T == {r \in publishers : r.publisher # p}
           new == [publisher |-> p, boot |-> b, epoch |-> epoch, lastGeneration |-> 0]
<1>1. publishers' = T \cup {new} /\ T \subseteq publishers
  BY DEF RegisterPublisher
<1>2. T # publishers \/ Cardinality(publishers) < MaxPublishers
  BY DEF RegisterPublisher, MayRegister
<1>3. IsFiniteSet(publishers) /\ Cardinality(publishers) <= MaxPublishers
  BY DEF TypeInv, PublishersOK
<1>4. IsFiniteSet(publishers') /\ Cardinality(publishers') <= MaxPublishers
  <2> HIDE DEF T, new
  <2> QED BY <1>1, <1>2, <1>3, Bounds, ReplaceBound
<1>5. new \in Registration
  BY DEF TypeInv, ScalarsOK, Registration
<1>6. publishers' \in SUBSET Registration
  BY <1>1, <1>5 DEF TypeInv, PublishersOK
<1>7. OnePer(publishers', LAMBDA x : x.publisher)
  BY <1>1 DEF TypeInv, PublishersOK, OnePer
<1> QED BY <1>4, <1>6, <1>7 DEF PublishersOK, OnePer

\* What a publisher minted is a sample.
LEMMA DeliverableType ==
  ASSUME TypeInv, NEW s \in Deliverable
  PROVE  s \in Sample
<1>1. PICK m \in Mints, b \in Boots, r \in Resources, e \in 1..epoch, t \in 1..now :
        s = [publisher |-> m[1], boot |-> b, resource |-> r, epoch |-> e,
             generation |-> m[2], sequence |-> m[3], level |-> m[4], tick |-> t]
  BY DEF Deliverable
<1>2. /\ m[1] \in Publishers /\ m[2] \in 1..MaxGeneration /\ m[3] \in 0..MaxSequence
      /\ m[4] \in Levels
  BY FabricAssumption
<1>3. e \in Nat /\ t \in 1..MaxTick
  BY Bounds DEF TypeInv, ScalarsOK
<1> QED BY <1>1, <1>2, <1>3 DEF Sample

\* The registrations are updated one by one.
LEMMA SeenType ==
  ASSUME TypeInv, NEW s \in Deliverable, publishers' = Seen(s)
  PROVE  PublishersOK'
<1> DEFINE Upd(r) == [r EXCEPT !.lastGeneration =
                        IF By(r) = By(s) /\ s.generation > @ THEN s.generation ELSE @]
           f == [r \in publishers |-> Upd(r)]
<1>1. /\ publishers \in SUBSET Registration /\ IsFiniteSet(publishers)
      /\ Cardinality(publishers) <= MaxPublishers
      /\ \A x, y \in publishers : x.publisher = y.publisher => x = y
  BY DEF TypeInv, PublishersOK, OnePer
<1>2. publishers' = {Upd(r) : r \in publishers}
  BY DEF Seen
<1>3. f \in Surjection(publishers, publishers')
  BY <1>2 DEF Surjection
<1>4. IsFiniteSet(publishers') /\ Cardinality(publishers') <= Cardinality(publishers)
  <2> HIDE DEF f
  <2> QED BY <1>1, <1>3, FS_Surjection
<1>5. Cardinality(publishers') \in Nat /\ Cardinality(publishers) \in Nat
  BY <1>1, <1>4, FS_CardinalityType
<1>6. Cardinality(publishers') <= MaxPublishers
  BY <1>1, <1>4, <1>5, Bounds
<1>7. publishers' \in SUBSET Registration
  BY <1>1, SeenRegistrations
<1>8. \A r \in publishers : Upd(r).publisher = r.publisher
  BY <1>1 DEF Registration
<1>9. \A x, y \in publishers' : x.publisher = y.publisher => x = y
  <2> SUFFICES ASSUME NEW x \in publishers', NEW y \in publishers', x.publisher = y.publisher
               PROVE  x = y
    OBVIOUS
  <2>1. PICK r \in publishers : x = Upd(r)
    BY <1>2
  <2>2. PICK z \in publishers : y = Upd(z)
    BY <1>2
  <2>3. r = z
    BY <1>1, <1>8, <2>1, <2>2
  <2> QED BY <2>1, <2>2, <2>3
<1> QED BY <1>4, <1>6, <1>7, <1>9 DEF PublishersOK, OnePer

LEMMA IngestType ==
  ASSUME TypeInv, NEW s \in Deliverable, Ingest(s)
  PROVE  WindowOK'
<1> DEFINE T == {e \in evidence : ~SameKey(s, e)}
<1>1. evidence' = T \cup {s} /\ T \subseteq evidence
  BY DEF Ingest
<1>2. T # evidence \/ Cardinality(evidence) < MaxEvidence
  BY DEF Ingest, Fits
<1>3. /\ IsFiniteSet(evidence) /\ Cardinality(evidence) <= MaxEvidence
      /\ evidence \in SUBSET Sample
      /\ \A x, y \in evidence : Key(x) = Key(y) => x = y
  BY DEF TypeInv, WindowOK, OnePer
<1>4. IsFiniteSet(evidence') /\ Cardinality(evidence') <= MaxEvidence
  <2> HIDE DEF T
  <2> QED BY <1>1, <1>2, <1>3, Bounds, ReplaceBound
<1>5. evidence' \in SUBSET Sample
  BY <1>1, <1>3, DeliverableType
<1>6. \A x, y \in evidence' : Key(x) = Key(y) => x = y
  BY <1>1, <1>3 DEF SameKey
<1> QED BY <1>4, <1>5, <1>6 DEF WindowOK, OnePer

\* Among the levels of the current evidence one is the highest.
LEMMA TopLevel ==
  ASSUME TypeInv, Current # {}
  PROVE  \E v \in Levels : /\ \E s \in Current : s.level = v
                           /\ \A s \in Current : s.level <= v
<1>1. \A s \in Current : s.level \in Levels
  BY DEF TypeInv, WindowOK, Current, Sample
<1>2. \A v \in Levels : v = 0 \/ v = 1 \/ v = 2 \/ v = 3
  BY FabricAssumption DEF Severity, Clear, Severe
<1>3. CASE \E s \in Current : s.level = 3
  BY <1>1, <1>2, <1>3
<1>4. CASE (\E s \in Current : s.level = 2) /\ ~\E s \in Current : s.level = 3
  BY <1>1, <1>2, <1>4
<1>5. CASE /\ \E s \in Current : s.level = 1
           /\ ~\E s \in Current : s.level = 2 \/ s.level = 3
  BY <1>1, <1>2, <1>5
<1>6. CASE ~\E s \in Current : s.level = 1 \/ s.level = 2 \/ s.level = 3
  BY <1>1, <1>2, <1>6
<1> QED BY <1>3, <1>4, <1>5, <1>6

\* The evaluator proposes something.
LEMMA ProposeType ==
  ASSUME TypeInv
  PROVE  Propose \in Proposal
<1> DEFINE top == CHOOSE v \in Levels : /\ \E s \in Current : s.level = v
                                        /\ \A s \in Current : s.level <= v
<1>1. CASE Contradicted
  BY <1>1 DEF Propose, Proposal
<1>2. CASE ~Contradicted /\ Current = {}
  BY <1>2 DEF Propose, Proposal
<1>3. CASE ~Contradicted /\ Current # {}
  <2>1. top \in Levels
    BY <1>3, TopLevel
  <2>2. \A v \in Levels : v \in Severity /\ v <= v
    BY FabricAssumption DEF Severity, Clear, Severe
  <2>3. Propose = [value |-> TRUE, up |-> top, down |-> top]
    BY <1>3 DEF Propose
  <2> HIDE DEF top
  <2>4. top \in Severity /\ top <= top
    BY <2>1, <2>2
  <2> QED BY <2>3, <2>4 DEF Proposal
<1> QED BY <1>1, <1>2, <1>3

LEMMA OutcomeType ==
  ASSUME TypeInv, NEW d \in DomainState, NEW p \in Proposal
  PROVE  OutcomeOf(d, p) \in Outcome
<1>1. SeenNow \subseteq [resource : Resources, tick : 1..MaxTick]
  BY DEF TypeInv, WindowOK, SeenNow, Current, Sample
<1>2. OutcomeAuthoritative(d, p) \in BOOLEAN
  BY RefusingProposal DEF OutcomeAuthoritative, IsAuthoritative, DomainState
<1>3. d.state \in CongestionState
  BY DEF DomainState
<1> QED BY <1>1, <1>2, <1>3 DEF OutcomeOf, Outcome

\* A record of the document's fields is a document.
LEMMA HoldingType ==
  ASSUME NEW e \in Nat, NEW f \in SUBSET Incarnation, NEW d \in DomainState
  PROVE  Holding(e, f, d) \in Document
BY DEF Holding, Document

LEMMA DiskFields ==
  ASSUME DomainOK
  PROVE  disk.epoch \in Nat /\ disk.fences \in SUBSET Incarnation /\ disk.dom \in DomainState
BY DEF DomainOK, Document

LEMMA InitType == Init => TypeInv
<1> SUFFICES ASSUME Init PROVE TypeInv
  OBVIOUS
<1>1. IsFiniteSet({}) /\ Cardinality({}) = 0
  BY FS_EmptySet
<1>2. ScalarsOK
  <2>1. 1 \in 1..MaxTick /\ 0 \in 0..MaxChanges /\ 0 \in 0..MaxFaults /\ 0 \in Nat
    BY Bounds
  <2> QED BY <2>1 DEF Init, ScalarsOK
<1>3. PublishersOK
  BY <1>1, Bounds DEF Init, PublishersOK, OnePer
<1>4. WindowOK
  BY <1>1, Bounds DEF Init, WindowOK, OnePer
<1>5. Holding(0, {}, NewDomain) \in Document
  BY NewDomainType, HoldingType
<1>6. DomainOK
  BY <1>5, NewDomainType DEF Init, DomainOK
<1> QED BY <1>2, <1>3, <1>4, <1>6 DEF TypeInv

\* A failure of the store, or an authority change, is counted within its bound.
LEMMA CountersType ==
  ASSUME ScalarsOK
  PROVE  /\ Fault => faults' \in 0..MaxFaults
         /\ Change => changes' \in 0..MaxChanges
BY Bounds DEF ScalarsOK, Fault, Change

LEMMA LifeType ==
  ASSUME TypeInv, Tick \/ Open \/ OpenFails \/ Stop
  PROVE  TypeInv'
<1>1. CASE Tick
  <2>1. ScalarsOK'
    BY <1>1, Bounds DEF Tick, TypeInv, ScalarsOK
  <2> QED BY <1>1, <2>1 DEF Tick, TypeInv, PublishersOK, WindowOK, DomainOK, OnePer
<1>2. CASE Open
  <2>1. NextEpoch(disk) \in Nat /\ disk.fences \in SUBSET Incarnation
        /\ DemoteAfterRecovery(disk.dom) \in DomainState
    BY DiskFields, DemotionType DEF TypeInv, NextEpoch
  <2>2. ScalarsOK'
    BY <1>2, <2>1, Bounds DEF Open, TypeInv, ScalarsOK
  <2>3. DomainOK'
    BY <1>2, <2>1, HoldingType DEF Open, RestoreFences, TypeInv, DomainOK
  <2> QED BY <1>2, <2>2, <2>3 DEF Open, TypeInv, PublishersOK, WindowOK, OnePer
<1>3. CASE OpenFails
  <2>1. NextEpoch(disk) \in Nat /\ disk.fences \in SUBSET Incarnation
        /\ disk.dom \in DomainState /\ DemoteAfterRecovery(disk.dom) \in DomainState
    BY DiskFields, DemotionType DEF TypeInv, NextEpoch
  <2>2. ScalarsOK'
    BY <1>3, CountersType DEF OpenFails, TypeInv, ScalarsOK
  <2>3. disk' \in Document
    BY <1>3, <2>1, HoldingType DEF OpenFails, TypeInv, DomainOK
  <2>4. DomainOK'
    BY <1>3, <2>3 DEF OpenFails, TypeInv, DomainOK
  <2> QED BY <1>3, <2>2, <2>4 DEF OpenFails, TypeInv, PublishersOK, WindowOK, OnePer
<1>4. CASE Stop
  <2>1. ScalarsOK'
    BY <1>4, CountersType DEF Stop, TypeInv, ScalarsOK
  <2>2. PublishersOK' /\ WindowOK'
    BY <1>4, FewerPublishers, LessEvidence DEF Stop, TypeInv
  <2>3. DomainOK'
    BY <1>4, NewDomainType DEF Stop, TypeInv, DomainOK
  <2> QED BY <2>1, <2>2, <2>3 DEF TypeInv
<1> QED BY <1>1, <1>2, <1>3, <1>4

LEMMA PublisherType ==
  ASSUME TypeInv, NEW p \in Publishers, NEW b \in Boots,
         RegisterPublisher(p, b) \/ UnregisterPublisher(p, b) \/ FencePublisher(p, b)
  PROVE  TypeInv'
<1>1. CASE RegisterPublisher(p, b)
  BY <1>1, RegisterType
     DEF RegisterPublisher, TypeInv, ScalarsOK, WindowOK, DomainOK, OnePer
<1>2. CASE UnregisterPublisher(p, b)
  <2>1. PublishersOK'
    BY <1>2, FewerPublishers DEF UnregisterPublisher, TypeInv
  <2> QED BY <1>2, <2>1
          DEF UnregisterPublisher, TypeInv, ScalarsOK, WindowOK, DomainOK, OnePer
<1>3. CASE FencePublisher(p, b)
  <2>1. PublishersOK' /\ WindowOK'
    BY <1>3, FewerPublishers, LessEvidence DEF FencePublisher, WindowWithout, TypeInv
  <2>2. ScalarsOK'
    BY <1>3, CountersType DEF FencePublisher, TypeInv, ScalarsOK
  <2>3. Of(p, b) \in Incarnation
    BY DEF Of, Incarnation
  <2>4. Holding(disk.epoch, disk.fences \cup {Of(p, b)}, disk.dom) \in Document
    BY <2>3, DiskFields, HoldingType DEF TypeInv
  <2>5. DomainOK'
    BY <1>3, <2>3, <2>4 DEF FencePublisher, TypeInv, DomainOK
  <2> QED BY <2>1, <2>2, <2>5 DEF TypeInv
<1> QED BY <1>1, <1>2, <1>3

LEMMA DeliveryType ==
  ASSUME TypeInv, NEW s \in Deliverable, Ingest(s) \/ IngestHeartbeat(s)
  PROVE  TypeInv'
<1>1. PublishersOK'
  BY SeenType DEF Ingest, IngestHeartbeat
<1>2. WindowOK'
  BY IngestType DEF IngestHeartbeat, TypeInv, WindowOK, OnePer
<1>3. ScalarsOK' /\ DomainOK'
  BY DEF Ingest, IngestHeartbeat, TypeInv, ScalarsOK, DomainOK
<1> QED BY <1>1, <1>2, <1>3 DEF TypeInv

LEMMA EvaluateType ==
  ASSUME TypeInv, NEW hold \in BOOLEAN, Evaluate(hold)
  PROVE  TypeInv'
<1> DEFINE d == Evaluated(dom, Propose, policy, now)
           o == OutcomeOf(d, Propose)
<1>1. dom \in DomainState /\ Propose \in Proposal /\ policy \in Policy /\ now \in Nat
  BY ProposeType, FabricAssumption, Bounds DEF TypeInv, DomainOK, ScalarsOK
<1>2. d \in DomainState
  BY <1>1, EvaluatedType
<1>3. o \in Outcome
  BY <1>1, <1>2, OutcomeType
<1>4. Holding(disk.epoch, disk.fences, d) \in Document
  BY <1>2, DiskFields, HoldingType DEF TypeInv
<1>5. /\ dom' = d /\ intents' = Surviving(o)
      /\ \/ /\ disk' = Holding(disk.epoch, disk.fences, d)
            /\ last' = {o} /\ planning' \in {{o}, planning} /\ faults' = faults
         \/ /\ Fault /\ disk' \in {disk, Holding(disk.epoch, disk.fences, d)}
            /\ last' = last /\ planning' = planning
  BY DEF Evaluate
<1>6. intents' \subseteq intents
  BY <1>5 DEF Surviving
<1> HIDE DEF d, o
<1>7. ScalarsOK'
  BY <1>5, CountersType DEF Evaluate, TypeInv, ScalarsOK
<1>8. DomainOK'
  BY <1>2, <1>3, <1>4, <1>5, <1>6 DEF Evaluate, TypeInv, DomainOK
<1> QED BY <1>7, <1>8 DEF Evaluate, TypeInv, PublishersOK, WindowOK, OnePer

LEMMA PlanType ==
  ASSUME TypeInv, PlanHeld \/ PlanLast
  PROVE  TypeInv'
<1>1. PICK o \in Outcome : PlanOutcome(o) /\ planning' \in SUBSET Outcome
  BY DEF PlanHeld, PlanLast, TypeInv, DomainOK
<1>2. Authorized(o) \in SUBSET Intent
  BY DEF Authorized, Intent, Outcome, TypeInv, ScalarsOK
<1>3. ScalarsOK'
  BY <1>1, CountersType DEF PlanOutcome, TypeInv, ScalarsOK
<1>4. DomainOK'
  BY <1>1, <1>2 DEF PlanOutcome, TypeInv, DomainOK
<1> QED BY <1>1, <1>3, <1>4 DEF PlanOutcome, TypeInv, PublishersOK, WindowOK, OnePer

LEMMA AuthorityType ==
  ASSUME TypeInv, ChangeAuthority \/ AdvanceEpoch
  PROVE  TypeInv'
<1>1. CASE ChangeAuthority
  <2>1. ScalarsOK'
    BY <1>1, CountersType DEF ChangeAuthority, TypeInv, ScalarsOK
  <2>2. DomainOK'
    BY <1>1, InvalidateType DEF ChangeAuthority, IntentsAfterChange, TypeInv, DomainOK
  <2> QED BY <1>1, <2>1, <2>2 DEF ChangeAuthority, TypeInv, PublishersOK, WindowOK, OnePer
<1>2. CASE AdvanceEpoch
  <2> DEFINE gone == {By(r) : r \in publishers}
             d == DemoteForEpoch(dom)
  <2>1. gone \in SUBSET Incarnation
    BY DEF TypeInv, PublishersOK, Registration, By, Incarnation
  <2>2. d \in DomainState /\ epoch + 1 \in Nat
    BY DemotionType DEF TypeInv, DomainOK, ScalarsOK
  <2>3. /\ Holding(epoch + 1, disk.fences \cup gone, d) \in Document
        /\ \A some \in SUBSET gone :
             Holding(epoch + 1, disk.fences \cup some, disk.dom) \in Document
    BY <2>1, <2>2, DiskFields, HoldingType DEF TypeInv
  <2>4. /\ epoch' = epoch + 1 /\ generation' = generation + 1 /\ Change
        /\ publishers' = {} /\ evidence' = {} /\ intents' = {}
        /\ fences' = fences \cup gone /\ dom' = d
        /\ \/ /\ disk' = Holding(epoch + 1, disk.fences \cup gone, d)
              /\ acked' = acked \cup gone /\ faults' = faults
           \/ /\ Fault /\ acked' = acked
              /\ \/ disk' = disk
                 \/ \E some \in SUBSET gone :
                      disk' = Holding(epoch + 1, disk.fences \cup some, disk.dom)
                 \/ disk' = Holding(epoch + 1, disk.fences \cup gone, d)
        /\ UNCHANGED <<running, now, last, planning, used>>
    BY <1>2 DEF AdvanceEpoch, IntentsAfterChange
  <2> HIDE DEF gone, d
  <2>5. ScalarsOK'
    BY <2>4, CountersType DEF TypeInv, ScalarsOK
  <2>6. disk' \in Document
    BY <2>3, <2>4 DEF TypeInv, DomainOK
  <2>7. DomainOK'
    BY <2>1, <2>2, <2>4, <2>6 DEF TypeInv, DomainOK
  <2>8. PublishersOK' /\ WindowOK'
    BY <2>4, FewerPublishers, LessEvidence DEF TypeInv
  <2> QED BY <2>5, <2>7, <2>8 DEF TypeInv
<1> QED BY <1>1, <1>2

LEMMA NextType ==
  ASSUME TypeInv, [Next]_vars
  PROVE  TypeInv'
<1>1. CASE UNCHANGED vars
  BY <1>1 DEF vars, TypeInv, ScalarsOK, PublishersOK, WindowOK, DomainOK, OnePer
<1>2. CASE Next
  BY <1>2, LifeType, PublisherType, DeliveryType, EvaluateType, PlanType, AuthorityType
     DEF Next
<1> QED BY <1>1, <1>2

LEMMA TypeInvariance == Spec => []TypeInv
<1>1. TypeInv /\ [Next]_vars => TypeInv'
  BY NextType
<1> QED BY <1>1, InitType, PTL DEF Spec

\* Type correctness: publishers_ and evidence_ stay maps within max_publishers
\* and max_evidence_entries, and every domain state, outcome, intervention and
\* document the operations produce is well formed.
THEOREM TypeCorrect == Spec => []TypeOK
<1>1. TypeInv => TypeOK
  BY DEF TypeInv, ScalarsOK, PublishersOK, WindowOK, DomainOK, TypeOK, OnePer
<1> QED BY <1>1, TypeInvariance, PTL

\* Whatever is delivered, repeated, reordered or replayed: an entry of the
\* window is replaced only by a later sample of its publisher.
THEOREM NoReplay == Spec => EvidenceNeverRegresses
<1> DEFINE Grows == \A e \in evidence, s \in evidence' :
                      Key(s) = Key(e) /\ s # e
                        => \/ s.generation > e.generation
                           \/ s.generation = e.generation /\ s.sequence > e.sequence
<1>1. TypeInv /\ [Next]_vars => [Grows]_vars
  <2> SUFFICES ASSUME TypeInv, Next, NEW e \in evidence, NEW s \in evidence',
                      Key(s) = Key(e), s # e
               PROVE  \/ s.generation > e.generation
                      \/ s.generation = e.generation /\ s.sequence > e.sequence
    OBVIOUS
  <2>1. s \notin evidence
    BY DEF TypeInv, WindowOK, OnePer
  <2>2. PICK x \in Deliverable : Ingest(x)
    BY <2>1 DEF Next, Tick, Open, OpenFails, Stop, RegisterPublisher, UnregisterPublisher,
                FencePublisher, WindowWithout, IngestHeartbeat, Evaluate, PlanHeld, PlanLast,
                PlanOutcome, ChangeAuthority, AdvanceEpoch
  <2>3. s = x
    BY <2>1, <2>2 DEF Ingest
  <2>4. Newer(s, e)
    BY <2>2, <2>3 DEF Ingest, SameKey
  <2> QED BY <2>4 DEF Newer
<1> QED BY <1>1, TypeInvariance, PTL DEF Spec, EvidenceNeverRegresses
=============================================================================
