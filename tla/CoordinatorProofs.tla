------------------------- MODULE CoordinatorProofs -------------------------
(***************************************************************************)
(* Proofs about Coordinator: type correctness with the bounds on threads   *)
(* and publishers, and the invariants that tie the registrations and the   *)
(* fences of the fabric to the connection threads, for every set of        *)
(* connections, publishers and scripts and every bound.                    *)
(***************************************************************************)
EXTENDS Coordinator, FiniteSetTheorems, TLAPS

-----------------------------------------------------------------------------
(* The inductive invariant *)

\* The thread is in connection_loop and its channel in the registry.
Listed == {"top", "entering", "reading", "serving", "ending", "leaving"}

Active == Listed \cup {"closing"}

\* The sets the code bounds are finite.
FiniteOK == IsFiniteSet(threads) /\ IsFiniteSet(publishers)

\* A publisher that has not connected has no thread and no registration; a
\* channel is in the registry exactly while its thread is in the loop; a thread
\* is kept until it has ended; a Goodbye ends the registration with the loop.
ConnectionOK(c) ==
  /\ conn[c].client = "away" => conn[c].worker = "none"
  /\ conn[c].worker \in {"none", "queued", "refused"} => ~conn[c].registered
  /\ c \in connections <=> conn[c].worker \in Listed
  /\ conn[c].worker \in Active => c \in threads
  /\ c \in threads => conn[c].worker \in Active \cup {"done"}
  /\ conn[c].parted => /\ ~conn[c].registered
                       /\ conn[c].worker \in {"ending", "leaving", "closing", "done"}

ConnectionsOK == \A c \in Conns : ConnectionOK(c)

\* What shutdown has achieved when the main thread gets to a place.
ShutdownOK ==
  /\ main \in {"checking", "recancelling", "exited", "stopped"} => ~sweeper
  /\ main \in {"exited", "stopped"} => threads = {}

IInv ==
  /\ TypeOK /\ FiniteOK
  /\ ConnectionsOK
  /\ ShutdownOK
  /\ RegistrationsOwned /\ DeathIsFenced /\ FencesDeserved

-----------------------------------------------------------------------------
(* Lemmas about the steps *)

\* The step is one of connection c alone.
OnlyConn(c) ==
  /\ conn' \in [Conns -> Connection]
  /\ \A d \in Conns : d # c => conn'[d] = conn[d]

\* The bounds are natural numbers.
LEMMA BoundsNat ==
  MaxConnections \in Nat /\ MaxFrames \in Nat /\ MaxPublishers \in Nat /\ MaxFailures \in Nat
BY CoordinatorAssumption

LEMMA InitOK == Init => IInv
<1> SUFFICES ASSUME Init PROVE IInv
  OBVIOUS
<1> DEFINE i == CHOOSE i \in Incarnation : TRUE
<1>1. i \in Incarnation
  <2>1. PICK p \in Publishers, b \in Boots : TRUE
    BY CoordinatorAssumption
  <2>2. <<p, b>> \in Incarnation
    BY <2>1 DEF Incarnation
  <2> QED BY <2>2
<1>2. conn \in [Conns -> Connection]
  BY <1>1 DEF Init, Connection, Worker
<1>3. IsFiniteSet({}) /\ Cardinality({}) = 0
  BY FS_EmptySet
<1>4. TypeOK
  <2>1. /\ Cardinality(threads) <= MaxConnections
        /\ Cardinality(publishers) <= MaxPublishers
        /\ failures \in 0..MaxFailures
    BY <1>3, BoundsNat DEF Init
  <2> QED BY <1>2, <2>1 DEF Init, TypeOK
<1>5. ConnectionsOK
  BY DEF Init, ConnectionsOK, ConnectionOK, Listed, Active
<1> QED BY <1>3, <1>4, <1>5 DEF Init, IInv, FiniteOK, ShutdownOK, RegistrationsOwned,
             DeathIsFenced, FencesDeserved, Over

\* A step of a publisher leaves the coordinator's end of its connection alone.
LEMMA ClientStep ==
  ASSUME IInv, NEW c \in Conns, OnlyConn(c),
         conn[c].client # "away", conn'[c].client # "away",
         conn'[c].who = conn[c].who, conn'[c].worker = conn[c].worker,
         conn'[c].registered = conn[c].registered, conn'[c].parted = conn[c].parted,
         UNCHANGED <<platform, threads, connections, stop, main, snapshot, sweeper,
                     listening, failures, publishers, fences>>
  PROVE  IInv'
<1>1. \A d \in Conns : /\ conn'[d].who = conn[d].who
                       /\ conn'[d].worker = conn[d].worker
                       /\ conn'[d].registered = conn[d].registered
                       /\ conn'[d].parted = conn[d].parted
                       /\ conn'[d].client = "away" <=> conn[d].client = "away"
  BY DEF OnlyConn
<1>2. TypeOK' /\ FiniteOK' /\ ShutdownOK'
  BY DEF IInv, TypeOK, FiniteOK, ShutdownOK, OnlyConn
<1>3. ConnectionsOK'
  BY <1>1 DEF IInv, ConnectionsOK, ConnectionOK
<1>4. RegistrationsOwned' /\ DeathIsFenced' /\ FencesDeserved'
  BY <1>1 DEF IInv, RegistrationsOwned, DeathIsFenced, FencesDeserved, Over
<1> QED BY <1>2, <1>3, <1>4 DEF IInv

LEMMA ConnectStep ==
  ASSUME IInv, NEW c \in Conns, NEW i \in Incarnation, NEW s \in Scripts, Connect(c, i, s)
  PROVE  IInv'
<1>0. conn[c] \in Connection /\ s \in Seq(FrameType)
  BY CoordinatorAssumption DEF IInv, TypeOK
<1>1. /\ OnlyConn(c)
      /\ conn'[c].client = "sending" /\ conn'[c].worker = "queued"
      /\ conn'[c].registered = conn[c].registered /\ conn'[c].parted = conn[c].parted
  BY <1>0 DEF IInv, TypeOK, Connect, OnlyConn, Connection, Worker
<1>2. /\ conn[c].worker = "none" /\ ~conn[c].registered /\ ~conn[c].parted
      /\ c \notin threads /\ c \notin connections
  BY DEF Connect, IInv, ConnectionsOK, ConnectionOK, Listed, Active
<1>3. TypeOK' /\ FiniteOK' /\ ShutdownOK'
  BY <1>1 DEF IInv, TypeOK, FiniteOK, ShutdownOK, OnlyConn, Connect
<1>4. ConnectionsOK'
  BY <1>1, <1>2 DEF IInv, ConnectionsOK, ConnectionOK, OnlyConn, Connect, Listed, Active
<1>5. RegistrationsOwned' /\ DeathIsFenced' /\ FencesDeserved'
  BY <1>1, <1>2 DEF IInv, RegistrationsOwned, DeathIsFenced, FencesDeserved, Over, OnlyConn,
                    Connect
<1> QED BY <1>3, <1>4, <1>5 DEF IInv

\* Gone and Sent yield connections, and touch the publisher's end alone.
LEMMA GoneType ==
  ASSUME NEW k \in Connection
  PROVE  /\ Gone(k) \in Connection /\ Gone(k).client = "gone"
         /\ Gone(k).who = k.who /\ Gone(k).worker = k.worker
         /\ Gone(k).registered = k.registered /\ Gone(k).parted = k.parted
<1>1. <<>> \in Seq(FrameType)
  OBVIOUS
<1>2. ASSUME NEW s \in Seq(FrameType)
      PROVE  LET g == [k EXCEPT !.client = "gone", !.script = s, !.outbox = "none"]
             IN  /\ g \in Connection /\ g.client = "gone"
                 /\ g.who = k.who /\ g.worker = k.worker
                 /\ g.registered = k.registered /\ g.parted = k.parted
  BY DEF Connection
<1> QED BY <1>1, <1>2 DEF Gone

LEMMA SentType ==
  ASSUME NEW k \in Connection, k.script # <<>>
  PROVE  /\ Sent(k) \in Connection /\ Sent(k).client # "away"
         /\ Sent(k).who = k.who /\ Sent(k).worker = k.worker
         /\ Sent(k).registered = k.registered /\ Sent(k).parted = k.parted
<1> DEFINE next == [k EXCEPT !.inbox = Head(k.script), !.script = Tail(@),
                             !.client = "awaiting"]
<1>1. Head(k.script) \in FrameType /\ Tail(k.script) \in Seq(FrameType)
  BY DEF Connection
<1>2. /\ next \in Connection /\ next.client = "awaiting"
      /\ next.who = k.who /\ next.worker = k.worker
      /\ next.registered = k.registered /\ next.parted = k.parted
  BY <1>1 DEF Connection
<1>3. Sent(k) = Gone(next) \/ Sent(k) = next
  BY DEF Sent
<1> QED BY <1>2, <1>3, GoneType

LEMMA SendStep ==
  ASSUME IInv, NEW c \in Conns, Send(c)
  PROVE  IInv'
<1>1. conn \in [Conns -> Connection]
  BY DEF IInv, TypeOK
<1>2. PICK k \in Connection :
        /\ conn' = [conn EXCEPT ![c] = k] /\ k.client # "away"
        /\ k.who = conn[c].who /\ k.worker = conn[c].worker
        /\ k.registered = conn[c].registered /\ k.parted = conn[c].parted
  <2>1. CASE Severed(c) \/ conn[c].script = <<>>
    BY <1>1, <2>1, GoneType DEF Send
  <2>2. CASE ~(Severed(c) \/ conn[c].script = <<>>)
    BY <1>1, <2>2, SentType DEF Send
  <2> QED BY <2>1, <2>2
<1>3. OnlyConn(c) /\ conn'[c] = k
  BY <1>1, <1>2 DEF OnlyConn
<1> QED BY <1>2, <1>3, ClientStep DEF Send

LEMMA ReceiveStep ==
  ASSUME IInv, NEW c \in Conns, Receive(c)
  PROVE  IInv'
<1>1. conn \in [Conns -> Connection]
  BY DEF IInv, TypeOK
<1>2. PICK k \in Connection :
        /\ conn' = [conn EXCEPT ![c] = k] /\ k.client # "away"
        /\ k.who = conn[c].who /\ k.worker = conn[c].worker
        /\ k.registered = conn[c].registered /\ k.parted = conn[c].parted
  <2> DEFINE k == [conn[c] EXCEPT !.outbox = "none", !.client = "sending"]
  <2>1. CASE conn[c].outbox \in {"none", "HelloRefused", "ErrorNotice"}
    BY <1>1, <2>1, GoneType DEF Receive
  <2>2. CASE conn[c].outbox \notin {"none", "HelloRefused", "ErrorNotice"}
    <3>1. /\ k \in Connection /\ k.client = "sending"
          /\ k.who = conn[c].who /\ k.worker = conn[c].worker
          /\ k.registered = conn[c].registered /\ k.parted = conn[c].parted
      BY <1>1, ZenonT(30) DEF Connection
    <3>2. conn' = [conn EXCEPT ![c] = k]
      BY <2>2 DEF Receive
    <3> QED BY <3>1, <3>2
  <2> QED BY <2>1, <2>2
<1>3. OnlyConn(c) /\ conn'[c] = k
  BY <1>1, <1>2 DEF OnlyConn
<1> QED BY <1>2, <1>3, ClientStep DEF Receive

LEMMA DieStep ==
  ASSUME IInv, NEW c \in Conns, Die(c)
  PROVE  IInv'
<1>1. conn \in [Conns -> Connection] /\ conn' = [conn EXCEPT ![c] = Gone(conn[c])]
  BY DEF IInv, TypeOK, Die
<1>2. OnlyConn(c) /\ conn'[c] = Gone(conn[c])
  BY <1>1, GoneType DEF OnlyConn
<1> QED BY <1>1, <1>2, GoneType, ClientStep DEF Die

-----------------------------------------------------------------------------
(* connection_loop *)

InLoop == Listed \ {"leaving"}

\* A step of the thread within its loop that neither registers nor unregisters.
LEMMA LoopStep ==
  ASSUME IInv, NEW c \in Conns, OnlyConn(c),
         conn'[c].client = conn[c].client, conn'[c].who = conn[c].who,
         conn[c].worker \in InLoop, conn'[c].worker \in InLoop,
         conn'[c].registered = conn[c].registered,
         conn'[c].parted => ~conn[c].registered /\ conn'[c].worker = "ending",
         snapshot' \subseteq Conns,
         UNCHANGED <<platform, threads, connections, stop, main, sweeper, listening,
                     failures, publishers, fences>>
  PROVE  IInv'
<1>1. \A d \in Conns : d # c => conn'[d] = conn[d]
  BY DEF OnlyConn
<1>2. TypeOK' /\ FiniteOK' /\ ShutdownOK'
  BY DEF IInv, TypeOK, FiniteOK, ShutdownOK, OnlyConn
<1>3. ConnectionsOK'
  <2>1. ConnectionOK(c)'
    BY DEF IInv, ConnectionsOK, ConnectionOK, InLoop, Listed, Active
  <2>2. ASSUME NEW d \in Conns, d # c PROVE ConnectionOK(d)'
    BY <1>1, <2>2 DEF IInv, ConnectionsOK, ConnectionOK
  <2> QED BY <2>1, <2>2 DEF ConnectionsOK
<1>4. ~Over(c) /\ ~Over(c)' /\ \A d \in Conns : d # c => (Over(d)' <=> Over(d))
  BY <1>1 DEF Over, InLoop, Listed
<1>5. RegistrationsOwned'
  BY <1>1, <1>4 DEF IInv, RegistrationsOwned
<1>6. DeathIsFenced' /\ FencesDeserved'
  BY <1>1, <1>4 DEF IInv, DeathIsFenced, FencesDeserved
<1> QED BY <1>2, <1>3, <1>5, <1>6 DEF IInv

LEMMA LoopTopStep ==
  ASSUME IInv, NEW c \in Conns, LoopTop(c)
  PROVE  IInv'
<1>1. conn[c] \in Connection /\ conn[c].worker = "top"
  BY DEF IInv, TypeOK, LoopTop, At
<1>2. /\ OnlyConn(c) /\ conn'[c].worker \in {"ending", "entering"}
      /\ conn'[c].client = conn[c].client /\ conn'[c].who = conn[c].who
      /\ conn'[c].registered = conn[c].registered /\ conn'[c].parted = conn[c].parted
  BY <1>1 DEF IInv, TypeOK, LoopTop, OnlyConn, Connection, Worker
<1>3. ~conn[c].parted /\ snapshot' \subseteq Conns
  BY <1>1 DEF IInv, TypeOK, ConnectionsOK, ConnectionOK, LoopTop
<1> QED BY <1>1, <1>2, <1>3, LoopStep DEF LoopTop, InLoop, Listed

LEMMA BlockStep ==
  ASSUME IInv, NEW c \in Conns, Block(c)
  PROVE  IInv'
<1>1. conn[c] \in Connection /\ conn[c].worker = "entering"
  BY DEF IInv, TypeOK, Block, At
<1>2. /\ OnlyConn(c) /\ conn'[c].worker = "reading"
      /\ conn'[c].client = conn[c].client /\ conn'[c].who = conn[c].who
      /\ conn'[c].registered = conn[c].registered /\ conn'[c].parted = conn[c].parted
  BY <1>1 DEF IInv, TypeOK, Block, OnlyConn, Connection, Worker
<1>3. ~conn[c].parted /\ snapshot' \subseteq Conns
  BY <1>1 DEF IInv, TypeOK, ConnectionsOK, ConnectionOK, Block
<1> QED BY <1>1, <1>2, <1>3, LoopStep DEF Block, InLoop, Listed

LEMMA ReadStep ==
  ASSUME IInv, NEW c \in Conns, Read(c)
  PROVE  IInv'
<1>1. conn[c] \in Connection /\ conn[c].worker \in {"entering", "reading"}
  BY DEF IInv, TypeOK, Read, At
<1>2. /\ OnlyConn(c) /\ conn'[c].worker \in {"serving", "ending"}
      /\ conn'[c].client = conn[c].client /\ conn'[c].who = conn[c].who
      /\ conn'[c].registered = conn[c].registered /\ conn'[c].parted = conn[c].parted
  BY <1>1 DEF IInv, TypeOK, Read, OnlyConn, Connection, Worker
<1>3. ~conn[c].parted /\ snapshot' \subseteq Conns
  BY <1>1 DEF IInv, TypeOK, ConnectionsOK, ConnectionOK, Read
<1> QED BY <1>1, <1>2, <1>3, LoopStep DEF Read, InLoop, Listed

\* What a thread that serves a frame has, and has not.
LEMMA ServingOK ==
  ASSUME IInv, NEW c \in Conns, conn[c].worker = "serving"
  PROVE  conn[c] \in Connection /\ ~conn[c].parted /\ snapshot \subseteq Conns
BY DEF IInv, TypeOK, ConnectionsOK, ConnectionOK

\* Answer keeps the thread in its loop and sets the registration it is given.
LEMMA AnswerEffect ==
  ASSUME IInv, NEW c \in Conns, NEW reply \in Reply, NEW r \in BOOLEAN,
         NEW healthy \in BOOLEAN, Answer(c, reply, r, healthy)
  PROVE  /\ OnlyConn(c) /\ conn'[c].worker \in {"top", "ending"}
         /\ conn'[c].client = conn[c].client /\ conn'[c].who = conn[c].who
         /\ conn'[c].registered = r /\ conn'[c].parted = conn[c].parted
<1>1. conn \in [Conns -> Connection] /\ conn[c] \in Connection
  BY DEF IInv, TypeOK
<1> DEFINE written == conn[c].client # "gone" /\ ~conn[c].cut
<1>2. conn[c].frames + 1 \in Nat
  BY <1>1 DEF Connection
<1>3. PICK o \in Reply \cup {"none"}, w \in {"top", "ending"} :
        conn' = [conn EXCEPT ![c].inbox = "none", ![c].frames = @ + 1,
                             ![c].registered = r, ![c].outbox = o, ![c].worker = w]
  BY DEF Answer
<1> QED BY <1>1, <1>2, <1>3, ZenonT(30) DEF OnlyConn, Connection, Worker

\* Drop ends the loop.
LEMMA DropEffect ==
  ASSUME IInv, NEW c \in Conns, NEW r \in BOOLEAN, NEW p \in BOOLEAN, Drop(c, r, p)
  PROVE  /\ OnlyConn(c) /\ conn'[c].worker = "ending"
         /\ conn'[c].client = conn[c].client /\ conn'[c].who = conn[c].who
         /\ conn'[c].registered = r /\ conn'[c].parted = p
<1>1. conn \in [Conns -> Connection] /\ conn[c] \in Connection
  BY DEF IInv, TypeOK
<1>2. conn[c].frames + 1 \in Nat
  BY <1>1 DEF Connection
<1> QED BY <1>1, <1>2 DEF Drop, OnlyConn, Connection, Worker

\* A frame that is answered, or dropped, and that leaves the registration alone.
LEMMA UnregisteringNothing ==
  ASSUME IInv, NEW c \in Conns, conn[c].worker = "serving",
         \/ \E reply \in Reply, healthy \in BOOLEAN :
              Answer(c, reply, conn[c].registered, healthy)
         \/ Drop(c, conn[c].registered, FALSE),
         UNCHANGED <<platform, threads, connections, stop, main, snapshot, sweeper,
                     listening, failures, publishers, fences>>
  PROVE  IInv'
<1>1. conn[c] \in Connection /\ ~conn[c].parted /\ snapshot' \subseteq Conns
  BY ServingOK
<1>2. conn[c].registered \in BOOLEAN
  BY <1>1 DEF Connection
<1>3. /\ OnlyConn(c) /\ conn'[c].worker \in {"top", "ending"}
      /\ conn'[c].client = conn[c].client /\ conn'[c].who = conn[c].who
      /\ conn'[c].registered = conn[c].registered /\ ~conn'[c].parted
  BY <1>1, <1>2, AnswerEffect, DropEffect, ZenonT(30)
<1> QED BY <1>1, <1>3, LoopStep DEF InLoop, Listed

LEMMA ServeEvidenceStep ==
  ASSUME IInv, NEW c \in Conns, ServeEvidence(c)
  PROVE  IInv'
<1>1. conn[c].worker = "serving" /\ conn[c] \in Connection
  BY ServingOK DEF ServeEvidence, Served, At
<1>2. conn[c].registered \in BOOLEAN
  BY <1>1 DEF Connection
<1>3. CASE conn[c].registered
  <2>1. Answer(c, "EvidenceAck", conn[c].registered, TRUE)
    BY <1>2, <1>3 DEF ServeEvidence
  <2> QED BY <1>1, <2>1, UnregisteringNothing DEF ServeEvidence, Reply
<1>4. CASE ~conn[c].registered
  <2>1. Drop(c, conn[c].registered, FALSE)
    BY <1>2, <1>4 DEF ServeEvidence
  <2> QED BY <1>1, <2>1, UnregisteringNothing DEF ServeEvidence
<1> QED BY <1>3, <1>4

LEMMA ServeHeartbeatStep ==
  ASSUME IInv, NEW c \in Conns, ServeHeartbeat(c)
  PROVE  IInv'
BY UnregisteringNothing DEF ServeHeartbeat, Served, At, Reply

LEMMA ServeOtherStep ==
  ASSUME IInv, NEW c \in Conns, ServeOther(c)
  PROVE  IInv'
BY UnregisteringNothing DEF ServeOther, Served, At, Reply

LEMMA ServeNothingStep ==
  ASSUME IInv, NEW c \in Conns, ServeNothing(c)
  PROVE  IInv'
BY UnregisteringNothing DEF ServeNothing, At

\* Fabric::register_publisher keeps within max_publishers: it adds an
\* incarnation below the bound, or replaces one of the same publisher.
LEMMA RegisterBound ==
  ASSUME IInv, NEW i \in Incarnation, Registers(i)
  PROVE  LET p == (publishers \ OfPublisher(i)) \cup {i}
         IN  p \subseteq Incarnation /\ IsFiniteSet(p) /\ Cardinality(p) <= MaxPublishers
<1> DEFINE q == publishers \ OfPublisher(i)
<1>1. /\ publishers \subseteq Incarnation /\ IsFiniteSet(publishers)
      /\ Cardinality(publishers) \in Nat /\ Cardinality(publishers) <= MaxPublishers
      /\ MaxPublishers \in Nat
  BY BoundsNat, FS_CardinalityType DEF IInv, TypeOK, FiniteOK
<1>2. IsFiniteSet(q) /\ Cardinality(q) \in Nat /\ Cardinality(q) < MaxPublishers
  <2>1. CASE OfPublisher(i) = {}
    BY <1>1, <2>1 DEF Registers
  <2>2. CASE OfPublisher(i) # {}
    <3>1. PICK j \in publishers : j \in OfPublisher(i)
      BY <2>2 DEF OfPublisher
    <3>2. /\ IsFiniteSet(publishers \ {j})
          /\ Cardinality(publishers \ {j}) = Cardinality(publishers) - 1
      BY <1>1, <3>1, FS_RemoveElement
    <3>3. q \subseteq publishers \ {j}
      BY <3>1
    <3>4. IsFiniteSet(q) /\ Cardinality(q) <= Cardinality(publishers \ {j})
      BY <3>2, <3>3, FS_Subset
    <3>5. Cardinality(q) \in Nat
      BY <3>4, FS_CardinalityType
    <3> QED BY <1>1, <3>2, <3>4, <3>5
  <2> QED BY <2>1, <2>2
<1>3. /\ IsFiniteSet(q \cup {i})
      /\ Cardinality(q \cup {i}) = Cardinality(q) \/ Cardinality(q \cup {i}) = Cardinality(q) + 1
  BY <1>2, FS_AddElement
<1>4. q \cup {i} \subseteq Incarnation
  BY <1>1
<1>5. Cardinality(q \cup {i}) <= MaxPublishers
  BY <1>1, <1>2, <1>3
<1> QED BY <1>3, <1>4, <1>5

\* Removing an incarnation keeps within max_publishers.
LEMMA UnregisterBound ==
  ASSUME IInv, NEW i
  PROVE  /\ publishers \ {i} \subseteq Incarnation /\ IsFiniteSet(publishers \ {i})
         /\ Cardinality(publishers \ {i}) <= MaxPublishers
<1>1. /\ publishers \subseteq Incarnation /\ IsFiniteSet(publishers)
      /\ Cardinality(publishers) \in Nat /\ Cardinality(publishers) <= MaxPublishers
      /\ MaxPublishers \in Nat
  BY BoundsNat, FS_CardinalityType DEF IInv, TypeOK, FiniteOK
<1>2. publishers \ {i} \subseteq publishers
  OBVIOUS
<1>3. /\ IsFiniteSet(publishers \ {i})
      /\ Cardinality(publishers \ {i}) <= Cardinality(publishers)
  BY <1>1, <1>2, FS_Subset
<1>4. Cardinality(publishers \ {i}) \in Nat
  BY <1>3, FS_CardinalityType
<1>5. Cardinality(publishers \ {i}) <= MaxPublishers
  BY <1>1, <1>3, <1>4
<1> QED BY <1>1, <1>3, <1>5

LEMMA ServeHelloStep ==
  ASSUME IInv, NEW c \in Conns, ServeHello(c)
  PROVE  IInv'
<1>1. /\ conn[c].worker = "serving" /\ conn[c] \in Connection
      /\ ~conn[c].parted
  BY ServingOK DEF ServeHello, Served, At
<1>2. CASE ~Registers(conn[c].who)
  BY <1>1, <1>2, UnregisteringNothing DEF ServeHello, Reply
<1>3. CASE Registers(conn[c].who)
  <2> DEFINE i == conn[c].who
  <2>1. i \in Incarnation
    BY <1>1 DEF Connection
  <2>2. /\ OnlyConn(c) /\ conn'[c].worker \in {"top", "ending"}
        /\ conn'[c].client = conn[c].client /\ conn'[c].who = conn[c].who
        /\ conn'[c].registered = TRUE /\ ~conn'[c].parted
    <3>1. Answer(c, "HelloAck", TRUE, TRUE) /\ "HelloAck" \in Reply
      BY <1>3 DEF ServeHello, Reply
    <3> QED BY <1>1, <3>1, AnswerEffect
  <2>3. publishers' = (publishers \ OfPublisher(i)) \cup {i} /\ i \notin fences
    BY <1>3 DEF ServeHello, Registers
  <2>4. /\ publishers' \subseteq Incarnation /\ IsFiniteSet(publishers')
        /\ Cardinality(publishers') <= MaxPublishers
    BY <1>3, <2>1, <2>3, RegisterBound
  <2>5. TypeOK' /\ FiniteOK' /\ ShutdownOK'
    BY <2>2, <2>4 DEF IInv, TypeOK, FiniteOK, ShutdownOK, OnlyConn, ServeHello
  <2>6. ConnectionsOK'
    <3>1. ConnectionOK(c)'
      BY <1>1, <2>2 DEF IInv, ConnectionsOK, ConnectionOK, ServeHello, Listed, Active
    <3>2. ASSUME NEW d \in Conns, d # c PROVE ConnectionOK(d)'
      BY <2>2, <3>2 DEF IInv, ConnectionsOK, ConnectionOK, OnlyConn, ServeHello
    <3> QED BY <3>1, <3>2 DEF ConnectionsOK
  <2>7. ~Over(c) /\ ~Over(c)' /\ \A d \in Conns : d # c => (Over(d)' <=> Over(d))
    BY <1>1, <2>2 DEF Over, OnlyConn
  <2>8. RegistrationsOwned'
    <3> SUFFICES ASSUME NEW j \in publishers'
                 PROVE  \E d \in Conns : conn'[d].who = j /\ conn'[d].registered /\ ~Over(d)'
      BY DEF RegistrationsOwned
    <3>1. CASE j = i
      BY <2>2, <2>7, <3>1
    <3>2. CASE j # i
      <4>1. j \in publishers
        BY <2>3, <3>2
      <4>2. PICK d \in Conns : conn[d].who = j /\ conn[d].registered /\ ~Over(d)
        BY <4>1 DEF IInv, RegistrationsOwned
      <4> QED BY <2>2, <2>7, <3>2, <4>2 DEF OnlyConn
    <3> QED BY <3>1, <3>2
  <2>9. DeathIsFenced' /\ FencesDeserved'
    <3>1. fences' = fences
      BY DEF ServeHello
    <3>2. publishers' \cap fences' = {}
      BY <2>3, <3>1 DEF IInv, DeathIsFenced
    <3>3. \A d \in Conns : (Over(d) /\ conn[d].registered => conn[d].who \in fences)'
      BY <2>2, <2>7, <3>1 DEF IInv, DeathIsFenced, OnlyConn
    <3>4. FencesDeserved'
      BY <2>2, <2>7, <3>1 DEF IInv, FencesDeserved, OnlyConn
    <3> QED BY <3>2, <3>3, <3>4 DEF DeathIsFenced
  <2> QED BY <2>5, <2>6, <2>8, <2>9 DEF IInv
<1> QED BY <1>2, <1>3

LEMMA ServeGoodbyeStep ==
  ASSUME IInv, NEW c \in Conns, ServeGoodbye(c)
  PROVE  IInv'
<1>1. conn[c].worker = "serving" /\ conn[c] \in Connection
  BY ServingOK DEF ServeGoodbye, Served, At
<1>2. /\ OnlyConn(c) /\ conn'[c].worker = "ending"
      /\ conn'[c].client = conn[c].client /\ conn'[c].who = conn[c].who
      /\ conn'[c].registered = FALSE /\ conn'[c].parted = TRUE
  <2>1. Drop(c, FALSE, TRUE)
    BY DEF ServeGoodbye, RegisteredAfterGoodbye
  <2> QED BY <2>1, DropEffect
<1>3. /\ publishers' \subseteq Incarnation /\ IsFiniteSet(publishers')
      /\ Cardinality(publishers') <= MaxPublishers
  BY UnregisterBound DEF ServeGoodbye, IInv, TypeOK, FiniteOK
<1>4. TypeOK' /\ FiniteOK' /\ ShutdownOK'
  BY <1>2, <1>3 DEF IInv, TypeOK, FiniteOK, ShutdownOK, OnlyConn, ServeGoodbye
<1>5. ConnectionsOK'
  <2>1. ConnectionOK(c)'
    BY <1>1, <1>2 DEF IInv, ConnectionsOK, ConnectionOK, ServeGoodbye, Listed, Active
  <2>2. ASSUME NEW d \in Conns, d # c PROVE ConnectionOK(d)'
    BY <1>2, <2>2 DEF IInv, ConnectionsOK, ConnectionOK, OnlyConn, ServeGoodbye
  <2> QED BY <2>1, <2>2 DEF ConnectionsOK
<1>6. ~Over(c) /\ ~Over(c)' /\ \A d \in Conns : d # c => (Over(d)' <=> Over(d))
  BY <1>1, <1>2 DEF Over, OnlyConn
<1>7. RegistrationsOwned'
  <2> SUFFICES ASSUME NEW j \in publishers'
               PROVE  \E d \in Conns : conn'[d].who = j /\ conn'[d].registered /\ ~Over(d)'
    BY DEF RegistrationsOwned
  <2>1. j \in publishers /\ (conn[c].registered => j # conn[c].who)
    BY DEF ServeGoodbye
  <2>2. PICK d \in Conns : conn[d].who = j /\ conn[d].registered /\ ~Over(d)
    BY <2>1 DEF IInv, RegistrationsOwned
  <2>3. d # c
    BY <2>1, <2>2
  <2> QED BY <1>2, <1>6, <2>2, <2>3 DEF OnlyConn
<1>8. DeathIsFenced' /\ FencesDeserved'
  <2>1. fences' = fences /\ publishers' \subseteq publishers
    BY DEF ServeGoodbye
  <2>2. DeathIsFenced'
    BY <1>2, <1>6, <2>1 DEF IInv, DeathIsFenced, OnlyConn
  <2>3. FencesDeserved'
    BY <1>2, <1>6, <2>1 DEF IInv, FencesDeserved, OnlyConn
  <2> QED BY <2>2, <2>3
<1> QED BY <1>4, <1>5, <1>7, <1>8 DEF IInv

LEMMA EndStep ==
  ASSUME IInv, NEW c \in Conns, End(c)
  PROVE  IInv'
<1>1. /\ conn[c].worker = "ending" /\ conn[c] \in Connection
      /\ conn[c].registered \in BOOLEAN /\ conn[c].who \in Incarnation
  BY DEF IInv, TypeOK, End, At, Connection
<1>2. ~FabricClosed
  BY <1>1 DEF IInv, ConnectionsOK, ConnectionOK, ShutdownOK, FabricClosed, Listed, Active
<1>3. /\ OnlyConn(c) /\ conn'[c].worker = "leaving"
      /\ conn'[c].client = conn[c].client /\ conn'[c].who = conn[c].who
      /\ conn'[c].registered = conn[c].registered /\ conn'[c].parted = conn[c].parted
  BY <1>1 DEF IInv, TypeOK, End, OnlyConn, Connection, Worker
<1>4. IF conn[c].registered
      THEN fences' = fences \cup {conn[c].who} /\ publishers' = publishers \ {conn[c].who}
      ELSE fences' = fences /\ publishers' = publishers
  BY <1>2 DEF End, Dead
<1>5. /\ publishers' \subseteq Incarnation /\ IsFiniteSet(publishers')
      /\ Cardinality(publishers') <= MaxPublishers /\ fences' \subseteq Incarnation
  BY <1>1, <1>4, UnregisterBound DEF IInv, TypeOK, FiniteOK
<1>6. TypeOK' /\ FiniteOK' /\ ShutdownOK'
  BY <1>3, <1>5 DEF IInv, TypeOK, FiniteOK, ShutdownOK, OnlyConn, End
<1>7. ConnectionsOK'
  <2>1. ConnectionOK(c)'
    BY <1>1, <1>3 DEF IInv, ConnectionsOK, ConnectionOK, End, Listed, Active
  <2>2. ASSUME NEW d \in Conns, d # c PROVE ConnectionOK(d)'
    BY <1>3, <2>2 DEF IInv, ConnectionsOK, ConnectionOK, OnlyConn, End
  <2> QED BY <2>1, <2>2 DEF ConnectionsOK
<1>8. ~Over(c) /\ Over(c)' /\ \A d \in Conns : d # c => (Over(d)' <=> Over(d))
  BY <1>1, <1>3 DEF Over, OnlyConn
<1>9. RegistrationsOwned'
  <2> SUFFICES ASSUME NEW j \in publishers'
               PROVE  \E d \in Conns : conn'[d].who = j /\ conn'[d].registered /\ ~Over(d)'
    BY DEF RegistrationsOwned
  <2>1. j \in publishers /\ (conn[c].registered => j # conn[c].who)
    BY <1>4
  <2>2. PICK d \in Conns : conn[d].who = j /\ conn[d].registered /\ ~Over(d)
    BY <2>1 DEF IInv, RegistrationsOwned
  <2>3. d # c
    BY <2>1, <2>2
  <2> QED BY <1>3, <1>8, <2>2, <2>3 DEF OnlyConn
<1>10. DeathIsFenced'
  <2>1. publishers' \cap fences' = {}
    BY <1>4 DEF IInv, DeathIsFenced
  <2>2. ASSUME NEW d \in Conns, Over(d)', conn'[d].registered
        PROVE  conn'[d].who \in fences'
    <3>1. CASE d = c
      BY <1>3, <1>4, <2>2, <3>1
    <3>2. CASE d # c
      BY <1>3, <1>4, <1>8, <2>2, <3>2 DEF IInv, DeathIsFenced, OnlyConn
    <3> QED BY <3>1, <3>2
  <2> QED BY <2>1, <2>2 DEF DeathIsFenced
<1>11. FencesDeserved'
  <2> SUFFICES ASSUME NEW j \in fences'
               PROVE  \E d \in Conns : /\ conn'[d].who = j /\ Over(d)'
                                       /\ conn'[d].registered /\ ~conn'[d].parted
    BY DEF FencesDeserved
  <2>1. CASE j \in fences
    <3>1. PICK d \in Conns : /\ conn[d].who = j /\ Over(d)
                             /\ conn[d].registered /\ ~conn[d].parted
      BY <2>1 DEF IInv, FencesDeserved
    <3> QED BY <1>3, <1>8, <3>1 DEF OnlyConn
  <2>2. CASE j \notin fences
    <3>1. j = conn[c].who /\ conn[c].registered
      BY <1>4, <2>2
    <3>2. ~conn[c].parted
      BY <3>1 DEF IInv, ConnectionsOK, ConnectionOK
    <3> QED BY <1>3, <1>8, <3>1, <3>2
  <2> QED BY <2>1, <2>2
<1> QED BY <1>6, <1>7, <1>9, <1>10, <1>11 DEF IInv

\* A thread that has left its loop moves on, and its channel may leave the
\* registry: nobody's registration or death changes.
LEMMA OverStep ==
  ASSUME IInv, NEW c \in Conns, OnlyConn(c), Over(c), Over(c)',
         conn'[c].client = conn[c].client, conn'[c].who = conn[c].who,
         conn'[c].registered = conn[c].registered, conn'[c].parted = conn[c].parted,
         connections' \subseteq connections, ConnectionOK(c)',
         \A d \in Conns : d # c => (d \in connections' <=> d \in connections),
         UNCHANGED <<platform, threads, stop, main, snapshot, sweeper, listening, failures,
                     publishers, fences>>
  PROVE  IInv'
<1>1. \A d \in Conns : d # c => conn'[d] = conn[d]
  BY DEF OnlyConn
<1>2. TypeOK' /\ FiniteOK' /\ ShutdownOK'
  BY DEF IInv, TypeOK, FiniteOK, ShutdownOK, OnlyConn
<1>3. ConnectionsOK'
  <2>1. ASSUME NEW d \in Conns, d # c PROVE ConnectionOK(d)'
    BY <1>1, <2>1 DEF IInv, ConnectionsOK, ConnectionOK
  <2> QED BY <2>1 DEF ConnectionsOK
<1>4. \A d \in Conns : Over(d)' <=> Over(d)
  BY <1>1 DEF Over
<1>5. RegistrationsOwned'
  BY <1>1, <1>4 DEF IInv, RegistrationsOwned
<1>6. DeathIsFenced' /\ FencesDeserved'
  BY <1>1, <1>4 DEF IInv, DeathIsFenced, FencesDeserved
<1> QED BY <1>2, <1>3, <1>5, <1>6 DEF IInv

LEMMA LeaveStep ==
  ASSUME IInv, NEW c \in Conns, Leave(c)
  PROVE  IInv'
<1>1. conn[c].worker = "leaving" /\ conn[c] \in Connection
  BY DEF IInv, TypeOK, Leave, At
<1>2. /\ OnlyConn(c) /\ conn'[c].worker = "closing"
      /\ conn'[c].client = conn[c].client /\ conn'[c].who = conn[c].who
      /\ conn'[c].registered = conn[c].registered /\ conn'[c].parted = conn[c].parted
  BY <1>1 DEF IInv, TypeOK, Leave, OnlyConn, Connection, Worker
<1>3. connections' = connections \ {c} /\ threads' = threads
  BY DEF Leave, Unlisted
<1>4. ConnectionOK(c)'
  BY <1>1, <1>2, <1>3 DEF IInv, ConnectionsOK, ConnectionOK, Listed, Active
<1>5. Over(c) /\ Over(c)'
  BY <1>1, <1>2 DEF Over
<1> QED BY <1>2, <1>3, <1>4, <1>5, OverStep DEF Leave

LEMMA CloseStep ==
  ASSUME IInv, NEW c \in Conns, Close(c)
  PROVE  IInv'
<1>1. conn[c].worker = "closing" /\ conn[c] \in Connection
  BY DEF IInv, TypeOK, Close, At
<1>2. /\ OnlyConn(c) /\ conn'[c].worker = "done"
      /\ conn'[c].client = conn[c].client /\ conn'[c].who = conn[c].who
      /\ conn'[c].registered = conn[c].registered /\ conn'[c].parted = conn[c].parted
  BY <1>1 DEF IInv, TypeOK, Close, OnlyConn, Connection, Worker
<1>3. ConnectionOK(c)'
  BY <1>1, <1>2 DEF IInv, ConnectionsOK, ConnectionOK, Close, Listed, Active
<1>4. Over(c) /\ Over(c)'
  BY <1>1, <1>2 DEF Over
<1> QED BY <1>2, <1>3, <1>4, OverStep DEF Close

-----------------------------------------------------------------------------
(* The accept loop *)

\* reap_finished_threads keeps every thread that runs.
LEMMA ReapedOK ==
  ASSUME IInv
  PROVE  /\ Reaped \subseteq threads /\ IsFiniteSet(Reaped)
         /\ Cardinality(Reaped) \in Nat /\ Cardinality(Reaped) <= MaxConnections
         /\ connections \subseteq Reaped
         /\ \A c \in Conns : conn[c].worker \in Active => c \in Reaped
<1>1. /\ IsFiniteSet(threads) /\ Cardinality(threads) <= MaxConnections
      /\ MaxConnections \in Nat /\ connections \subseteq threads /\ threads \subseteq Conns
  BY BoundsNat DEF IInv, TypeOK, FiniteOK
<1>2. Reaped \subseteq threads
  BY DEF Reaped
<1>3. IsFiniteSet(Reaped) /\ Cardinality(Reaped) <= Cardinality(threads)
  BY <1>1, <1>2, FS_Subset
<1>4. Cardinality(Reaped) \in Nat /\ Cardinality(threads) \in Nat
  BY <1>1, <1>3, FS_CardinalityType
<1>5. Cardinality(Reaped) <= MaxConnections
  BY <1>1, <1>3, <1>4
<1>6. \A c \in Conns : conn[c].worker \in Active => c \in Reaped
  BY DEF IInv, ConnectionsOK, ConnectionOK, Reaped, Active, Listed
<1>7. connections \subseteq Reaped
  BY <1>1 DEF IInv, ConnectionsOK, ConnectionOK, Reaped, Listed
<1> QED BY <1>2, <1>3, <1>4, <1>5, <1>6, <1>7

\* The connection is left alone, or refused while it is queued.
SameOrRefused(d) ==
  \/ conn'[d] = conn[d]
  \/ /\ conn[d].worker = "queued" /\ conn'[d].worker = "refused"
     /\ conn'[d].client = conn[d].client
     /\ conn'[d].who = conn[d].who
     /\ conn'[d].registered = conn[d].registered
     /\ conn'[d].parted = conn[d].parted

\* A step that changes what the threads are at, and the connections at most by
\* refusing one that is queued.
LEMMA ControlStep ==
  ASSUME IInv, TypeOK', ShutdownOK',
         threads' = threads \/ threads' = Reaped,
         \A d \in Conns : SameOrRefused(d),
         UNCHANGED <<connections, publishers, fences>>
  PROVE  IInv'
<1>1. FiniteOK'
  BY ReapedOK DEF IInv, FiniteOK
<1>2. \A d \in Conns : d \in threads' =>  d \in threads
  BY DEF Reaped
<1>3. \A d \in Conns : conn[d].worker \in Active => d \in threads'
  BY ReapedOK DEF IInv, ConnectionsOK, ConnectionOK
<1>4. ConnectionsOK'
  <2> SUFFICES ASSUME NEW d \in Conns PROVE ConnectionOK(d)'
    BY DEF ConnectionsOK
  <2>1. ConnectionOK(d)
    BY DEF IInv, ConnectionsOK
  <2>2. CASE conn'[d] = conn[d]
    BY <1>2, <1>3, <2>1, <2>2 DEF ConnectionOK
  <2>3. CASE conn'[d] # conn[d]
    BY <1>2, <1>3, <2>1, <2>3 DEF ConnectionOK, SameOrRefused, Listed, Active
  <2> QED BY <2>2, <2>3
<1>5. \A d \in Conns : /\ Over(d)' <=> Over(d)
                       /\ conn'[d].who = conn[d].who
                       /\ conn'[d].registered = conn[d].registered
                       /\ conn'[d].parted = conn[d].parted
  BY DEF Over, SameOrRefused
<1>6. RegistrationsOwned'
  BY <1>5 DEF IInv, RegistrationsOwned
<1>7. DeathIsFenced' /\ FencesDeserved'
  BY <1>5 DEF IInv, DeathIsFenced, FencesDeserved
<1> QED BY <1>1, <1>4, <1>6, <1>7 DEF IInv

\* A queued connection is refused.
LEMMA RefuseEffect ==
  ASSUME IInv, NEW c \in Conns, conn[c].worker = "queued",
         conn' = [conn EXCEPT ![c].worker = "refused"]
  PROVE  /\ conn' \in [Conns -> Connection]
         /\ \A d \in Conns : SameOrRefused(d)
<1>1. conn \in [Conns -> Connection] /\ conn[c] \in Connection
  BY DEF IInv, TypeOK
<1> QED BY <1>1 DEF Connection, Worker, SameOrRefused

LEMMA AcceptStep ==
  ASSUME IInv, NEW c \in Conns, Accept(c)
  PROVE  IInv'
<1>1. conn[c].worker = "queued" /\ main = "accepting" /\ main' \in {"accepting", "ended"}
  BY DEF Accept, GoOn
<1>2. ShutdownOK'
  BY <1>1 DEF ShutdownOK
<1>3. failures' \in 0..MaxFailures
  BY BoundsNat DEF Accept
<1>4. CASE ~Admits(Reaped)
  <2>1. threads' = Reaped /\ connections' = connections
        /\ conn' = [conn EXCEPT ![c].worker = "refused"]
    BY <1>4 DEF Accept
  <2>2. TypeOK'
    BY <1>1, <1>3, <2>1, ReapedOK, RefuseEffect DEF IInv, TypeOK, Accept
  <2>3. \A d \in Conns : SameOrRefused(d)
    BY <1>1, <2>1, RefuseEffect
  <2> QED BY <1>2, <2>1, <2>2, <2>3, ControlStep DEF Accept
<1>5. CASE Admits(Reaped)
  <2>1. /\ threads' = Reaped \cup {c} /\ connections' = connections \cup {c}
        /\ conn' = [conn EXCEPT ![c].worker = "top"]
    BY <1>5 DEF Accept
  <2>2. conn \in [Conns -> Connection] /\ conn[c] \in Connection
    BY DEF IInv, TypeOK
  <2>3. /\ OnlyConn(c) /\ conn'[c].worker = "top"
        /\ conn'[c].client = conn[c].client /\ conn'[c].who = conn[c].who
        /\ conn'[c].registered = conn[c].registered /\ conn'[c].parted = conn[c].parted
    BY <2>1, <2>2 DEF OnlyConn, Connection, Worker
  <2>4. ~conn[c].registered /\ ~conn[c].parted /\ conn[c].client # "away"
    BY <1>1 DEF IInv, ConnectionsOK, ConnectionOK
  <2>5. IsFiniteSet(threads') /\ Cardinality(threads') <= MaxConnections
    <3>1. /\ IsFiniteSet(Reaped \cup {c})
          /\ \/ Cardinality(Reaped \cup {c}) = Cardinality(Reaped)
             \/ Cardinality(Reaped \cup {c}) = Cardinality(Reaped) + 1
      BY ReapedOK, FS_AddElement
    <3>2. Cardinality(Reaped) < MaxConnections /\ MaxConnections \in Nat
      BY <1>5, BoundsNat DEF Admits
    <3>3. Cardinality(Reaped) \in Nat /\ Cardinality(Reaped \cup {c}) \in Nat
      BY <3>1, ReapedOK, FS_CardinalityType
    <3>4. Cardinality(Reaped \cup {c}) <= MaxConnections
      BY <3>1, <3>2, <3>3
    <3> QED BY <2>1, <3>1, <3>4
  <2>6. threads' \subseteq Conns /\ connections' \subseteq threads'
    BY <2>1, ReapedOK DEF IInv, TypeOK
  <2>7. TypeOK' /\ FiniteOK'
    BY <1>1, <1>3, <2>3, <2>5, <2>6 DEF IInv, TypeOK, FiniteOK, OnlyConn, Accept
  <2>8. ConnectionsOK'
    <3>1. ConnectionOK(c)'
      BY <2>1, <2>3, <2>4 DEF ConnectionOK, Listed, Active
    <3>2. ASSUME NEW d \in Conns, d # c PROVE ConnectionOK(d)'
      <4>1. ConnectionOK(d) /\ conn'[d] = conn[d]
        BY <2>3, <3>2 DEF IInv, ConnectionsOK, OnlyConn
      <4>2. d \in threads' <=> d \in Reaped
        BY <2>1, <3>2
      <4>3. d \in connections' <=> d \in connections
        BY <2>1, <3>2
      <4>4. /\ d \in threads' => d \in threads
            /\ conn[d].worker \in Active => d \in threads'
        BY <4>2, ReapedOK
      <4> QED BY <4>1, <4>3, <4>4 DEF ConnectionOK
    <3> QED BY <3>1, <3>2 DEF ConnectionsOK
  <2>9. \A d \in Conns : /\ Over(d)' <=> Over(d)
                         /\ conn'[d].who = conn[d].who
                         /\ conn'[d].registered = conn[d].registered
                         /\ conn'[d].parted = conn[d].parted
    BY <1>1, <2>3 DEF Over, OnlyConn
  <2>10. publishers' = publishers /\ fences' = fences
    BY DEF Accept
  <2>11. RegistrationsOwned'
    BY <2>9, <2>10 DEF IInv, RegistrationsOwned
  <2>12. DeathIsFenced' /\ FencesDeserved'
    BY <2>9, <2>10 DEF IInv, DeathIsFenced, FencesDeserved
  <2> QED BY <1>2, <2>7, <2>8, <2>11, <2>12 DEF IInv
<1> QED BY <1>4, <1>5

\* What follows the accept loop, or the next round of it.
LEMMA CountFailureEffect ==
  ASSUME IInv, main = "accepting", CountFailure
  PROVE  /\ failures' \in 0..MaxFailures /\ stop' \in BOOLEAN /\ snapshot' \subseteq Conns
         /\ main' \in {"accepting", "ended", "cancelling"}
<1>1. /\ failures \in 0..MaxFailures /\ stop \in BOOLEAN /\ snapshot \subseteq Conns
      /\ connections \subseteq Conns /\ MaxFailures \in Nat
  BY BoundsNat DEF IInv, TypeOK
<1>2. CASE failures + 1 > MaxFailures
  BY <1>1, <1>2 DEF CountFailure, LeaveAcceptLoop
<1>3. CASE ~(failures + 1 > MaxFailures)
  BY <1>1, <1>3 DEF CountFailure, GoOn
<1> QED BY <1>2, <1>3

LEMMA AcceptAbandonedStep ==
  ASSUME IInv, NEW c \in Conns, AcceptAbandoned(c)
  PROVE  IInv'
<1>1. /\ conn[c].worker = "queued" /\ main' \in {"accepting", "ended"}
      /\ conn' = [conn EXCEPT ![c].worker = "refused"]
  BY DEF AcceptAbandoned, GoOn
<1>2. failures' \in 0..MaxFailures
  BY BoundsNat DEF AcceptAbandoned
<1>3. TypeOK' /\ ShutdownOK'
  BY <1>1, <1>2, RefuseEffect DEF IInv, TypeOK, ShutdownOK, AcceptAbandoned
<1>4. \A d \in Conns : SameOrRefused(d)
  BY <1>1, RefuseEffect
<1> QED BY <1>3, <1>4, ControlStep DEF AcceptAbandoned

LEMMA AcceptExhaustedStep ==
  ASSUME IInv, NEW c \in Conns, AcceptExhausted(c)
  PROVE  IInv'
<1>1. /\ conn[c].worker = "queued" /\ listening' = FALSE
      /\ conn' = [conn EXCEPT ![c].worker = "refused"]
      /\ main = "accepting" /\ CountFailure
  BY DEF AcceptExhausted
<1>2. TypeOK' /\ ShutdownOK'
  BY <1>1, RefuseEffect, CountFailureEffect DEF IInv, TypeOK, ShutdownOK, AcceptExhausted
<1>3. \A d \in Conns : SameOrRefused(d)
  BY <1>1, RefuseEffect
<1> QED BY <1>2, <1>3, ControlStep DEF AcceptExhausted

LEMMA AcceptFailsStep ==
  ASSUME IInv, AcceptFails
  PROVE  IInv'
<1>1. TypeOK' /\ ShutdownOK'
  BY CountFailureEffect DEF IInv, TypeOK, ShutdownOK, AcceptFails
<1> QED BY <1>1, ControlStep DEF AcceptFails, SameOrRefused

LEMMA AcceptEndsStep ==
  ASSUME IInv, AcceptEnds
  PROVE  IInv'
<1>1. failures' \in 0..MaxFailures /\ snapshot' \subseteq Conns
  BY BoundsNat DEF IInv, TypeOK, AcceptEnds, LeaveAcceptLoop
<1>2. TypeOK' /\ ShutdownOK'
  BY <1>1 DEF IInv, TypeOK, ShutdownOK, AcceptEnds, LeaveAcceptLoop
<1> QED BY <1>2, ControlStep DEF AcceptEnds, SameOrRefused

LEMMA RequestStopStep ==
  ASSUME IInv, RequestStop
  PROVE  IInv'
<1>1. TypeOK' /\ ShutdownOK'
  BY DEF IInv, TypeOK, ShutdownOK, RequestStop
<1> QED BY <1>1, ControlStep DEF RequestStop, SameOrRefused

-----------------------------------------------------------------------------
(* Shutdown *)

LEMMA CancelStep ==
  ASSUME IInv, NEW c \in Conns, Cancel(c)
  PROVE  IInv'
<1>1. conn \in [Conns -> Connection] /\ conn[c] \in Connection /\ snapshot' \subseteq Conns
  BY DEF IInv, TypeOK, Cancel
<1>2. /\ OnlyConn(c)
      /\ conn'[c].client = conn[c].client /\ conn'[c].who = conn[c].who
      /\ conn'[c].registered = conn[c].registered /\ conn'[c].parted = conn[c].parted
      /\ \/ conn'[c].worker = conn[c].worker
         \/ conn[c].worker = "reading" /\ conn'[c].worker = "ending"
  <2>1. PICK w \in Worker :
          /\ conn' = [conn EXCEPT ![c].cut = ~Pipes, ![c].worker = w]
          /\ w = conn[c].worker \/ (conn[c].worker = "reading" /\ w = "ending")
    BY <1>1 DEF Cancel, Connection, Worker
  <2>2. Pipes \in BOOLEAN
    BY DEF Pipes
  <2> QED BY <1>1, <2>1, <2>2 DEF OnlyConn, Connection
<1>3. conn[c].worker \in Active
  BY DEF Cancel, Running, Active, Listed
<1>4. CASE conn[c].worker \in InLoop
  <2>1. conn'[c].worker \in InLoop
    BY <1>2, <1>4 DEF InLoop, Listed
  <2>2. conn'[c].parted => ~conn[c].registered /\ conn'[c].worker = "ending"
    BY <1>2, <1>4 DEF IInv, ConnectionsOK, ConnectionOK, InLoop, Listed
  <2> QED BY <1>1, <1>2, <1>4, <2>1, <2>2, LoopStep DEF Cancel
<1>5. CASE conn[c].worker \notin InLoop
  <2>1. conn'[c].worker = conn[c].worker
    BY <1>2, <1>5 DEF InLoop, Listed
  <2>2. \A d \in Conns : /\ conn'[d].client = conn[d].client
                         /\ conn'[d].who = conn[d].who
                         /\ conn'[d].worker = conn[d].worker
                         /\ conn'[d].registered = conn[d].registered
                         /\ conn'[d].parted = conn[d].parted
    BY <1>2, <2>1 DEF OnlyConn
  <2>3. TypeOK' /\ FiniteOK' /\ ShutdownOK'
    BY <1>1, <1>2 DEF IInv, TypeOK, FiniteOK, ShutdownOK, OnlyConn, Cancel
  <2>4. ConnectionsOK'
    BY <2>2, ZenonT(30) DEF IInv, ConnectionsOK, ConnectionOK, Cancel
  <2>5. \A d \in Conns : Over(d)' <=> Over(d)
    BY <2>2 DEF Over
  <2>6. publishers' = publishers /\ fences' = fences
    BY DEF Cancel
  <2>7. RegistrationsOwned'
    BY <2>2, <2>5, <2>6 DEF IInv, RegistrationsOwned
  <2>8. DeathIsFenced' /\ FencesDeserved'
    BY <2>2, <2>5, <2>6 DEF IInv, DeathIsFenced, FencesDeserved
  <2> QED BY <2>3, <2>4, <2>7, <2>8 DEF IInv
<1> QED BY <1>4, <1>5

LEMMA CancelDestroyedStep ==
  ASSUME IInv, NEW c \in Conns, CancelDestroyed(c)
  PROVE  IInv'
<1>1. TypeOK' /\ ShutdownOK'
  BY DEF IInv, TypeOK, ShutdownOK, CancelDestroyed
<1> QED BY <1>1, ControlStep DEF CancelDestroyed, SameOrRefused

LEMMA SweepEndsStep ==
  ASSUME IInv, SweepEnds
  PROVE  IInv'
<1>1. TypeOK' /\ ShutdownOK'
  BY DEF IInv, TypeOK, ShutdownOK, SweepEnds
<1> QED BY <1>1, ControlStep DEF SweepEnds, SameOrRefused

LEMMA CancelledStep ==
  ASSUME IInv, Cancelled
  PROVE  IInv'
<1>1. TypeOK' /\ ShutdownOK'
  BY DEF IInv, TypeOK, ShutdownOK, Cancelled
<1> QED BY <1>1, ControlStep DEF Cancelled, SameOrRefused

LEMMA ReapStep ==
  ASSUME IInv, Reap
  PROVE  IInv'
<1>1. ShutdownOK'
  BY DEF IInv, ShutdownOK, Reap
<1>2. TypeOK'
  BY ReapedOK DEF IInv, TypeOK, Reap
<1> QED BY <1>1, <1>2, ControlStep DEF Reap, SameOrRefused

LEMMA CheckStep ==
  ASSUME IInv, Check
  PROVE  IInv'
<1>1. TypeOK' /\ ShutdownOK'
  BY DEF IInv, TypeOK, ShutdownOK, Check, NoneLeft, CancelAgain
<1> QED BY <1>1, ControlStep DEF Check, SameOrRefused

LEMMA StopNodeStep ==
  ASSUME IInv, StopNode
  PROVE  IInv'
<1>1. TypeOK' /\ ShutdownOK'
  BY DEF IInv, TypeOK, ShutdownOK, StopNode
<1> QED BY <1>1, ControlStep DEF StopNode, SameOrRefused

LEMMA StutterStep ==
  ASSUME IInv, UNCHANGED vars
  PROVE  IInv'
<1>1. TypeOK' /\ ShutdownOK'
  BY DEF IInv, TypeOK, ShutdownOK, vars
<1> QED BY <1>1, ControlStep DEF vars, SameOrRefused

-----------------------------------------------------------------------------
(* The theorems *)

LEMMA WorkStep ==
  ASSUME IInv, NEW c \in Conns, Work(c)
  PROVE  IInv'
BY LoopTopStep, BlockStep, ReadStep, ServeHelloStep, ServeEvidenceStep,
   ServeHeartbeatStep, ServeGoodbyeStep, ServeOtherStep, ServeNothingStep, EndStep,
   LeaveStep, CloseStep DEF Work

LEMMA NextStep ==
  ASSUME IInv, [Next]_vars
  PROVE  IInv'
<1>1. ASSUME NEW c \in Conns,
             \/ \E i \in Incarnation, s \in Scripts : Connect(c, i, s)
             \/ Send(c) \/ Receive(c) \/ Die(c) \/ Work(c)
      PROVE  IInv'
  BY <1>1, ConnectStep, SendStep, ReceiveStep, DieStep, WorkStep
<1>2. CASE Accepting
  BY <1>2, AcceptEndsStep, AcceptStep, AcceptAbandonedStep, AcceptExhaustedStep DEF Accepting
<1>3. CASE ShuttingDown
  BY <1>3, CancelStep, CancelDestroyedStep, CancelledStep, ReapStep, CheckStep,
     StopNodeStep DEF ShuttingDown
<1>4. CASE AcceptFails \/ RequestStop \/ SweepEnds
  BY <1>4, AcceptFailsStep, RequestStopStep, SweepEndsStep
<1>5. CASE Quiescent \/ UNCHANGED vars
  BY <1>5, StutterStep DEF Quiescent
<1> QED BY <1>1, <1>2, <1>3, <1>4, <1>5 DEF Next

\* The inductive invariant holds in every reachable state.
LEMMA Invariance == Spec => []IInv
<1>1. IInv /\ [Next]_vars => IInv'
  BY NextStep
<1> QED BY <1>1, InitOK, PTL DEF Spec

\* Type correctness with the bounds of CoordinatorOptions and FabricOptions:
\* never more than max_connections threads or max_publishers registrations,
\* and never more accept failures in a row than the loop puts up with.
THEOREM TypeCorrect == Spec => []TypeOK
<1>1. IInv => TypeOK
  BY DEF IInv
<1> QED BY <1>1, Invariance, PTL

\* A registration does not outlive its connection: run by run, whoever the
\* fabric has registered has a thread in connection_loop that registered it.
THEOREM RegistrationsAreOwned == Spec => []RegistrationsOwned
<1>1. IInv => RegistrationsOwned
  BY DEF IInv
<1> QED BY <1>1, Invariance, PTL

\* A connection that ends without a served Goodbye leaves a fence behind, also
\* during shutdown, and nobody is registered and fenced.
THEOREM DeathsAreFenced == Spec => []DeathIsFenced
<1>1. IInv => DeathIsFenced
  BY DEF IInv
<1> QED BY <1>1, Invariance, PTL

\* Nobody is fenced but an incarnation of which a connection died.
THEOREM FencesAreDeserved == Spec => []FencesDeserved
<1>1. IInv => FencesDeserved
  BY DEF IInv
<1> QED BY <1>1, Invariance, PTL

\* The registry of channels that shutdown cancels holds live channels only,
\* and every one whose thread may still block.
THEOREM RegistryIsAlive == Spec => []RegistryAlive
<1>1. IInv => RegistryAlive
  BY DEF IInv, TypeOK, ConnectionsOK, ConnectionOK, RegistryAlive, Running, Listed, Active
<1> QED BY <1>1, Invariance, PTL

\* When Fabric::close has run, no connection thread and no evaluation thread
\* is left to call the fabric.
THEOREM ClosedIsQuiet == Spec => []ClosedQuiet
<1>1. IInv => ClosedQuiet
  BY DEF IInv, ConnectionsOK, ConnectionOK, ShutdownOK, ClosedQuiet, FabricClosed, Running,
         Listed, Active
<1> QED BY <1>1, Invariance, PTL
=============================================================================
