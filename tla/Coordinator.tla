---------------------------- MODULE Coordinator ----------------------------
(***************************************************************************)
(* The coordinator process (src/runtime/coordinator.cpp) and its           *)
(* publishers (src/runtime/publisher.cpp): the accept loop, a thread per   *)
(* connection, the evaluation thread and shutdown, over the registrations  *)
(* and fences of the fabric.                                               *)
(*                                                                         *)
(* A publisher waits for the answer to every frame but Goodbye, so that at *)
(* most one frame is under way in each direction.  The fabric is what the  *)
(* connections see of it: evidence, evaluation and planning, which happen  *)
(* inside a connection's step, are the subject of module Fabric.           *)
(***************************************************************************)
EXTENDS Naturals, Sequences, FiniteSets

CONSTANTS
  Conns,          \* connections, each the run of one publisher
  Publishers, Boots,
  Scripts,        \* the sequences of frames a publisher may send
  MaxConnections, \* CoordinatorOptions::max_connections
  MaxFrames,      \* CoordinatorOptions::max_frames_per_connection
  MaxPublishers,  \* FabricOptions::max_publishers
  Platforms,      \* 0: sockets (POSIX); n: named pipes (Windows) with n instances,
                  \* which is ListenerOptions::max_instances
  MaxFailures     \* accept failures in a row the accept loop puts up with

Incarnation == Publishers \X Boots

\* Other: a frame no publisher may send. Malformed: the decoder or the decoding
\* of the payload refuses it.
FrameType == {"Hello", "Evidence", "Heartbeat", "Goodbye", "Other", "Malformed"}

Reply ==
  {"HelloAck", "HelloRefused", "EvidenceAck", "HeartbeatAck", "ErrorNotice"}

ASSUME CoordinatorAssumption ==
  /\ Publishers # {} /\ Boots # {}
  /\ Scripts \subseteq Seq(FrameType)
  /\ {MaxConnections, MaxFrames, MaxPublishers, MaxFailures} \subseteq Nat
  /\ Platforms \subseteq Nat

VARIABLES
  platform,    \* what the coordinator runs on; never changes
  conn,        \* both ends of every connection
  threads,     \* connection_threads_
  connections, \* connections_: the channels shutdown cancels
  stop,        \* stop_
  main,        \* where the thread in run() and then stop() is
  snapshot,    \* the channels cancel_all_connections has still to cancel
  sweeper,     \* the evaluation thread is running
  listening,   \* the listener has its handle
  failures,    \* consecutive_failures
  publishers,  \* the incarnations registered with the fabric
  fences       \* the incarnations fenced by it

vars == <<platform, conn, threads, connections, stop, main, snapshot, sweeper, listening,
          failures, publishers, fences>>

-----------------------------------------------------------------------------

\* A connection thread: before accept; in its loop (about to look at stop_,
\* about to read, blocked in read, with a frame); after it, step by step; or
\* never started.
Worker == {"none", "queued", "top", "entering", "reading", "serving", "ending", "leaving",
           "closing", "done", "refused"}

Connection ==
  [who : Incarnation, script : Seq(FrameType),
   client : {"away", "sending", "awaiting", "gone"},
   inbox : FrameType \cup {"none"}, outbox : Reply \cup {"none"},
   worker : Worker, registered : BOOLEAN, frames : Nat,
   cut : BOOLEAN,    \* shutdown(SHUT_RDWR) was called on the socket
   parted : BOOLEAN] \* history: the Goodbye was served

TypeOK ==
  /\ platform \in Platforms
  /\ conn \in [Conns -> Connection]
  /\ threads \subseteq Conns /\ connections \subseteq threads
  /\ Cardinality(threads) <= MaxConnections
  /\ stop \in BOOLEAN
  /\ main \in {"accepting", "ended", "cancelling", "joining", "checking", "recancelling",
               "exited", "stopped", "crashed"}
  /\ snapshot \subseteq Conns
  /\ sweeper \in BOOLEAN /\ listening \in BOOLEAN
  /\ failures \in 0..MaxFailures
  /\ publishers \subseteq Incarnation /\ fences \subseteq Incarnation
  /\ Cardinality(publishers) <= MaxPublishers

\* CoordinatorNode::start succeeded and run() has started its threads.
Init ==
  /\ platform \in Platforms
  /\ conn = [c \in Conns |->
       [who |-> CHOOSE i \in Incarnation : TRUE, script |-> <<>>, client |-> "away",
        inbox |-> "none", outbox |-> "none", worker |-> "none", registered |-> FALSE,
        frames |-> 0, cut |-> FALSE, parted |-> FALSE]]
  /\ threads = {} /\ connections = {} /\ snapshot = {}
  /\ stop = FALSE /\ main = "accepting" /\ sweeper = TRUE
  /\ listening = TRUE /\ failures = 0
  /\ publishers = {} /\ fences = {}

Pipes == platform # 0

\* Threads that have left connection_loop no longer have a channel.
Running == {c \in Conns : conn[c].worker \in {"top", "entering", "reading", "serving",
                                              "ending", "leaving", "closing"}}

\* Mutant: a connection thread that ends leaves its channel open.
LeftOpen(c) ==
  \/ conn[c].worker = "refused" \/ conn[c].cut
  \/ conn[c].worker = "queued" /\ main = "stopped"
  \/ main = "crashed"

\* The publisher finds its connection closed.
Severed(c) ==
  \/ conn[c].worker \in {"done", "refused"}
  \/ conn[c].cut
  \/ conn[c].worker = "queued" /\ main = "stopped"
  \/ main = "crashed"

-----------------------------------------------------------------------------
(* run_publisher *)

\* The publisher has ended: its script and what it has not read end with it.
Gone(k) == [k EXCEPT !.client = "gone", !.script = <<>>, !.outbox = "none"]

\* A pipe has one instance that listens, a socket a backlog. connect_endpoint
\* tries until it gets through.
Reachable ==
  /\ listening /\ main # "crashed"
  /\ Pipes => \A d \in Conns : conn[d].worker # "queued"

Connect(c, i, s) ==
  /\ conn[c].client = "away"
  /\ Reachable
  /\ conn' = [conn EXCEPT ![c].who = i, ![c].script = s, ![c].client = "sending",
                          ![c].worker = "queued"]
  /\ UNCHANGED <<platform, threads, connections, stop, main, snapshot, sweeper,
                 listening, failures, publishers, fences>>

\* Goodbye is not answered.
Sent(k) ==
  LET next == [k EXCEPT !.inbox = Head(k.script), !.script = Tail(@), !.client = "awaiting"]
  IN  IF next.inbox = "Goodbye" THEN Gone(next) ELSE next

Send(c) ==
  /\ conn[c].client = "sending"
  /\ conn' = [conn EXCEPT ![c] =
       IF Severed(c) \/ @.script = <<>> THEN Gone(@) ELSE Sent(@)]
  /\ UNCHANGED <<platform, threads, connections, stop, main, snapshot, sweeper,
                 listening, failures, publishers, fences>>

\* A refusal or an error ends the publisher, and so does the end of the stream.
Receive(c) ==
  /\ conn[c].client = "awaiting"
  /\ conn[c].outbox # "none" \/ Severed(c)
  /\ conn' = [conn EXCEPT ![c] =
       IF @.outbox \in {"none", "HelloRefused", "ErrorNotice"} THEN Gone(@)
       ELSE [@ EXCEPT !.outbox = "none", !.client = "sending"]]
  /\ UNCHANGED <<platform, threads, connections, stop, main, snapshot, sweeper,
                 listening, failures, publishers, fences>>

\* The publisher's process dies.
Die(c) ==
  /\ conn[c].client \in {"sending", "awaiting"}
  /\ conn' = [conn EXCEPT ![c] = Gone(@)]
  /\ UNCHANGED <<platform, threads, connections, stop, main, snapshot, sweeper,
                 listening, failures, publishers, fences>>

-----------------------------------------------------------------------------
(* CoordinatorNode::accept_loop, with PipeListener::accept *)

Reaped == {c \in threads : conn[c].worker # "done"}

\* The instance that was connected, those in use, and its replacement.
InstanceLeft == Pipes => Cardinality(Running) + 2 <= platform

\* Mutant: one thread more than the bound.
AdmitsOneMore(active) == Cardinality(active) <= MaxConnections

Admits(active) == Cardinality(active) < MaxConnections

\* The loop looks at stop_ when accept has returned.
GoOn == main' = IF stop THEN "ended" ELSE main

\* A thread for the connection, or the connection is closed. A pipe may take a
\* connection in after stop was requested.
Accept(c) ==
  /\ main = "accepting" /\ listening
  /\ stop => Pipes
  /\ conn[c].worker = "queued"
  /\ InstanceLeft
  /\ failures' = 0
  /\ IF Admits(Reaped)
     THEN /\ threads' = Reaped \cup {c}
          /\ connections' = connections \cup {c}
          /\ conn' = [conn EXCEPT ![c].worker = "top"]
     ELSE /\ threads' = Reaped
          /\ conn' = [conn EXCEPT ![c].worker = "refused"]
          /\ UNCHANGED connections
  /\ GoOn
  /\ UNCHANGED <<platform, stop, snapshot, sweeper, listening, publishers, fences>>

\* The peer vanished first: the instance is replaced, the loop goes on.
AcceptAbandoned(c) ==
  /\ Pipes
  /\ main = "accepting" /\ listening
  /\ conn[c].worker = "queued" /\ conn[c].client = "gone"
  /\ InstanceLeft
  /\ failures' = 0
  /\ conn' = [conn EXCEPT ![c].worker = "refused"]
  /\ GoOn
  /\ UNCHANGED <<platform, threads, connections, stop, snapshot, sweeper, listening,
                 publishers, fences>>

\* What follows the accept loop in run().
LeaveAcceptLoop ==
  /\ failures' = 0
  /\ stop' = TRUE
  /\ main' = "cancelling"
  /\ snapshot' = connections

\* One failure more, and the loop goes on unless they were too many.
CountFailure ==
  IF failures + 1 > MaxFailures
  THEN LeaveAcceptLoop
  ELSE failures' = failures + 1 /\ GoOn /\ UNCHANGED <<stop, snapshot>>

\* No replacement for the connected instance: it is closed, and the listener
\* has lost its handle.
AcceptExhausted(c) ==
  /\ main = "accepting" /\ listening
  /\ conn[c].worker = "queued"
  /\ ~InstanceLeft
  /\ listening' = FALSE
  /\ conn' = [conn EXCEPT ![c].worker = "refused"]
  /\ CountFailure
  /\ UNCHANGED <<platform, threads, connections, sweeper, publishers, fences>>

\* poll, accept or the wait fails for a reason of its own.
AcceptFails ==
  /\ main = "accepting" /\ listening
  /\ CountFailure
  /\ UNCHANGED <<platform, conn, threads, connections, sweeper, listening, publishers,
                 fences>>

\* Stop was requested, or accept reports Closed.
AcceptEnds ==
  /\ main = "ended" \/ (main = "accepting" /\ (stop \/ ~listening))
  /\ LeaveAcceptLoop
  /\ UNCHANGED <<platform, conn, threads, connections, sweeper, listening, publishers,
                 fences>>

RequestStop ==
  /\ main = "accepting" /\ ~stop
  /\ stop' = TRUE
  /\ UNCHANGED <<platform, conn, threads, connections, main, snapshot, sweeper,
                 listening, failures, publishers, fences>>

-----------------------------------------------------------------------------
(* CoordinatorNode::connection_loop *)

At(c, pc) == conn[c].worker = pc /\ main # "crashed"

LoopTop(c) ==
  /\ At(c, "top")
  /\ conn' = [conn EXCEPT ![c].worker = IF stop THEN "ending" ELSE "entering"]
  /\ UNCHANGED <<platform, threads, connections, stop, main, snapshot, sweeper,
                 listening, failures, publishers, fences>>

Readable(c) == conn[c].inbox # "none" \/ conn[c].client = "gone" \/ conn[c].cut

\* read finds nothing and blocks: from here on it can be cancelled.
Block(c) ==
  /\ At(c, "entering") /\ ~Readable(c)
  /\ conn' = [conn EXCEPT ![c].worker = "reading"]
  /\ UNCHANGED <<platform, threads, connections, stop, main, snapshot, sweeper,
                 listening, failures, publishers, fences>>

\* Bytes that arrived are read before the end of the stream is.
Read(c) ==
  /\ At(c, "entering") \/ At(c, "reading")
  /\ Readable(c)
  /\ conn' = [conn EXCEPT
       ![c].worker = IF conn[c].inbox # "none" THEN "serving" ELSE "ending"]
  /\ UNCHANGED <<platform, threads, connections, stop, main, snapshot, sweeper,
                 listening, failures, publishers, fences>>

\* A frame beyond the bound is counted and dropped with the connection.
Served(c, type) ==
  /\ At(c, "serving")
  /\ conn[c].inbox = type
  /\ conn[c].frames < MaxFrames

\* The answer is written; a write to a publisher that is gone fails.
Answer(c, reply, registered, healthy) ==
  LET written == conn[c].client # "gone" /\ ~conn[c].cut
  IN  conn' = [conn EXCEPT
        ![c].inbox = "none", ![c].frames = @ + 1, ![c].registered = registered,
        ![c].outbox = IF written THEN reply ELSE "none",
        ![c].worker = IF written /\ healthy THEN "top" ELSE "ending"]

\* The connection ends without an answer.
Drop(c, registered, parted) ==
  conn' = [conn EXCEPT
    ![c].inbox = "none", ![c].frames = @ + 1, ![c].registered = registered,
    ![c].worker = "ending", ![c].parted = parted]

OfPublisher(i) == {j \in publishers : j[1] = i[1]}

\* Fabric::register_publisher lets the incarnation in.
Registers(i) ==
  /\ i \notin fences
  /\ OfPublisher(i) = {} => Cardinality(publishers) < MaxPublishers

ServeHello(c) ==
  /\ Served(c, "Hello")
  /\ IF Registers(conn[c].who)
     THEN /\ publishers' = (publishers \ OfPublisher(conn[c].who)) \cup {conn[c].who}
          /\ Answer(c, "HelloAck", TRUE, TRUE)
     ELSE /\ Answer(c, "HelloRefused", conn[c].registered, FALSE)
          /\ UNCHANGED publishers
  /\ UNCHANGED <<platform, threads, connections, stop, main, snapshot, sweeper,
                 listening, failures, fences>>

\* Fabric::ingest and then evaluate_touched_domains.
ServeEvidence(c) ==
  /\ Served(c, "Evidence")
  /\ IF conn[c].registered THEN Answer(c, "EvidenceAck", TRUE, TRUE) ELSE Drop(c, FALSE, FALSE)
  /\ UNCHANGED <<platform, threads, connections, stop, main, snapshot, sweeper,
                 listening, failures, publishers, fences>>

ServeHeartbeat(c) ==
  /\ Served(c, "Heartbeat")
  /\ Answer(c, "HeartbeatAck", conn[c].registered, TRUE)
  /\ UNCHANGED <<platform, threads, connections, stop, main, snapshot, sweeper,
                 listening, failures, publishers, fences>>

\* Mutant: the connection ends with the Goodbye and is then taken for dead.
StaysRegistered(c) == conn[c].registered

RegisteredAfterGoodbye(c) == FALSE

\* A voluntary departure: unregistered and not fenced.
ServeGoodbye(c) ==
  /\ Served(c, "Goodbye")
  /\ publishers' = IF conn[c].registered THEN publishers \ {conn[c].who} ELSE publishers
  /\ Drop(c, RegisteredAfterGoodbye(c), TRUE)
  /\ UNCHANGED <<platform, threads, connections, stop, main, snapshot, sweeper,
                 listening, failures, fences>>

\* Any other frame is answered with an error, and the connection goes on.
ServeOther(c) ==
  /\ Served(c, "Other")
  /\ Answer(c, "ErrorNotice", conn[c].registered, TRUE)
  /\ UNCHANGED <<platform, threads, connections, stop, main, snapshot, sweeper,
                 listening, failures, publishers, fences>>

\* A malformed stream or payload, or a frame too many.
ServeNothing(c) ==
  /\ At(c, "serving")
  /\ conn[c].inbox = "Malformed" \/ conn[c].frames >= MaxFrames
  /\ Drop(c, conn[c].registered, FALSE)
  /\ UNCHANGED <<platform, threads, connections, stop, main, snapshot, sweeper,
                 listening, failures, publishers, fences>>

\* Mutant: the fabric is closed as soon as no new connection comes in.
FabricClosedEarly == main # "accepting"

\* Fabric::close, after which its calls change nothing.
FabricClosed == main = "stopped"

\* Mutant: the end of a connection is no death once the coordinator stops.
DeadUnlessStopping(c) == conn[c].registered /\ ~stop

\* The connection ended without a Goodbye.
Dead(c) == conn[c].registered

\* A death fences the incarnation.
End(c) ==
  /\ At(c, "ending")
  /\ conn' = [conn EXCEPT ![c].worker = "leaving"]
  /\ IF Dead(c) /\ ~FabricClosed
     THEN /\ fences' = fences \cup {conn[c].who}
          /\ publishers' = publishers \ {conn[c].who}
     ELSE UNCHANGED <<fences, publishers>>
  /\ UNCHANGED <<platform, threads, connections, stop, main, snapshot, sweeper,
                 listening, failures>>

\* Mutant: the channel stays in the registry.
StaysListed(c) == connections

\* remove_connection
Unlisted(c) == connections \ {c}

Leave(c) ==
  /\ At(c, "leaving")
  /\ conn' = [conn EXCEPT ![c].worker = "closing"]
  /\ connections' = Unlisted(c)
  /\ UNCHANGED <<platform, threads, stop, main, snapshot, sweeper, listening, failures,
                 publishers, fences>>

\* The channel is closed and destroyed with what was not read, then the
\* completion flag is set.
Close(c) ==
  /\ At(c, "closing")
  /\ conn' = [conn EXCEPT ![c].worker = "done", ![c].inbox = "none", ![c].frames = 0]
  /\ UNCHANGED <<platform, threads, connections, stop, main, snapshot, sweeper,
                 listening, failures, publishers, fences>>

Work(c) ==
  \/ LoopTop(c) \/ Block(c) \/ Read(c)
  \/ ServeHello(c) \/ ServeEvidence(c) \/ ServeHeartbeat(c) \/ ServeGoodbye(c)
  \/ ServeOther(c) \/ ServeNothing(c)
  \/ End(c) \/ Leave(c) \/ Close(c)

-----------------------------------------------------------------------------
(* Shutdown: the rest of CoordinatorNode::run, then stop *)

\* cancel_pending of one channel of the snapshot. It ends a read that is
\* pending and, of a socket, every later one.
Cancel(c) ==
  /\ main \in {"cancelling", "recancelling"}
  /\ c \in snapshot \cap Running
  /\ snapshot' = snapshot \ {c}
  /\ conn' = [conn EXCEPT
       ![c].cut = ~Pipes,
       ![c].worker = IF Pipes /\ conn[c].worker = "reading" THEN "ending" ELSE @]
  /\ UNCHANGED <<platform, threads, connections, stop, main, sweeper, listening,
                 failures, publishers, fences>>

\* The thread has destroyed its channel since the snapshot was taken: a call
\* through a dangling pointer, which does nothing or ends the process.
CancelDestroyed(c) ==
  /\ main \in {"cancelling", "recancelling"}
  /\ c \in snapshot \ Running
  /\ snapshot' = snapshot \ {c}
  /\ main' \in {main, "crashed"}
  /\ UNCHANGED <<platform, conn, threads, connections, stop, sweeper, listening,
                 failures, publishers, fences>>

SweepEnds ==
  /\ stop /\ sweeper
  /\ main # "crashed"
  /\ sweeper' = FALSE
  /\ UNCHANGED <<platform, conn, threads, connections, stop, main, snapshot, listening,
                 failures, publishers, fences>>

\* All were cancelled; the evaluation thread is waited for.
Cancelled ==
  /\ main = "cancelling" /\ snapshot = {}
  /\ main' = "joining"
  /\ UNCHANGED <<platform, conn, threads, connections, stop, snapshot, sweeper,
                 listening, failures, publishers, fences>>

\* reap_finished_threads, after the join and after each further round.
Reap ==
  /\ \/ main = "joining" /\ ~sweeper
     \/ main = "recancelling" /\ snapshot = {}
  /\ main' = "checking"
  /\ threads' = Reaped
  /\ UNCHANGED <<platform, conn, connections, stop, snapshot, sweeper, listening,
                 failures, publishers, fences>>

\* Mutant: shutdown only waits for the threads that are left.
CancelNoMore == {}

CancelAgain == connections

\* Mutant: run() returns after the first reaping.
NoneLeftToWaitFor == TRUE

NoneLeft == threads = {}

\* Until no thread is left, cancel again: a thread may have been on its way
\* into read when it was cancelled.
Check ==
  /\ main = "checking"
  /\ IF NoneLeft
     THEN main' = "exited" /\ UNCHANGED snapshot
     ELSE main' = "recancelling" /\ snapshot' = CancelAgain
  /\ UNCHANGED <<platform, conn, threads, connections, stop, sweeper, listening,
                 failures, publishers, fences>>

\* stop(): the listener and the fabric are closed.
StopNode ==
  /\ main = "exited"
  /\ main' = "stopped"
  /\ listening' = FALSE
  /\ UNCHANGED <<platform, conn, threads, connections, stop, snapshot, sweeper,
                 failures, publishers, fences>>

-----------------------------------------------------------------------------

Accepting ==
  \/ AcceptEnds
  \/ \E c \in Conns : Accept(c) \/ AcceptAbandoned(c) \/ AcceptExhausted(c)

ShuttingDown ==
  \/ \E c \in Conns : Cancel(c) \/ CancelDestroyed(c)
  \/ Cancelled \/ Reap \/ Check \/ StopNode

\* Everything has ended.
Quiescent ==
  /\ main \in {"stopped", "crashed"}
  /\ \A c \in Conns : conn[c].client \in {"away", "gone"}
  /\ UNCHANGED vars

Next ==
  \/ \E c \in Conns :
       \/ \E i \in Incarnation, s \in Scripts : Connect(c, i, s)
       \/ Send(c) \/ Receive(c) \/ Die(c)
       \/ Work(c)
  \/ Accepting \/ AcceptFails \/ RequestStop
  \/ SweepEnds \/ ShuttingDown
  \/ Quiescent

Spec == Init /\ [][Next]_vars

\* Every thread of the coordinator runs, and a publisher that awaits an answer
\* reads. Nobody has to send, to stop or to die.
Fairness ==
  /\ WF_vars(Accepting) /\ WF_vars(SweepEnds) /\ WF_vars(ShuttingDown)
  /\ \A c \in Conns : WF_vars(Work(c)) /\ WF_vars(Receive(c))

FairSpec == Spec /\ Fairness

-----------------------------------------------------------------------------
(* Properties *)

Over(c) == conn[c].worker \in {"leaving", "closing", "done"}

\* A registration does not outlive its connection: whoever is registered has
\* greeted on a connection whose thread still runs, through reconnects, several
\* connections of one incarnation, deaths and refusals.
RegistrationsOwned ==
  \A i \in publishers :
    \E c \in Conns : conn[c].who = i /\ conn[c].registered /\ ~Over(c)

\* An incarnation whose connection ended without a Goodbye is fenced, also when
\* the coordinator's own shutdown ended it, and is registered by no connection.
DeathIsFenced ==
  /\ \A c \in Conns : Over(c) /\ conn[c].registered => conn[c].who \in fences
  /\ publishers \cap fences = {}

\* A fence is somebody's death: an incarnation whose connections have all ended
\* with a Goodbye that was served, or were refused, is not fenced.
FencesDeserved ==
  \A i \in fences :
    \E c \in Conns : /\ conn[c].who = i /\ Over(c)
                     /\ conn[c].registered /\ ~conn[c].parted

\* Every channel in the registry is alive, and every live one is in it until its
\* thread has left the loop for good: shutdown reaches each thread.
RegistryAlive ==
  /\ connections \subseteq Running
  /\ \A c \in Running : conn[c].worker # "closing" => c \in connections

\* When the fabric is closed no thread is left that could call it.
ClosedQuiet == FabricClosed => Running = {} /\ threads = {} /\ ~sweeper

\* Shutdown ends, whatever the publishers do: no thread stays in a read that was
\* cancelled too early.
ShutdownEnds == stop ~> main \in {"stopped", "crashed"}

\* A publisher has no timeout, and needs none: an answer or the end of the
\* connection always comes, through refusals, frame limits and shutdown.
PublisherNeverHangs ==
  \A c \in Conns : conn[c].client = "awaiting" ~> conn[c].client # "awaiting"

\* "A transient accept failure must not take the whole endpoint down for the rest
\* of the process lifetime" (accept_loop): the coordinator accepts until stop is
\* requested, or more accepts in a row have failed than it puts up with.
EndpointSurvives ==
  [][main = "accepting" /\ main' # "accepting"
       => stop \/ failures = MaxFailures]_vars
=============================================================================
