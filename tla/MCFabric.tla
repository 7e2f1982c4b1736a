------------------------------ MODULE MCFabric ------------------------------
(***************************************************************************)
(* Instances of Fabric for TLC.                                            *)
(***************************************************************************)
EXTENDS Fabric, TLC

CONSTANTS p1, p2, b1, b2, r1, r2

MCPublishers == {p1, p2}
MCOnePublisher == {p1}
MCBoots == {b1, b2}
MCOneBoot == {b1}
Incarnations == Permutations(MCBoots) \cup Permutations(MCPublishers)
MCResources == {r1, r2}
MCOneResource == {r1}
MCSevere == {Severe}
MCLevels == {Clear, Severe}

\* The one sample of a publisher, or those of a publisher that counts on and of
\* another that agrees with some of them and contradicts one.
MCOnce == MCPublishers \X {1} \X {0} \X MCSevere
MCCounting == {<<p1, 1, 1, Severe>>, <<p1, 1, 2, Clear>>, <<p1, 2, 0, Severe>>,
               <<p2, 1, 0, Severe>>}
MCEither == {<<p1, 1, 0, Severe>>, <<p1, 1, 0, Clear>>}

\* Escalation at once, recovery after two samples.
MCPolicy ==
  [escalate |-> 1, deescalate |-> 1, dwell |-> 0, dwellOnEscalation |-> FALSE,
   recovery |-> TRUE, improved |-> 2, single |-> FALSE, clear |-> 1, hold |-> 0]
=============================================================================
