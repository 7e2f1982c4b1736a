--------------------------- MODULE MCCoordinator ---------------------------
(***************************************************************************)
(* Instances of Coordinator for TLC.                                       *)
(***************************************************************************)
EXTENDS Coordinator, TLC

CONSTANTS c1, c2, p1, b1, b2

MCConns == {c1, c2}
MCPublishers == {p1}
MCBoots == {b1, b2}
MCOneBoot == {b1}
MCSockets == {0}
MCPipes == {2}
MCPlatforms == {0, 2}
Interchangeable == Permutations(MCConns) \cup Permutations(MCBoots)

\* What run_publisher sends with and without its goodbye and its handshake, and
\* what other clients may send.
MCScripts ==
  {<<"Hello", "Goodbye">>, <<"Hello", "Evidence", "Evidence">>,
   <<"Heartbeat", "Evidence">>, <<"Other">>, <<"Malformed">>}
MCFewScripts == {<<"Hello", "Goodbye">>, <<"Hello", "Evidence">>}
=============================================================================
