------------------------- MODULE MCDomainLifecycle -------------------------
(***************************************************************************)
(* Instances of DomainLifecycle for TLC.                                   *)
(***************************************************************************)
EXTENDS DomainLifecycle

\* make_default_policy, its de-escalation count shortened.
Default ==
  [escalate |-> 1, deescalate |-> 2, dwell |-> 0, dwellOnEscalation |-> FALSE,
   recovery |-> TRUE, improved |-> 2, single |-> FALSE, clear |-> 2, hold |-> 0]

\* Slow to rise, with a dwell time and a time to stay in Recovering.
Slow ==
  [Default EXCEPT !.escalate = 2, !.dwell = 1, !.dwellOnEscalation = TRUE,
                  !.improved = 3, !.hold = 1]

\* No recovery, one sample suffices.
Eager ==
  [Default EXCEPT !.deescalate = 1, !.recovery = FALSE, !.single = TRUE,
                  !.improved = 1, !.clear = 1]

MCPolicies == {Slow, Eager}
=============================================================================
