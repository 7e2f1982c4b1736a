----------------------------- MODULE Hysteresis -----------------------------
(***************************************************************************)
(* The hysteresis state machine of one congestion domain as a function     *)
(* from a domain state to the next one (src/eval/hysteresis.cpp), and the  *)
(* demotions a restart, an epoch advance and an authority change apply to  *)
(* it (src/eval/evaluator.cpp, src/fabric/fabric.cpp).                     *)
(*                                                                         *)
(* Severities are the numbers of the C++ enumeration.  A tick is a natural *)
(* number, 0 for kNoTick.  The thresholds that turn evidence into a        *)
(* severity are not here: a proposal is what they yield.                   *)
(***************************************************************************)
EXTENDS Integers

CONSTANT MaxSamples \* limits::kMaxHysteresisSamples

ASSUME SamplesAssumption == MaxSamples \in Nat \ {0, 1}

Clear == 0
Watch == 1
Congested == 2
Severe == 3
Severity == Clear..Severe

AuthoritativeStates == {"Clear", "Watch", "Congested", "Severe", "Recovering"}
IndeterminateStates == {"Unknown", "Stale", "Conflict"}
CongestionState == AuthoritativeStates \cup IndeterminateStates

IsAuthoritative(s) == s \in AuthoritativeStates

\* severity_of: Recovering counts as Watch; value_or(Clear) for the others.
SeverityOf(s) ==
  CASE s \in {"Watch", "Recovering"} -> Watch
    [] s = "Congested" -> Congested
    [] s = "Severe" -> Severe
    [] OTHER -> Clear

StateOf(v) == <<"Clear", "Watch", "Congested", "Severe">>[v + 1]

\* HysteresisPolicy and RecoveryPolicy, as validate_policy accepts them.
Policy ==
  {q \in [escalate : 1..MaxSamples, deescalate : 1..MaxSamples, dwell : Nat,
          dwellOnEscalation : BOOLEAN, recovery : BOOLEAN, improved : 1..MaxSamples,
          single : BOOLEAN, clear : 1..MaxSamples, hold : Nat] :
     q.single \/ q.improved >= 2}

\* SeverityProposal. With a value, down is the severity once the downgrade
\* margin is applied, which the evaluator never lets fall below up. Without
\* one, why says what is wrong.
Proposal ==
  {p \in [value : {TRUE}, up : Severity, down : Severity] : p.up <= p.down}
    \cup [value : {FALSE}, why : {"Conflict", "Unknown"}]

\* The part of a DomainState the machine reads and writes.
DomainState ==
  [state : CongestionState, candidate : CongestionState, streak : 0..MaxSamples,
   lastChange : Nat, lastAuth : Nat, lastEval : Nat, severity : Severity,
   flag : BOOLEAN]

NewDomain ==
  [state |-> "Unknown", candidate |-> "Unknown", streak |-> 0, lastChange |-> 0,
   lastAuth |-> 0, lastEval |-> 0, severity |-> Clear, flag |-> FALSE]

-----------------------------------------------------------------------------
(* HysteresisEngine::step *)

\* A tick before the last change or evaluation is refused.
Regressed(d, now) == now < d.lastChange \/ now < d.lastEval

\* Mutant: the streak survives the blackout.
RefuseKeepsStreak(d, why, now) ==
  LET target == IF why = "Unknown" /\ d.lastAuth # 0 THEN "Stale" ELSE why
  IN  [d EXCEPT !.state = target,
                !.lastChange = IF d.state = target THEN @ ELSE now]

\* Mutant: the blackout wipes out what the domain went through.
RefuseForgets(d, why, now) ==
  [RefuseKeepsStreak(d, why, now) EXCEPT !.candidate = "Unknown", !.streak = 0,
                                         !.severity = Clear]

\* Refusal to decide: at once, and the streak starts over.
Refuse(d, why, now) ==
  LET target == IF why = "Unknown" /\ d.lastAuth # 0 THEN "Stale" ELSE why
  IN  [d EXCEPT !.state = target,
                !.candidate = "Unknown",
                !.streak = 0,
                !.lastChange = IF d.state = target THEN @ ELSE now]

RecoverySamples(q) == IF q.single THEN 1 ELSE IF q.improved > 2 THEN q.improved ELSE 2

Goal(target, required, escalation) ==
  [target |-> target, required |-> required, escalation |-> escalation]

\* The ladder out of an indeterminate state.
GoalFromRefusal(d, p, q) ==
  CASE p.up >= Congested -> Goal(StateOf(p.up), q.escalate, TRUE)
    [] p.up < Congested /\ q.recovery /\ d.severity >= Congested ->
         Goal("Recovering", RecoverySamples(q), FALSE)
    [] OTHER -> Goal(StateOf(p.up), 1, FALSE)

\* The ladder down from an authoritative state.
GoalDown(d, p, q) ==
  CASE d.state = "Recovering" /\ p.down = Clear -> Goal("Clear", q.clear, FALSE)
    [] d.state # "Recovering" /\ q.recovery /\ p.down = Clear
         /\ SeverityOf(d.state) >= Congested ->
         Goal("Recovering", RecoverySamples(q), FALSE)
    [] OTHER -> Goal(StateOf(p.down), q.deescalate, FALSE)

GoalOf(d, p, q) ==
  CASE ~IsAuthoritative(d.state) -> GoalFromRefusal(d, p, q)
    [] IsAuthoritative(d.state) /\ p.up > SeverityOf(d.state) ->
         Goal(StateOf(p.up), q.escalate, TRUE)
    [] OTHER -> GoalDown(d, p, q)

\* Neither a rise nor a fall.
Steady(d, p) ==
  /\ IsAuthoritative(d.state)
  /\ p.up <= SeverityOf(d.state)
  /\ p.down >= SeverityOf(d.state)

StaySteady(d, now) ==
  [d EXCEPT !.candidate = d.state, !.streak = 0, !.lastAuth = now,
            !.severity = SeverityOf(d.state)]

\* Mutant: every sample is the first of its streak.
CountedAnew(d, target) == [d EXCEPT !.candidate = target, !.streak = 1]

\* Mutant: the streak does not saturate.
CountedUnbounded(d, target) ==
  [d EXCEPT !.candidate = target,
            !.streak = IF d.candidate # target THEN 1 ELSE @ + 1]

\* One more sample for the target; the streak saturates.
Counted(d, target) ==
  [d EXCEPT !.candidate = target,
            !.streak = IF d.candidate # target \/ @ = 0 THEN 1
                       ELSE IF @ < MaxSamples THEN @ + 1 ELSE @]

\* The dwell time, and the time to stay in Recovering.
Held(d, g, q, now) ==
  /\ d.lastChange # 0
  /\ \/ (g.escalation => q.dwellOnEscalation) /\ now - d.lastChange < q.dwell
     \/ d.state = "Recovering" /\ now - d.lastChange < q.hold

Commit(d, target, now) ==
  [d EXCEPT !.state = target, !.candidate = "Unknown", !.streak = 0,
            !.lastChange = now, !.lastAuth = now, !.severity = SeverityOf(target),
            !.flag = FALSE]

\* The ladder: count the sample, then hold or commit. The goal is never the
\* state the domain is already in.
Climb(d, p, q, now) ==
  LET g == GoalOf(d, p, q)
      c == Counted(d, g.target)
  IN  IF Held(d, g, q, now) \/ c.streak < g.required THEN c ELSE Commit(c, g.target, now)

Step(d, p, q, now) ==
  CASE Regressed(d, now) -> d
    [] ~Regressed(d, now) /\ ~p.value -> Refuse(d, p.why, now)
    [] ~Regressed(d, now) /\ p.value /\ Steady(d, p) -> StaySteady(d, now)
    [] OTHER -> Climb(d, p, q, now)

\* CongestionEvaluator::evaluate around the step: the tick is recorded even
\* when the step refused it.
Evaluated(d, p, q, now) == [Step(d, p, q, now) EXCEPT !.lastEval = now]

\* EvaluationOutcome::authoritative, of the state d that evaluating p yields.
OutcomeAuthoritative(d, p) == IsAuthoritative(d.state) /\ ~d.flag /\ p.value

-----------------------------------------------------------------------------
(* Demotions *)

\* domains_ and the document have no entry before the first evaluation.
Absent(d) == d.lastEval = 0

Demote(d, state) ==
  IF Absent(d) THEN d
  ELSE [d EXCEPT !.state = state, !.candidate = "Unknown", !.streak = 0, !.flag = TRUE]

\* demote_after_recovery and Fabric::open: the ticks of the former process
\* stay in the record.
DemoteAfterRecovery(d) ==
  Demote(d, IF ~IsAuthoritative(d.state) THEN d.state
            ELSE IF d.lastAuth = 0 THEN "Unknown" ELSE "Stale")

\* Fabric::advance_epoch.
DemoteForEpoch(d) == Demote(d, IF IsAuthoritative(d.state) THEN "Stale" ELSE d.state)

\* Mutant: a policy change leaves the domain as it was.
InvalidateNothing(d) == d

\* Fabric::invalidate_generations_locked.
Invalidate(d) == [d EXCEPT !.flag = @ \/ IsAuthoritative(d.state)]
=============================================================================
