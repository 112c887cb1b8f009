--------------------------- MODULE FailureEngine ---------------------------
(***************************************************************************)
(* Deterministic failure injection of the simulator (ciac-sim/failure.rs)  *)
(* and the only way its Rust world consults it (SimWorld::should_fail).    *)
(*                                                                         *)
(* The engine is a value, [matched, counts], that the modules of the fakes *)
(* carry in a variable: which rules have fired, and how often each pair of *)
(* an effect and a subject has occurred.                                   *)
(***************************************************************************)
EXTENDS Integers, FiniteSets, Sequences

CONSTANTS
  Rules,       \* the scenario's `given.failures`, in declaration order
  Effects,     \* the effects and subjects that can occur, <<effect, subject>>
  CountCap,    \* occurrence counters saturate here; see CapAssumption
  Every        \* a selector's `None`: any subject, any occurrence

FailurePhase == {"before", "after"}
FailureAction == {"error", "delay", "timeout", "lose", "duplicate", "disconnect"}

FailureRule ==
  [effect : STRING, subject : {e[2] : e \in Effects} \cup {Every},
   occurrence : Nat \cup {Every}, phase : FailurePhase, action : FailureAction]

ASSUME RulesAssumption == Rules \in Seq(FailureRule) /\ CountCap \in Nat

\* No rule asks for an occurrence the saturated counter cannot tell apart.
CapAssumption ==
  \A i \in DOMAIN Rules : Rules[i].occurrence = Every \/ Rules[i].occurrence < CountCap

ASSUME CapAssumption

Engine == [matched : SUBSET (DOMAIN Rules), counts : [Effects -> 0..CountCap]]

NewEngine == [matched |-> {}, counts |-> [e \in Effects |-> 0]]

\* This occurrence's number, 1-based and per (effect, subject).
Occurrence(eng, effect) ==
  IF eng.counts[effect] = CountCap THEN CountCap ELSE eng.counts[effect] + 1

Matches_FaultyRefires(eng, i, effect, phase) ==
  LET at == Rules[i] IN
  /\ at.effect = effect[1]
  /\ at.subject \in {Every, effect[2]}
  /\ at.phase = phase
  /\ at.occurrence \in {Every, Occurrence(eng, effect)}

Matches(eng, i, effect, phase) ==
  LET at == Rules[i] IN
  /\ i \notin eng.matched
  /\ at.effect = effect[1]
  /\ at.subject \in {Every, effect[2]}
  /\ at.phase = phase
  /\ at.occurrence \in {Every, Occurrence(eng, effect)}

\* The rule that decides this occurrence: the first still-unmatched one.
Firing(eng, effect, phase) ==
  {i \in DOMAIN Rules : /\ Matches(eng, i, effect, phase)
                        /\ \A j \in 1..(i - 1) : ~Matches(eng, j, effect, phase)}

\* The engine after one occurrence, whatever was decided.
Record(eng, effect, phase) ==
  [matched |-> eng.matched \cup Firing(eng, effect, phase),
   counts  |-> [eng.counts EXCEPT ![effect] = Occurrence(eng, effect)]]

\* What should_fail tells its caller: it always records phase `after`, maps
\* `error` to a simulated failure and refuses every other action.
ShouldFail(eng, effect) ==
  LET fired == Firing(eng, effect, "after") IN
  IF fired = {} THEN "pass"
  ELSE IF \E i \in fired : Rules[i].action = "error" THEN "injected"
  ELSE "unsupported"

Observed(eng, effect) == Record(eng, effect, "after")

\* The rules SIM0007 reports when the scenario ends.
UnmatchedRules(eng) == DOMAIN Rules \ eng.matched
=============================================================================
