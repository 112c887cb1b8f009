------------------------------ MODULE SimRunner ------------------------------
(***************************************************************************)
(* One scenario run of the generated Rust simulation runner                *)
(* (sim_runner.rs.j2) over the fake broker and the virtual clock of        *)
(* ciac-sim: requests publish messages, `drain` lets the workers consume   *)
(* them, `advance` runs the jobs that come due.                            *)
(*                                                                         *)
(* A message is its position in the log of its subject; a scenario is any  *)
(* series of at most MaxSteps steps.                                       *)
(***************************************************************************)
EXTENDS FailureEngine

CONSTANTS
  Stream,      \* subjects
  Apis,        \* what the api pipelines publish, each a sequence of subjects
  Workers,     \* in declaration order: [subject, publishes, retries]
  Jobs,        \* in declaration order: [fires, publishes]
  Minute,      \* clock ticks in a minute
  Period,      \* a schedule repeats after this many minutes
  Lookahead,   \* MAX_LOOKAHEAD_MINUTES
  DueCap,      \* the cap of due_instants
  StartAt,     \* the scenario's start_at
  Horizon,     \* no scenario advances beyond this time
  MaxSteps     \* the longest scenario

VARIABLES
  log,         \* BrokerLog.logs: messages published so far, per subject
  cursor,      \* BrokerLog.cursors: per worker, each being its own queue group
  queued,      \* FakeQueue: the subjects of the messages since the last sweep
  failures,    \* FailureEngine
  attempts,    \* Runner.worker_attempts
  runs,        \* Runner.job_runs
  now,         \* Runner.now_ms
  clock,       \* SimWorld's own clock
  pc,          \* where the runner is in the scenario
  steps        \* scenario steps taken

broker == <<log, queued, failures>>
vars == <<log, cursor, queued, failures, attempts, runs, now, clock, pc, steps>>

W == DOMAIN Workers
J == DOMAIN Jobs

ASSUME ClockAssumption ==
  /\ Minute \in Nat \ {0} /\ Period \in Nat \ {0} /\ StartAt \in Nat /\ Horizon \in Nat
  /\ Lookahead \in Nat /\ DueCap \in Nat /\ MaxSteps \in Nat
ASSUME SubjectsAssumption == {"broker.publish"} \X Stream \subseteq Effects
ASSUME PipelinesAssumption ==
  /\ Apis \subseteq Seq(Stream)
  /\ Workers \in Seq([subject : Stream, publishes : Seq(Stream), retries : Nat])
  /\ Jobs \in Seq([fires : SUBSET Nat, publishes : Seq(Stream)])

\* Runner positions: between steps, in a drain (worker w holds `left` drained
\* messages, the first of them tried `tries` times), in an advance (job j has run
\* n instants, the last of them `last`), after an error.
Idle == [at |-> "idle"]
Failed == [at |-> "failed"]
Turn(w) == [at |-> "turn", w |-> w]
Delivering(w, left, tries) == [at |-> "deliver", w |-> w, left |-> left, tries |-> tries]
Ticking(j, last, n, to) == [at |-> "tick", j |-> j, last |-> last, n |-> n, to |-> to]

------------------------------------------------------------------------------
(* Publishing.                                                             *)

Broker == [log |-> log, queued |-> queued, failures |-> failures, ok |-> TRUE]

\* publish_checked: into both the queue and the log, or into neither.
PublishOne(sofar, s) ==
  LET verdict == ShouldFail(sofar.failures, <<"broker.publish", s>>) IN
  [log |-> IF verdict = "pass" THEN [sofar.log EXCEPT ![s] = @ + 1] ELSE sofar.log,
   queued |-> IF verdict = "pass" THEN sofar.queued \cup {s} ELSE sofar.queued,
   failures |-> Observed(sofar.failures, <<"broker.publish", s>>),
   ok |-> verdict = "pass"]

\* The broker after each publish of a pipeline; the first that fails ends the pipeline.
Chain(start, streams) ==
  LET after[i \in 0..Len(streams)] ==
        IF i = 0 THEN start
        ELSE IF after[i - 1].ok THEN PublishOne(after[i - 1], streams[i]) ELSE after[i - 1]
  IN after

\* A pipeline run: its handlers succeed up to some point, and nothing that was
\* published before the failure is taken back.
Pipeline(streams, success) ==
  \E n \in 0..Len(streams), handled \in BOOLEAN :
    /\ handled => n = Len(streams)
    /\ LET sofar == Chain(Broker, streams)[n] IN
       /\ log' = sofar.log
       /\ queued' = sofar.queued
       /\ failures' = sofar.failures
       /\ success = (handled /\ sofar.ok)

------------------------------------------------------------------------------
(* Schedules: cron.rs.                                                     *)

Fires(job, t) == t % Minute = 0 /\ (t \div Minute) % Period \in job.fires

NextFire_FaultyInclusive(job, after) ==
  LET from == (after \div Minute) * Minute
      found == {t \in {from + k * Minute : k \in 0..Lookahead} : Fires(job, t)}
  IN IF found = {} THEN 0 ELSE CHOOSE t \in found : \A u \in found : t <= u

\* next_fire_after: the first matching minute after this one, 0 if there is
\* none within the lookahead.
NextFire(job, after) ==
  LET from == (after \div Minute) * Minute
      found == {t \in {from + k * Minute : k \in 1..Lookahead} : Fires(job, t)}
  IN IF found = {} THEN 0 ELSE CHOOSE t \in found : \A u \in found : t <= u

\* due_instants: the n-th of a job's instants up to `to` follows the one at
\* `last`, 0 if there is none or the cap is reached.
NextDue(job, last, n, to) ==
  LET next == NextFire(job, last) IN IF n < DueCap /\ next <= to THEN next ELSE 0

------------------------------------------------------------------------------
(* Scenario steps.                                                         *)

Init ==
  /\ log = [s \in Stream |-> 0]
  /\ cursor = [w \in W |-> 0]
  /\ queued = {}
  /\ failures = NewEngine
  /\ attempts = [w \in W |-> 0]
  /\ runs = [j \in J |-> 0]
  /\ now = StartAt
  /\ clock = StartAt
  /\ pc = Idle
  /\ steps = 0

NewStep == pc = Idle /\ steps < MaxSteps /\ steps' = steps + 1

\* An error of the handler becomes the response; the scenario goes on.
Request ==
  /\ NewStep
  /\ \E streams \in Apis, success \in BOOLEAN : Pipeline(streams, success)
  /\ UNCHANGED <<cursor, attempts, runs, now, clock, pc>>

StartDrain ==
  /\ NewStep
  /\ pc' = Turn(1)
  /\ UNCHANGED <<log, cursor, queued, failures, attempts, runs, now, clock>>

\* BrokerLog.drain: everything up to the head, acked as it is collected. An
\* error while collecting is not possible.
TakeBatch ==
  /\ pc.at = "turn" /\ pc.w \in W
  /\ LET s == Workers[pc.w].subject IN
     /\ pc' = Delivering(pc.w, log[s] - cursor[pc.w], 0)
     /\ cursor' = [cursor EXCEPT ![pc.w] = log[s]]
  /\ UNCHANGED <<log, queued, failures, attempts, runs, now, clock, steps>>

GivesUp_FaultyOneMore(w, tries) == tries > Workers[w].retries

\* Attempts run from 0 to MAX_RETRIES.
GivesUp(w, tries) == tries = Workers[w].retries

Attempt ==
  /\ pc.at = "deliver" /\ pc.left > 0
  /\ \E success \in BOOLEAN :
       /\ Pipeline(Workers[pc.w].publishes, success)
       /\ IF success \/ GivesUp(pc.w, pc.tries)
          THEN /\ pc' = Delivering(pc.w, pc.left - 1, 0)
               /\ attempts' = [attempts EXCEPT ![pc.w] = @ + pc.tries + 1]
          ELSE /\ pc' = Delivering(pc.w, pc.left, pc.tries + 1)
               /\ UNCHANGED attempts
  /\ UNCHANGED <<cursor, runs, now, clock, steps>>

\* A message whose payload cannot be read as the worker's record (a Float that was published
\* as null) ends the drain, and the scenario, before its first attempt.
Unreadable ==
  /\ pc.at = "deliver" /\ pc.left > 0 /\ pc.tries = 0
  /\ pc' = Failed
  /\ UNCHANGED <<log, cursor, queued, failures, attempts, runs, now, clock, steps>>

NextWorker_FaultySkips ==
  /\ pc.at = "deliver" /\ pc.left = 0
  /\ pc' = Turn(pc.w + 2)
  /\ UNCHANGED <<log, cursor, queued, failures, attempts, runs, now, clock, steps>>

NextWorker ==
  /\ pc.at = "deliver" /\ pc.left = 0
  /\ pc' = Turn(pc.w + 1)
  /\ UNCHANGED <<log, cursor, queued, failures, attempts, runs, now, clock, steps>>

Orphans == queued \ {Workers[w].subject : w \in W}

\* take_all, and an error for a subject nobody consumes.
Sweep ==
  /\ pc.at = "turn" /\ pc.w \notin W
  /\ queued' = {}
  /\ pc' = IF Orphans = {} THEN Idle ELSE Failed
  /\ UNCHANGED <<log, cursor, failures, attempts, runs, now, clock, steps>>

StartAdvance ==
  /\ NewStep
  /\ \E to \in now..Horizon : pc' = Ticking(1, now, 0, to)
  /\ UNCHANGED <<log, cursor, queued, failures, attempts, runs, now, clock>>

DueNow == IF pc.j \in J THEN NextDue(Jobs[pc.j], pc.last, pc.n, pc.to) ELSE 0

\* A job's error ends the scenario.
Tick ==
  /\ pc.at = "tick" /\ DueNow # 0
  /\ \E success \in BOOLEAN :
       /\ Pipeline(Jobs[pc.j].publishes, success)
       /\ pc' = IF success THEN Ticking(pc.j, DueNow, pc.n + 1, pc.to) ELSE Failed
       /\ runs' = IF success THEN [runs EXCEPT ![pc.j] = @ + 1] ELSE runs
  /\ UNCHANGED <<cursor, attempts, now, clock, steps>>

NextJob ==
  /\ pc.at = "tick" /\ DueNow = 0 /\ pc.j + 1 \in J
  /\ pc' = Ticking(pc.j + 1, now, 0, pc.to)
  /\ UNCHANGED <<log, cursor, queued, failures, attempts, runs, now, clock, steps>>

FinishAdvance ==
  /\ pc.at = "tick" /\ DueNow = 0 /\ pc.j + 1 \notin J
  /\ now' = pc.to
  /\ clock' = pc.to
  /\ pc' = Idle
  /\ UNCHANGED <<log, cursor, queued, failures, attempts, runs, steps>>

Running ==
  \/ TakeBatch \/ Attempt \/ Unreadable \/ NextWorker \/ Sweep
  \/ Tick \/ NextJob \/ FinishAdvance
Next == Request \/ StartDrain \/ StartAdvance \/ Running

Spec == Init /\ [][Next]_vars

\* expect.quiescence.
Quiescent == queued = {}

----------------------------------------------------------------------------
(***************************************************************************)
(* What a scenario may rely on.                                            *)
(***************************************************************************)

\* Every variable has its type, and the runner is where a step of it can be.
Position ==
  {Idle, Failed}
    \cup [at : {"turn"}, w : 1..(Len(Workers) + 1)]
    \cup [at : {"deliver"}, w : W, left : Nat, tries : Nat]
    \cup [at : {"tick"}, j : 1..(Len(Jobs) + 1), last : Nat, n : Nat, to : Nat]

TypeOK ==
  /\ log \in [Stream -> Nat]
  /\ cursor \in [W -> Nat]
  /\ queued \subseteq Stream
  /\ failures \in Engine
  /\ attempts \in [W -> Nat]
  /\ runs \in [J -> Nat]
  /\ now \in Nat /\ clock \in Nat
  /\ pc \in Position
  /\ steps \in 0..MaxSteps

Pending(w) == log[Workers[w].subject] - cursor[w]

\* Messages worker w is done with: handled, or given up after its last retry.
Done(w) == cursor[w] - (IF pc.at = "deliver" /\ pc.w = w THEN pc.left ELSE 0)

\* Every message a worker is done with took between one and retries + 1
\* attempts, whatever failed on the way (the drain loop, expect.worker_attempts); a scenario
\* that ended in an error may have lost a batch, and then only the upper bound stands.
AttemptsAddUp ==
  \A w \in W : /\ pc # Failed => attempts[w] >= Done(w)
               /\ attempts[w] <= Done(w) * (Workers[w].retries + 1)

\* The bounds of the schedules: a fire is found one period ahead, and no scenario is so long
\* that due_instants reaches its cap.
ClockReaches == Period <= Lookahead /\ (Horizon \div Minute) - (StartAt \div Minute) <= DueCap

\* Every worker is declared behind the workers that feed it.
DeclaredInFeedingOrder ==
  \A v, w \in W : (\E i \in DOMAIN Workers[v].publishes :
                     Workers[v].publishes[i] = Workers[w].subject) => v < w

\* A job has run once for each instant of its schedule since the start, in
\* however many steps the scenario advanced (due_instants on (from, to]).
EachInstantOnce ==
  pc = Idle => \A j \in J :
    runs[j] = Cardinality({t \in (StartAt + 1)..now : Fires(Jobs[j], t)})

\* Every publish that was tried is a message in the log or the one failure of a
\* rule: no rule fails two calls, none is used up by a call that succeeds, and a
\* failed publish leaves nothing behind (publish_checked, record_occurrence).
Total(f) == Cardinality(UNION {{s} \X (1..f[s]) : s \in Stream})
PublishesAddUp ==
  LET tried == [s \in Stream |-> failures.counts[<<"broker.publish", s>>]] IN
  (\A s \in Stream : tried[s] < CountCap) =>
    Total(tried) = Total(log) + Cardinality(failures.matched)

\* expect.quiescence passes only when nothing is left undelivered. It holds when
\* every worker is declared after the workers that feed it, as here; with
\* BackwardWorkers, the reverse order, TLC finds it violated (README, findings).
QuiescenceIsReal == (pc = Idle /\ Quiescent) => \A w \in W : Pending(w) = 0
=============================================================================
