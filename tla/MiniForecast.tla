---------------------------- MODULE MiniForecast ----------------------------
(***************************************************************************)
(* One run of the default Wai Mini forecast: the adaptive cascade calls    *)
(* the best ranked expert, may call the next ones in a second stage, the   *)
(* successful forecasts are combined and verified, and the safe fallback   *)
(* is tried when nothing succeeded or the verifier rejected the result.    *)
(* Expert calls go through the thread pools of run_experts, which may give *)
(* up on a call that goes on in the background.                            *)
(*                                                                         *)
(* Abstractions.                                                           *)
(*  - A numerical expert the gate admits is named by its rank in the plan  *)
(*    (1 is the primary expert); the safe fallback is expert 0.            *)
(*  - A forecast is what became of it: "ok" or "failed" (its `ok').        *)
(*  - The signals behind should_escalate and the verifier's verdict are    *)
(*    free choices.  The verifier's unrecoverable rejection (lower bound   *)
(*    above upper bound) is left out: combine() returns f - h and f + h    *)
(*    with h >= 0, so verify() never meets it.                             *)
(*  - Precomputed forecasts of experts outside the plan are never looked   *)
(*    at and are left out.                                                 *)
(*  - `expired' says that the time of the running pool is used up.         *)
(***************************************************************************)
EXTENDS Naturals, Sequences, FiniteSetsExt, Functions

CONSTANTS
  MaxRanked,      \* bound: numerical experts the gate may admit
  MaxEscalation,  \* CascadePolicy.max_escalation_experts
  Budgets         \* the ExecutionBudgets a run may be given

Fallback == 0
Experts == 0..MaxRanked

BudgetType == [maxCalls : Nat, reserve : BOOLEAN, timed : BOOLEAN,
               parallel : BOOLEAN, workers : Nat]

ASSUME MiniAssumption ==
  /\ MaxRanked \in Nat /\ MaxEscalation \in Nat
  /\ Budgets \subseteq BudgetType

VARIABLES
  budget,         \* the ExecutionBudget of this run, fixed
  ranked,         \* number of numerical experts in the plan, fixed
  baseline,       \* safe_fallback is not registered, excluded or eligible, fixed
  precomputed,    \* precomputed_forecasts: expert -> forecast, fixed
  phase,          \* where the conductor thread stands
  results,        \* ExpertExecutionResults of the cascade, in order
  requested,      \* the experts of the current stage, in order
  batch,          \* those of them handed to run_experts
  runs,           \* ExpertRuns recorded for the batch so far
  parallel,       \* does the batch share one pool?
  expired,        \* the running pool's timeout has passed
  job,            \* the future of every expert
  fallbackCalls,  \* calls of _safe_fallback made
  used,           \* the forecasts behind the combined one
  fallbackUsed,   \* fallback_used
  status,         \* ForecastResult.status, "" until there is one
  late            \* history: experts unfinished when their pool's time was up

plan    == <<budget, ranked, baseline, precomputed>>
pool    == <<requested, batch, runs, parallel, expired, job, late>>
outcome == <<fallbackCalls, used, fallbackUsed, status>>
vars    == <<plan, phase, results, pool, outcome>>

Forecasts == {"ok", "failed"}
Finished(e) == job[e] \in Forecasts
-----------------------------------------------------------------------------
(***************************************************************************)
(* What a list comprehension with a condition returns, given the positions *)
(* it keeps: those elements in their order.                                *)
(***************************************************************************)
\* How many of the positions I are at most i: the place of i among them.
Rank(I, i) == Cardinality({j \in I : j <= i})

\* The k-th of the positions I.
Nth(I, k) == CHOOSE i \in I : Rank(I, i) = k

\* The elements of s at the positions I.
Selected(s, I) == [k \in 1..Cardinality(I) |-> s[Nth(I, k)]]
-----------------------------------------------------------------------------
(***************************************************************************)
(* What the cascade derives from its plan and results.                     *)
(***************************************************************************)
Primary == IF ranked > 0 THEN {1} ELSE IF baseline = "eligible" THEN {Fallback} ELSE {}

\* Calls the cascade may spend: one is held back for an eligible baseline.
CallBudget ==
  LET held == IF budget.reserve /\ baseline = "eligible" THEN 1 ELSE 0
  IN  IF budget.maxCalls > held THEN budget.maxCalls - held ELSE 1

Calls == Cardinality({i \in DOMAIN results : ~results[i].reused})
Remaining == CallBudget - Calls

Candidates == 2..ranked      \* escalation_candidates

\* A bug: stage 2 bounded by the policy and the plan only.
UnboundedExtra == Min({MaxEscalation, Cardinality(Candidates)})
\* How many escalation candidates stage 2 runs.
Extra == Min({MaxEscalation, Remaining, Cardinality(Candidates)})

Succeeded == {i \in DOMAIN results : results[i].outcome = "ok"}
\* A bug: failed and timed-out results are passed on to the combiner.
AllResults == [i \in DOMAIN results |-> results[i].name]
Successful == Selected([i \in DOMAIN results |-> results[i].name], Succeeded)

\* combine() drops the safe baseline from a set of several forecasts.
Combined ==
  IF Len(used) > 1 THEN Selected(used, {i \in DOMAIN used : used[i] # Fallback}) ELSE used

\* The stage's results, reused or executed, in the order requested.
Result(e) ==
  IF e \in DOMAIN precomputed
  THEN [name |-> e, outcome |-> precomputed[e], reused |-> TRUE]
  ELSE [name |-> e, reused |-> FALSE,
        outcome |-> runs[CHOOSE i \in DOMAIN batch : batch[i] = e]]
\* A bug the sort at the end of _run_many prevents: reused results come first.
ReusedFirst ==
  LET reused == Selected(requested, {i \in DOMAIN requested : requested[i] \in DOMAIN precomputed})
      names  == reused \o batch
  IN  [i \in DOMAIN names |-> Result(names[i])]
StageResults == [i \in DOMAIN requested |-> Result(requested[i])]
-----------------------------------------------------------------------------
(***************************************************************************)
(* The pools of run_experts: one for a parallel batch, one per expert      *)
(* otherwise.  A call without a timeout in a sequential batch runs in the  *)
(* conductor thread, which is the same as a pool of one that is awaited.   *)
(***************************************************************************)
Awaited == Len(runs) + 1       \* the future awaited
PoolOf(i) == IF parallel THEN {batch[k] : k \in DOMAIN batch} ELSE {batch[i]}
Threads == IF parallel THEN Max({1, Min({budget.workers, Len(batch)})}) ELSE 1
Running(p) == {e \in p : job[e] = "running"}
Awaiting == phase = "running" /\ Awaited <= Len(batch)

\* A bug: calling experts whose forecast is known.
CallAll(names) == names
ToCall(names) == Selected(names, {i \in DOMAIN names : names[i] \notin DOMAIN precomputed})

\* Hand a stage's experts to the pools; reused forecasts need no call.
Request(names) ==
  LET todo == ToCall(names)
  IN  \E threadSafe \in BOOLEAN :
        /\ requested' = names /\ batch' = todo /\ runs' = <<>>
        /\ parallel' = (budget.parallel /\ Len(todo) > 1 /\ threadSafe)
        /\ expired' = FALSE
        /\ job' = [e \in Experts |->
                     IF \E i \in DOMAIN todo : todo[i] = e /\ (parallel' \/ i = 1)
                     THEN "queued" ELSE job[e]]
        /\ phase' = "running"

\* Record the awaited run; a sequential batch then opens the next pool.
Record(run, jobs) ==
  /\ runs' = Append(runs, run)
  /\ IF parallel \/ Awaited = Len(batch)
     THEN job' = jobs /\ UNCHANGED expired
     ELSE job' = [jobs EXCEPT ![batch[Awaited + 1]] = "queued"] /\ expired' = FALSE
  /\ UNCHANGED <<plan, phase, results, requested, batch, parallel, late, outcome>>

\* A pool thread takes the oldest queued future.
Start(e) ==
  /\ Awaiting /\ job[e] = "queued"
  /\ \E i \in DOMAIN batch :
       /\ batch[i] = e
       /\ \A k \in 1..(i - 1) : job[batch[k]] # "queued"
       /\ Cardinality(Running(PoolOf(i))) < Threads
  /\ job' = [job EXCEPT ![e] = "running"]
  /\ UNCHANGED <<plan, phase, results, requested, batch, runs, parallel, expired, late, outcome>>

\* The expert returns or raises, maybe long after anyone waits for it.
Finish(e) ==
  /\ job[e] = "running"
  /\ \E f \in Forecasts : job' = [job EXCEPT ![e] = f]
  /\ UNCHANGED <<plan, phase, results, requested, batch, runs, parallel, expired, late, outcome>>

DeadlinePasses ==
  /\ Awaiting /\ budget.timed /\ ~expired
  /\ expired' = TRUE
  /\ late' = late \cup {e \in PoolOf(Awaited) : ~Finished(e)}
  /\ UNCHANGED <<plan, phase, results, requested, batch, runs, parallel, job, outcome>>

\* future.result() of a finished future returns at once, whatever the time.
TakeResult ==
  /\ Awaiting /\ Finished(batch[Awaited])
  /\ Record(job[batch[Awaited]], job)

CanTimeOut == expired /\ ~Finished(batch[Awaited])
\* A bug: cancel() forgotten, so the queued call still runs later.
StillQueued(e) == job
Cancelled(e) == IF job[e] = "queued" THEN [job EXCEPT ![e] = "cancelled"] ELSE job

\* A bug: the run is recorded with the state its future happens to be in.
FutureState(e) == job[e]
TimedOut(e) == "timeout"

\* TimeoutError: the queued call is cancelled, a running one is abandoned.
TimeOut ==
  /\ Awaiting /\ CanTimeOut
  /\ Record(TimedOut(batch[Awaited]), Cancelled(batch[Awaited]))

\* A bug: shutdown(wait=True) joins the abandoned threads.
JoinThreads == \A e \in Experts : job[e] # "running"
ShutDown == budget.timed \/ \A i \in DOMAIN batch : job[batch[i]] # "running"

\* The pool is shut down and the stage's results are appended.
Collect ==
  /\ phase = "running" /\ Len(runs) = Len(batch) /\ ShutDown
  /\ results' = results \o StageResults
  /\ phase' = IF results = <<>> THEN "assess" ELSE "gather"
  /\ UNCHANGED <<plan, pool, outcome>>
-----------------------------------------------------------------------------
(***************************************************************************)
(* AdaptiveCascade.execute and ForecastPipeline._run_adaptive.             *)
(***************************************************************************)
Init ==
  /\ budget \in Budgets
  /\ ranked \in 0..MaxRanked
  /\ baseline \in {"absent", "excluded", "eligible"}
  /\ \E known \in SUBSET (0..ranked) : precomputed \in [known -> Forecasts]
  /\ phase = "plan" /\ results = <<>>
  /\ requested = <<>> /\ batch = <<>> /\ runs = <<>>
  /\ parallel = FALSE /\ expired = FALSE /\ late = {}
  /\ job = [e \in Experts |-> "idle"]
  /\ fallbackCalls = 0 /\ used = <<>> /\ fallbackUsed = FALSE /\ status = ""

\* Stage 1: the primary expert, if the gate left any.
RunPrimary ==
  /\ phase = "plan" /\ Primary # {}
  /\ \E e \in Primary : Request(<<e>>)
  /\ UNCHANGED <<plan, results, late, outcome>>

NothingToRun ==
  /\ phase = "plan" /\ Primary = {}
  /\ phase' = "gather"
  /\ UNCHANGED <<plan, results, pool, outcome>>

\* should_escalate: always after a failed primary, else only with calls left.
MayEscalate == results[1].outcome = "ok" => Remaining > 0
MayStop == results[1].outcome = "ok"

\* Stage 2: the next experts of the plan.
Escalate ==
  /\ phase = "assess" /\ MayEscalate
  /\ IF Extra > 0
     THEN Request([i \in 1..Extra |-> i + 1])
     ELSE /\ phase' = "gather"
          /\ UNCHANGED <<requested, batch, runs, parallel, expired, job>>
  /\ UNCHANGED <<plan, results, late, outcome>>

StopEarly ==
  /\ phase = "assess" /\ MayStop
  /\ phase' = "gather"
  /\ UNCHANGED <<plan, results, pool, outcome>>

BaselineIncluded == \E i \in DOMAIN Successful : Successful[i] = Fallback

\* The cascade left successful forecasts.
Gather ==
  /\ phase = "gather" /\ Successful # <<>>
  /\ used' = Successful
  /\ fallbackUsed' = BaselineIncluded
  /\ phase' = "combine"
  /\ UNCHANGED <<plan, results, pool, fallbackCalls, status>>

Unavailable == status' = "unavailable" /\ phase' = "done"

\* _safe_fallback: called in the conductor thread, whatever was called before.
CallFallback(ok) ==
  /\ baseline # "absent"
  /\ fallbackCalls' = fallbackCalls + 1
  /\ ok \in BOOLEAN

\* No successful expert: the reserved safe fallback call.
LastResort ==
  /\ phase = "gather" /\ Successful = <<>>
  /\ \E ok \in BOOLEAN :
       /\ CallFallback(ok)
       /\ IF ok
          THEN /\ used' = <<Fallback>> /\ fallbackUsed' = TRUE
               /\ phase' = "combine" /\ UNCHANGED status
          ELSE Unavailable /\ UNCHANGED <<used, fallbackUsed>>
  /\ UNCHANGED <<plan, results, pool>>

NoPath ==
  /\ phase = "gather" /\ Successful = <<>> /\ baseline = "absent"
  /\ Unavailable
  /\ UNCHANGED <<plan, results, pool, fallbackCalls, used, fallbackUsed>>

Combine ==
  /\ phase = "combine"
  /\ phase' = "verify"
  /\ UNCHANGED <<plan, results, pool, outcome>>

\* combine() raises, on a forecast without bounds: reported unavailable as well,
\* told apart here because no fallback is tried.
CombinerFails ==
  /\ phase = "combine"
  /\ status' = "combiner_failed" /\ phase' = "done"
  /\ UNCHANGED <<plan, results, pool, fallbackCalls, used, fallbackUsed>>

Accept ==
  /\ phase = "verify"
  /\ used' = Combined /\ status' = "available" /\ phase' = "done"
  /\ UNCHANGED <<plan, results, pool, fallbackCalls, fallbackUsed>>

\* A bug: a rejected forecast gets no second attempt.
NoRecovery == FALSE
CanRecover == ~fallbackUsed /\ baseline # "absent"

\* Rejected: the safe fallback is called, combined and verified by itself, and
\* replaces the rejected forecast only when it is accepted.
RejectAndRecover ==
  /\ phase = "verify" /\ CanRecover
  /\ \E ok, accepted \in BOOLEAN :
       /\ CallFallback(ok)
       /\ IF ok /\ accepted
          THEN /\ used' = <<Fallback>> /\ fallbackUsed' = TRUE
               /\ status' = "available" /\ phase' = "done"
          ELSE Unavailable /\ UNCHANGED <<used, fallbackUsed>>
  /\ UNCHANGED <<plan, results, pool>>

Reject ==
  /\ phase = "verify" /\ ~CanRecover
  /\ Unavailable
  /\ UNCHANGED <<plan, results, pool, fallbackCalls, used, fallbackUsed>>

Conductor ==
  \/ RunPrimary \/ NothingToRun \/ TakeResult \/ TimeOut \/ Collect
  \/ Escalate \/ StopEarly \/ Gather \/ LastResort \/ NoPath
  \/ Combine \/ CombinerFails \/ Accept \/ RejectAndRecover \/ Reject

Next == Conductor \/ DeadlinePasses \/ \E e \in Experts : Start(e) \/ Finish(e)

\* The conductor thread runs and time passes; an expert may hang for ever.
Spec == Init /\ [][Next]_vars /\ WF_vars(Conductor) /\ WF_vars(DeadlinePasses)
-----------------------------------------------------------------------------
(***************************************************************************)
(* Properties.                                                             *)
(***************************************************************************)
Outcomes == Forecasts \cup {"timeout"}
ResultType == [name : Experts, outcome : Outcomes, reused : BOOLEAN]

\* The variables have the types of the objects they stand for; a recorded run is an
\* answer or a timeout, never a future that is still under way.
TypeOK ==
  /\ budget \in Budgets /\ ranked \in 0..MaxRanked
  /\ baseline \in {"absent", "excluded", "eligible"}
  /\ DOMAIN precomputed \subseteq Experts
  /\ \A e \in DOMAIN precomputed : precomputed[e] \in Forecasts
  /\ phase \in {"plan", "running", "assess", "gather", "combine", "verify", "done"}
  /\ results \in Seq(ResultType)
  /\ requested \in Seq(Experts) /\ batch \in Seq(Experts) /\ runs \in Seq(Outcomes)
  /\ parallel \in BOOLEAN /\ expired \in BOOLEAN /\ late \subseteq Experts
  /\ job \in [Experts -> {"idle", "queued", "running", "cancelled"} \cup Forecasts]
  /\ fallbackCalls \in Nat /\ used \in Seq(Experts) /\ fallbackUsed \in BOOLEAN
  /\ status \in {"", "available", "unavailable", "combiner_failed"}

\* Whatever order the threads finish in and whichever forecasts were reused,
\* the results are those of the plan's experts in plan order: the assessment
\* takes the first one for the primary's.
ResultsInPlanOrder ==
  ranked > 0 => \A i \in DOMAIN results : results[i].name = i

\* Expert calls started, the abandoned ones included.
StartedCalls == Cardinality({e \in Experts : job[e] \notin {"idle", "queued", "cancelled"}})

\* The cascade keeps to its budget; with a call held back for an eligible
\* baseline, even the run with its fallback call costs no more than
\* max_expert_calls (a budget of one still buys the primary and the fallback).
CallBudgetKept ==
  /\ fallbackCalls <= 1
  /\ StartedCalls <= Max({1, budget.maxCalls})
  /\ (budget.reserve /\ baseline = "eligible") =>
       StartedCalls + fallbackCalls <= Max({2, budget.maxCalls})

\* An expert that answered before its time was up is never reported timed out,
\* even when the conductor looks at it only afterwards.
TimelyAnswerKept ==
  \A i \in DOMAIN results : results[i].outcome = "timeout" => results[i].name \in late

\* Once a stage is over no call of it is still to be started, and one still
\* running was reported timed out; without a timeout none is left running.
NoStrayCall ==
  phase # "running" =>
    \A e \in Experts :
      /\ job[e] # "queued"
      /\ job[e] = "running" =>
           \E i \in DOMAIN results : results[i].name = e /\ results[i].outcome = "timeout"

\* A stage accounts for its calls: one that answered in time is reported so, one that did
\* not was timed out, and none starts after the stage is over.
StageAccounted == TimelyAnswerKept /\ NoStrayCall

\* The cascade calls an expert at most once, and never one whose forecast was
\* given to it.
CalledOnce ==
  [][\A e \in Experts :
       (job'[e] = "queued" /\ job[e] # "queued") =>
          job[e] = "idle" /\ e \notin DOMAIN precomputed]_vars

\* The safe baseline is never averaged with other forecasts, and the run says
\* it used the fallback exactly when the released forecast is the baseline's.
BaselineAlone ==
  status = "available" =>
    (fallbackUsed <=> \E i \in DOMAIN used : used[i] = Fallback) /\ (fallbackUsed => Len(used) = 1)

\* A run with a registered fallback gives up only after trying it, alone or as
\* the primary expert; a failing combiner is the one exception.
FallbackBeforeGivingUp ==
  (status = "unavailable" /\ baseline # "absent") =>
    fallbackCalls > 0 \/ \E i \in DOMAIN results : results[i].name = Fallback

\* The fallback is right: tried before the run gives up, and never mixed with forecasts it
\* replaces.
FallbackRight == BaselineAlone /\ FallbackBeforeGivingUp

\* What a caller of the pipeline sees of a run.
Status ==
  IF phase # "done" THEN "running"
  ELSE IF status = "available" THEN "available" ELSE "unavailable"
Obtained ==
  {results[i].name : i \in {k \in DOMAIN results : results[k].outcome = "ok"}}
    \cup {e \in {Fallback} : fallbackUsed}
Released == IF status = "available" THEN Range(used) ELSE {}

Abstract == INSTANCE ForecastRun
              WITH status <- Status, obtained <- Obtained, released <- Released

\* A run is one of ForecastRun: through both stages, a rejection and the recovery
\* after it, the result is made of forecasts that experts of this run returned.
ImplementsForecastRun == Abstract!Spec

\* With a timeout the run ends although experts hang.
Answers == (phase = "plan" /\ budget.timed) ~> (phase = "done")
-----------------------------------------------------------------------------
(***************************************************************************)
(* Statements of the repository the code does not meet.                    *)
(***************************************************************************)
\* The executor's `per-expert timeout': no expert's time is spent while it
\* waits for a thread another expert holds.
PerExpertTimeout ==
  [][(~expired /\ expired') =>
       \A e \in PoolOf(Awaited) :
         job[e] = "queued" => Cardinality(Running(PoolOf(Awaited))) < Threads]_vars
=============================================================================
