--------------------------- MODULE UltraConductor ---------------------------
(***************************************************************************)
(* One run of the Wai Ultra conductor (UltraConductor.run): a coordinator  *)
(* policy picks one feasible action per turn, the executor runs it, the    *)
(* message is appended to the transcript, and a verifier may release the   *)
(* candidate, ask for a bounded child workflow (a replan) or force the     *)
(* reserved safe fallback.                                                 *)
(*                                                                         *)
(* Abstractions.                                                           *)
(*  - The policy is any policy: it may take every feasible action (the     *)
(*    learned head's argmax is one of them) and, when PolicyMayDecline, it *)
(*    may return None although some action is feasible, as the bootstrap   *)
(*    policy does.  Context-dependent masks (tide, freshness, QC, horizon, *)
(*    latency) only remove actions and are covered by that choice.         *)
(*  - A turn is numbered from 1 (turn t is turn_id t - 1 of the code).     *)
(*  - An access list is its set of turns plus `target', its last element,  *)
(*    which is the forecast a verifier judges.                             *)
(*  - TIMEOUT, FAILED and UNAVAILABLE are one status: nothing in the       *)
(*    conductor tells them apart.                                          *)
(*  - Numbers of a forecast, confidences and latencies are left out; the   *)
(*    wall clock is the flag `expired', set at any moment.                 *)
(***************************************************************************)
EXTENDS Naturals, Sequences, FiniteSets

CONSTANTS
  Workers,              \* numerical experts other than the fallback
  Thinkers,             \* diagnostic experts
  Verifiers,            \* verifier experts, the physics verifier included
  TurnLimits,           \* values of ExecutionBudget.coordination_turn_limit
  MaxDistinct,          \* max_distinct_numerical_experts
  MaxPhysical,          \* max_physical_worker_calls
  MaxVerifier,          \* max_verifier_calls
  MaxDepth,             \* max_recursion_depth
  ReservedCalls,        \* reserved_fallback_worker_calls
  ReservedVerifications,\* reserved_fallback_verifier_turns
  PolicyMayDecline      \* may select_action return None with actions left?

Fallback  == "safe_fallback"
Synthesis == "ensemble_synthesis"
Physics   == "physics_datum_verifier"
Nobody    == "nobody"     \* no recommended_next_expert_or_verifier

ASSUME ExpertsAssumption ==
  /\ Physics \in Verifiers
  /\ Workers \cap Thinkers = {} /\ Workers \cap Verifiers = {}
  /\ Thinkers \cap Verifiers = {}
  /\ {Fallback, Synthesis} \cap (Workers \cup Thinkers \cup Verifiers) = {}

ASSUME BudgetAssumption ==
  /\ TurnLimits \subseteq Nat \ {0}
  /\ MaxDistinct \in Nat /\ MaxPhysical \in Nat /\ MaxVerifier \in Nat
  /\ ReservedCalls <= MaxPhysical
  /\ MaxDepth \in Nat /\ ReservedCalls \in Nat /\ ReservedVerifications \in Nat
  /\ PolicyMayDecline \in BOOLEAN

Experts == Workers \cup Thinkers \cup Verifiers \cup {Fallback, Synthesis}
Callable == Workers \cup {Fallback}     \* workers that cost a physical call
ReservedTurns == ReservedCalls + ReservedVerifications
\* What a verifier can put in recommended_next_expert_or_verifier.
Recommendations == {Nobody, Fallback, Synthesis, Physics, "regional_to_local_residual"}

VARIABLES
  turnLimit,          \* coordination_turn_limit of this run, fixed
  phase,              \* where run() stands
  log,                \* full_message_transcript of the run
  cache,              \* physical_forecast_cache: the experts it holds
  fallbackAttempted,  \* fallback_attempted
  depth,              \* recursion_depth
  childLog,           \* transcript of the running child workflow
  childCache,         \* physical_forecast_cache of the child
  expired,            \* timed_out: the wall clock passed the deadline
  accepted,           \* accepted_candidate, or Nothing
  reason              \* termination_reason

parent == <<log, cache, fallbackAttempted, depth>>
child  == <<childLog, childCache>>
ending == <<accepted, reason>>
given  == <<turnLimit, expired>>
vars   == <<given, phase, parent, child, ending>>

Phases == {"loop", "child", "fallback", "verifying", "closing", "done"}
Statuses == {"SUCCESS", "REUSED", "FAILED"}
Verdicts == {"NONE", "ACCEPT", "CONTINUE", "REPLAN", "REJECT"}
Nothing == [candidate |-> 0, verifier |-> 0]
Reasons == {"", "verifier_acceptance", "child_replan_verifier_acceptance",
            "verified_safe_fallback", "safe_fallback_rejected",
            "safe_fallback_unavailable", "safe_fallback_unverified",
            "budget_or_deadline_exhausted", "deadline_expired_before_fallback",
            "turn_budget_exhausted_before_fallback"}

Message == [expert : Experts, access : SUBSET Nat, target : Nat, status : Statuses,
            inputs : SUBSET Nat, verdict : Verdicts, recommends : Recommendations]
-----------------------------------------------------------------------------
(***************************************************************************)
(* What the conductor and the masks derive from a transcript.              *)
(***************************************************************************)
Ok(m) == m.status \in {"SUCCESS", "REUSED"}
Turns(l) == 1..Len(l)

\* current_candidate_forecasts: the turns whose message carries a forecast.
Candidates(l) ==
  {t \in Turns(l) : l[t].expert \in Callable \cup {Synthesis} /\ Ok(l[t])}
LatestCandidate(l) == {c \in Candidates(l) : \A d \in Candidates(l) : d <= c}

\* verifier_findings: the turns whose message carries a verifier result.
Findings(l) == {t \in Turns(l) : l[t].verdict # "NONE"}
LastFinding(l) == {t \in Findings(l) : \A u \in Findings(l) : u <= t}

\* One turn per base worker with a forecast, its first: what synthesis may see.
BaseWorkerTurns(l) ==
  {t \in Candidates(l) : /\ l[t].expert \in Workers
                         /\ \A u \in Candidates(l) : l[u].expert = l[t].expert => t <= u}

\* leaf_experts of the candidate at turn t.
Leaves(l, t) ==
  IF l[t].expert = Synthesis THEN {l[u].expert : u \in l[t].access} ELSE {l[t].expert}

PhysicalCalls(l) ==
  Cardinality({t \in Turns(l) : l[t].expert \in Callable /\ l[t].status # "REUSED"})
VerifierCalls(l) == Cardinality({t \in Turns(l) : l[t].expert \in Verifiers})
NumericalExperts(l) == {l[t].expert : t \in {u \in Turns(l) : l[u].expert \in Callable}}
TurnsLeft(l, limit) == IF Len(l) >= limit THEN 0 ELSE limit - Len(l)
-----------------------------------------------------------------------------
(***************************************************************************)
(* Action masks.  A level is the budget a transcript is run under: the     *)
(* run's own, or the one _enter_bounded_replan builds for the child.       *)
(***************************************************************************)
\* Regressions of RunLevel: the reserve of turns, or of calls, is not applied.
RunLevelNoTurnReserve ==
  [limit |-> turnLimit, calls |-> ReservedCalls, turns |-> 0, fallback |-> TRUE]
RunLevel == [limit |-> turnLimit, calls |-> ReservedCalls, turns |-> ReservedTurns,
             fallback |-> TRUE]
\* Regression of ChildLevel: the child is given the reserved turns too.
ChildLevelTakesReserve ==
  [limit |-> TurnsLeft(log, turnLimit), calls |-> 0, turns |-> 0, fallback |-> FALSE]
ChildLevel == [limit |-> TurnsLeft(log, turnLimit) - ReservedTurns, calls |-> 0,
               turns |-> 0, fallback |-> FALSE]

\* _default_access_list: every <<access, target>> it can produce for expert e
\* (exactly one, or none when a verifier has no candidate to look at).
AccessOf(l, e) ==
  CASE e \in Thinkers  -> {<<{}, 0>>}
    [] e = Synthesis   -> {<<BaseWorkerTurns(l), 0>>}
    [] e \in Verifiers -> {<<l[c].inputs \cup {c}, c>> : c \in LatestCandidate(l)}
    [] OTHER ->
         LET asked == {t \in LastFinding(l) : l[t].recommends = e}
         IN  IF asked # {} THEN {<<asked, 0>>}
             ELSE IF Len(l) > 0 /\ l[Len(l)].expert \in Thinkers THEN {<<{Len(l)}, 0>>}
             ELSE {<<{}, 0>>}

\* _is_reserved_fallback_action
ReservedFallbackAction(l, e) ==
  \/ e = Fallback
  \/ e = Physics /\ \E c \in LatestCandidate(l) : Fallback \in Leaves(l, c)

\* _is_feasible
Feasible(l, level, attempted, e) ==
  /\ TurnsLeft(l, level.limit) <= level.turns => ReservedFallbackAction(l, e)
  /\ e = Fallback => level.fallback /\ ~attempted
  /\ e \in Workers =>
       /\ PhysicalCalls(l) + level.calls < MaxPhysical
       /\ e \in NumericalExperts(l) \/ Cardinality(NumericalExperts(l)) < MaxDistinct
  /\ e = Synthesis => Cardinality(BaseWorkerTurns(l)) >= 2
  /\ e \in Verifiers => Candidates(l) # {} /\ VerifierCalls(l) < MaxVerifier
-----------------------------------------------------------------------------
(***************************************************************************)
(* The executor: the messages that running expert e can produce.           *)
(***************************************************************************)
Msg(e, a, status, inputs, verdict, rec) ==
  [expert |-> e, access |-> a[1], target |-> a[2], status |-> status,
   inputs |-> inputs, verdict |-> verdict, recommends |-> rec]

\* The verdict and recommendation pairs each verifier returns on a candidate.
PhysicsResults == {<<"ACCEPT", Nobody>>, <<"REPLAN", Nobody>>, <<"REJECT", Fallback>>}
CrossSourceResults == {<<"ACCEPT", Nobody>>, <<"REPLAN", Synthesis>>,
                       <<"CONTINUE", "regional_to_local_residual">>}
CalibrationResults == {<<"ACCEPT", Nobody>>, <<"REPLAN", Synthesis>>, <<"CONTINUE", Physics>>}
EventRiskResults == {<<"ACCEPT", Nobody>>, <<"REPLAN", Synthesis>>,
                     <<"REPLAN", "regional_to_local_residual">>}
VerifierResults(e) ==
  CASE e = Physics                 -> PhysicsResults
    [] e = "cross_source_verifier" -> CrossSourceResults
    [] e = "calibration_verifier"  -> CalibrationResults
    [] OTHER                       -> EventRiskResults

Failure(e, a) == Msg(e, a, "FAILED", {}, "NONE", Nobody)

\* execute: a cached forecast is reused; otherwise the expert answers or fails
\* (exception, timeout, unavailable).
Results(l, held, e, a) ==
  IF ~(a[1] \subseteq Turns(l)) THEN {Failure(e, a)}
  ELSE IF e \in Callable \cap held THEN {Msg(e, a, "REUSED", {}, "NONE", Nobody)}
  ELSE {Failure(e, a)} \cup
       IF e \in Verifiers
       THEN {Msg(e, a, "SUCCESS", {}, r[1], r[2]) : r \in VerifierResults(e)}
       ELSE {Msg(e, a, "SUCCESS", IF e = Synthesis THEN a[1] ELSE {}, "NONE", Nobody)}

\* Regressions of Cached: every role's result is cached; the cache is overwritten.
CachedAnyRole(held, m) ==
  IF m.status = "SUCCESS" THEN held \cup {m.expert} ELSE held
CachedLastOnly(held, m) ==
  IF m.expert \in Callable /\ m.status = "SUCCESS" THEN {m.expert} ELSE held
Cached(held, m) ==
  IF m.expert \in Callable /\ m.status = "SUCCESS" THEN held \cup {m.expert} ELSE held

\* Does the message set fallback_attempted?  The cached return comes before that.
Attempts(m) == m.expert = Fallback /\ m.status # "REUSED"
-----------------------------------------------------------------------------
Init ==
  /\ turnLimit \in TurnLimits
  /\ phase = "loop"
  /\ log = <<>> /\ cache = {} /\ fallbackAttempted = FALSE /\ depth = 0
  /\ childLog = <<>> /\ childCache = {}
  /\ expired = FALSE
  /\ accepted = Nothing /\ reason = ""

\* _accepted_candidate_from_verifier, mark_accepted and the return of run.
Release(candidate, verifier, why) ==
  /\ accepted' = [candidate |-> candidate, verifier |-> verifier]
  /\ reason' = why
  /\ phase' = "done"

\* The guards of _enter_bounded_replan, on the transcript l that ends with the
\* verifier's message.
CanReplan(l) ==
  /\ depth < MaxDepth
  /\ TurnsLeft(l, turnLimit) > ReservedTurns
  /\ \A t \in LastFinding(l) : l[t].recommends # Fallback

\* The deadline passes while the conductor or an expert is running.
DeadlinePasses ==
  /\ phase # "done" /\ ~expired
  /\ expired' = TRUE
  /\ UNCHANGED <<turnLimit, phase, parent, child, ending>>

(***************************************************************************)
(* The main loop of run.                                                   *)
(***************************************************************************)
\* Regression of LeaveLoop: the while condition forgets the turn budget.
LeaveLoopOnDeadline ==
  /\ phase = "loop" /\ expired
  /\ phase' = "closing"
  /\ UNCHANGED <<parent, child, given, ending>>

\* The loop condition fails or the deadline has passed at the loop's head.
LeaveLoop ==
  /\ phase = "loop"
  /\ expired \/ TurnsLeft(log, turnLimit) = 0
  /\ phase' = "closing"
  /\ UNCHANGED <<parent, child, given, ending>>

\* select_action returns None.  With the deadline gone the mask is empty.
PolicyStops ==
  /\ phase = "loop" /\ TurnsLeft(log, turnLimit) > 0
  /\ \/ expired
     \/ PolicyMayDecline
     \/ \A e \in Experts : ~Feasible(log, RunLevel, fallbackAttempted, e)
  /\ phase' = "fallback"
  /\ UNCHANGED <<parent, child, given, ending>>

\* What run does with the message it just appended.
AfterTurn(m) ==
  \/ /\ m.verdict = "ACCEPT"
     /\ Release(m.target, Len(log'), "verifier_acceptance")
     /\ UNCHANGED child
  \/ /\ m.verdict = "REJECT"
     /\ phase' = "fallback"
     /\ UNCHANGED <<child, ending>>
  \/ /\ m.verdict = "REPLAN" /\ CanReplan(log')
     /\ phase' = "child"
     /\ childLog' = <<>> /\ childCache' = cache'
     /\ UNCHANGED ending
  \/ /\ m.verdict = "REPLAN" /\ ~CanReplan(log')
     /\ phase' = "fallback"
     /\ UNCHANGED <<child, ending>>
  \/ /\ m.verdict \in {"NONE", "CONTINUE"}
     /\ UNCHANGED <<phase, child, ending>>

Turn(e) ==
  /\ phase = "loop" /\ ~expired /\ TurnsLeft(log, turnLimit) > 0
  /\ Feasible(log, RunLevel, fallbackAttempted, e)
  /\ \E a \in AccessOf(log, e) : \E m \in Results(log, cache, e, a) :
       /\ log' = Append(log, m)
       /\ cache' = Cached(cache, m)
       /\ fallbackAttempted' = (fallbackAttempted \/ Attempts(m))
       /\ AfterTurn(m)
  /\ UNCHANGED <<depth, given>>

(***************************************************************************)
(* The child workflow of _enter_bounded_replan.                            *)
(***************************************************************************)
ChildEnds == \* the break statements after a child turn
  /\ Len(childLog) > 0
  /\ childLog[Len(childLog)].verdict \in {"ACCEPT", "REPLAN", "REJECT"}

ChildRuns == /\ phase = "child" /\ ~ChildEnds
             /\ TurnsLeft(childLog, ChildLevel.limit) > 0

ChildTurn(e) ==
  /\ ChildRuns /\ ~expired
  /\ Feasible(childLog, ChildLevel, FALSE, e)
  /\ \E a \in AccessOf(childLog, e) : \E m \in Results(childLog, childCache, e, a) :
       /\ childLog' = Append(childLog, m)
       /\ childCache' = Cached(childCache, m)
  /\ UNCHANGED <<phase, parent, given, ending>>

\* The child loop is left: at a break, without turns or time, or without action.
ChildLeaves ==
  /\ phase = "child"
  /\ \/ ~ChildRuns
     \/ expired
     \/ PolicyMayDecline
     \/ \A e \in Experts : ~Feasible(childLog, ChildLevel, FALSE, e)

\* Regressions of Moved: the judged turn keeps its child number; an off-by-one base.
MovedAccessOnly(m, base) == [m EXCEPT !.access = {base + t : t \in @}]
MovedOneTooFar(m, base) ==
  [m EXCEPT !.access = {base + t + 1 : t \in @}, !.target = IF @ = 0 THEN 0 ELSE base + @]
\* _merge_child_transcript_into_parent moves turn ids and access lists behind the
\* parent's; structured_result, and the input turns in it, is copied as it is.
Moved(m, base) ==
  [m EXCEPT !.access = {base + t : t \in @},
            !.target = IF @ = 0 THEN 0 ELSE base + @]
\* Regression of Merged: the child replaces the verifier turn that asked for it.
MergedOverVerifier ==
  SubSeq(log, 1, Len(log) - 1) \o [t \in Turns(childLog) |-> Moved(childLog[t], Len(log))]
Merged == log \o [t \in Turns(childLog) |-> Moved(childLog[t], Len(log))]

MergeChild ==
  /\ ChildLeaves /\ childLog # <<>>
  /\ log' = Merged
  /\ cache' = cache \cup childCache
  /\ depth' = depth + 1
  /\ childLog' = <<>> /\ childCache' = {}
  /\ LET last == log'[Len(log')] IN
       \/ /\ last.verdict = "ACCEPT"
          /\ Release(last.target, Len(log'), "child_replan_verifier_acceptance")
       \/ /\ last.verdict # "ACCEPT"
          /\ phase' = "loop"
          /\ UNCHANGED ending
  /\ UNCHANGED <<fallbackAttempted, given>>

\* The child found no valid action: the replan fails and the fallback is tried.
EmptyChild ==
  /\ ChildLeaves /\ childLog = <<>>
  /\ phase' = "fallback"
  /\ childCache' = {}
  /\ UNCHANGED <<parent, childLog, given, ending>>

(***************************************************************************)
(* _attempt_safe_fallback, called from the loop ("fallback") and once more *)
(* after it when nothing was attempted ("closing").                        *)
(***************************************************************************)
CanAttempt == ~fallbackAttempted /\ ~expired /\ TurnsLeft(log, turnLimit) > 0

RunFallback ==
  /\ phase \in {"fallback", "closing"} /\ CanAttempt
  /\ \E m \in Results(log, cache, Fallback, <<{}, 0>>) :
       /\ log' = Append(log, m)
       /\ cache' = Cached(cache, m)
       /\ fallbackAttempted' = (fallbackAttempted \/ Attempts(m))
       /\ \/ /\ ~Ok(m)
             /\ reason' = "safe_fallback_unavailable" /\ phase' = "closing"
          \/ /\ Ok(m) /\ TurnsLeft(log', turnLimit) = 0
             /\ reason' = "safe_fallback_unverified" /\ phase' = "closing"
          \/ /\ Ok(m) /\ TurnsLeft(log', turnLimit) > 0
             /\ reason' = reason /\ phase' = "verifying"
  /\ UNCHANGED <<depth, child, given, accepted>>

VerifyFallback ==
  /\ phase = "verifying"
  /\ \E m \in Results(log, cache, Physics, <<{Len(log)}, Len(log)>>) :
       /\ log' = Append(log, m)
       /\ \/ m.verdict = "ACCEPT" /\ Release(m.target, Len(log'), "verified_safe_fallback")
          \/ /\ m.verdict # "ACCEPT"
             /\ reason' = "safe_fallback_rejected" /\ phase' = "closing"
             /\ UNCHANGED accepted
  /\ UNCHANGED <<cache, fallbackAttempted, depth, child, given>>

\* The early returns of the attempt made from the loop.
SkipFallback ==
  /\ phase = "fallback" /\ ~CanAttempt
  /\ phase' = "closing"
  /\ reason' = IF expired THEN "deadline_expired_before_fallback"
               ELSE IF fallbackAttempted THEN reason
               ELSE "turn_budget_exhausted_before_fallback"
  /\ UNCHANGED <<parent, child, given, accepted>>

\* The tail of run: no candidate was accepted and no attempt is possible.
GiveUp ==
  /\ phase = "closing" /\ ~CanAttempt
  /\ phase' = "done"
  /\ reason' = IF fallbackAttempted
               THEN IF reason = "" THEN "budget_or_deadline_exhausted" ELSE reason
               ELSE IF expired THEN "deadline_expired_before_fallback"
               ELSE "turn_budget_exhausted_before_fallback"
  /\ UNCHANGED <<parent, child, given, accepted>>

ConductorStep ==
  \/ LeaveLoop
  \/ PolicyStops
  \/ \E e \in Experts : Turn(e)
  \/ \E e \in Experts : ChildTurn(e)
  \/ MergeChild
  \/ EmptyChild
  \/ RunFallback
  \/ VerifyFallback
  \/ SkipFallback
  \/ GiveUp

Next == DeadlinePasses \/ ConductorStep

\* The conductor is one thread whose every step is bounded by a timeout.
Spec == Init /\ [][Next]_vars /\ WF_vars(ConductorStep)
-----------------------------------------------------------------------------
(***************************************************************************)
(* Properties.                                                             *)
(***************************************************************************)
\* The variables have the types of the dataclass fields they stand for.
TypeOK ==
  /\ turnLimit \in TurnLimits
  /\ phase \in Phases
  /\ log \in Seq(Message) /\ childLog \in Seq(Message)
  /\ cache \subseteq Callable /\ childCache \subseteq Callable
  /\ fallbackAttempted \in BOOLEAN /\ expired \in BOOLEAN
  /\ depth \in Nat
  /\ accepted \in [candidate : Nat, verifier : Nat]
  /\ reason \in Reasons

\* A run that reports "available" releases a forecast that is in the transcript
\* with a usable status and that the last verifier turn, with verdict ACCEPT, had
\* as the forecast to judge: also when that turn was copied from a child workflow
\* under new turn ids.
VerifiedRelease ==
  accepted # Nothing =>
    /\ phase = "done"
    /\ accepted.verifier = Len(log)
    /\ accepted.candidate \in Candidates(log)
    /\ accepted.candidate < accepted.verifier
    /\ log[accepted.verifier].expert \in Verifiers
    /\ log[accepted.verifier].verdict = "ACCEPT"
    /\ log[accepted.verifier].target = accepted.candidate
    /\ accepted.candidate \in log[accepted.verifier].access

\* No workflow, child included, spends more turns than the run was given, and a
\* child leaves the turns reserved for the parent's fallback untouched.
TurnBudgetKept ==
  /\ Len(log) <= turnLimit
  /\ phase = "child" => Len(log) + Len(childLog) + ReservedTurns <= turnLimit

\* The reserve works: a run that gives up before the deadline has tried the safe
\* fallback, whatever the policy and the verifiers did with the other turns.
FallbackBeforeGivingUp ==
  phase = "done" /\ accepted = Nothing /\ ~expired
    => \E t \in Turns(log) : log[t].expert = Fallback

\* The safe fallback runs at most once in a run: the policy, the loop's exits and
\* the tail of run all ask for it.
FallbackOnce ==
  \A t, u \in Turns(log) : log[t].expert = Fallback /\ log[u].expert = Fallback => t = u

\* A forecast is computed once: no worker succeeds twice in the parent and its
\* child workflow together, since they share their caches.
ComputedOnce ==
  LET all == log \o childLog IN
  \A t, u \in Turns(all) :
    (/\ all[t].expert \in Callable /\ all[t].expert = all[u].expert
     /\ all[t].status = "SUCCESS" /\ all[u].status = "SUCCESS") => t = u

\* Until the fallback is attempted the calls reserved for it are there.  Every child
\* workflow that was merged may have spent one more budget of calls, without a reserve, and
\* no more than that: what the parent calls around its children stays within its own.
FallbackCallReserved ==
  ~fallbackAttempted => PhysicalCalls(log) + ReservedCalls <= (depth + 1) * MaxPhysical

\* The safe fallback is tried before a run gives up, only once, and its call was kept for
\* it, through the policy, every exit of the loop and, but for what a child itself calls,
\* the merge of a child workflow.
FallbackKept == FallbackBeforeGivingUp /\ FallbackOnce /\ FallbackCallReserved

\* Every turn saw earlier turns only, in the numbering of the transcript it is in.
CausalAccess ==
  /\ \A t \in Turns(log) : log[t].access \subseteq 1..(t - 1)
  /\ \A t \in Turns(childLog) : childLog[t].access \subseteq 1..(t - 1)

\* The transcript is append-only and a released forecast is never replaced.
TranscriptOnlyGrows ==
  [][/\ Len(log') >= Len(log)
     /\ \A t \in Turns(log) : log'[t] = log[t]
     /\ accepted # Nothing => accepted' = accepted /\ log' = log]_vars

\* Every run ends, with a forecast or without one.
Terminates == <>(phase = "done")

\* What a caller of the pipeline sees of a run.
Status ==
  IF phase # "done" THEN "running"
  ELSE IF accepted = Nothing THEN "unavailable" ELSE "available"
Released == IF accepted = Nothing THEN {} ELSE {accepted.candidate}

Abstract == INSTANCE ForecastRun
              WITH status <- Status, obtained <- Candidates(log), released <- Released

\* A run is one of ForecastRun: the merge of a child workflow, which appends turns
\* under new numbers and may release one of them, loses no forecast and releases
\* one the run holds, and a result is made in one step and never taken back.
ImplementsForecastRun == Abstract!Spec

-----------------------------------------------------------------------------
(***************************************************************************)
(* What the documentation or the tests say and the code does not do.       *)
(***************************************************************************)
\* docs/forecast_orchestrator.md:136: when no valid action remains the safe
\* fallback is attempted once and independently verified.
FallbackVerified ==
  (/\ phase = "done" /\ accepted = Nothing /\ ~expired /\ Len(log) < turnLimit
   /\ \A e \in Experts : ~Feasible(log, RunLevel, fallbackAttempted, e)) =>
    \A t \in Turns(log) : log[t].expert = Fallback /\ Ok(log[t]) =>
      \E v \in Turns(log) : log[v].expert \in Verifiers /\ log[v].target = t

\* protocol.py:68: ExecutionBudget holds global limits enforced by the conductor.
GlobalPhysicalLimit == PhysicalCalls(log) <= MaxPhysical
=============================================================================
