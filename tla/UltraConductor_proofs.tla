----------------------- MODULE UltraConductor_proofs -----------------------
(***************************************************************************)
(* Proofs about UltraConductor, for every choice of experts and budgets:   *)
(* type correctness, that a released forecast was verified, and that the   *)
(* turn budget is kept; and about its transcript: it only grows, every     *)
(* turn saw earlier turns only, no forecast is computed twice, and the     *)
(* safe fallback is kept for the end of the run.  The merge of a child     *)
(* workflow is the step that endangers each of the latter: it renumbers    *)
(* turns taken in another transcript, against another cache.               *)
(***************************************************************************)
EXTENDS UltraConductor, Integers, FiniteSetTheorems, TLAPS

(***************************************************************************)
(* An ACCEPT in a transcript judges an earlier, usable forecast that its   *)
(* verifier saw.  The numbering is the transcript's own, so merging a      *)
(* child has to carry the fact over to the parent's numbering.             *)
(***************************************************************************)
SoundVerdict(l, t) ==
  l[t].verdict = "ACCEPT" =>
    /\ l[t].expert \in Verifiers
    /\ l[t].target \in Candidates(l)
    /\ l[t].target < t
    /\ l[t].target \in l[t].access
SoundVerdicts(l) == \A t \in Turns(l) : SoundVerdict(l, t)

\* The inductive invariant behind VerifiedRelease.
ReleaseInv ==
  /\ TypeOK
  /\ SoundVerdicts(log)
  /\ SoundVerdicts(childLog)
  /\ phase = "verifying" => Len(log) \in Candidates(log)
  /\ VerifiedRelease
-----------------------------------------------------------------------------
(***************************************************************************)
(* What the executor returns.                                              *)
(***************************************************************************)
\* A transcript's latest candidate and last finding are turns of it.
LEMMA LatestIsTurn ==
  ASSUME NEW l
  PROVE  /\ LatestCandidate(l) \subseteq Candidates(l)
         /\ Candidates(l) \subseteq Turns(l)
         /\ LastFinding(l) \subseteq Turns(l)
         /\ BaseWorkerTurns(l) \subseteq Turns(l)
  BY DEF LatestCandidate, Candidates, LastFinding, Findings, BaseWorkerTurns

\* The access lists offered to any expert hold turn numbers, and a verifier's
\* names the latest candidate as the forecast to judge.
LEMMA AccessType ==
  ASSUME NEW l \in Seq(Message), NEW e \in Experts, NEW a \in AccessOf(l, e)
  PROVE  /\ a[1] \in SUBSET Nat /\ a[2] \in Nat
         /\ e \in Verifiers => a[2] \in Candidates(l) /\ a[2] \in a[1]
<1>1. Turns(l) \subseteq Nat
  BY DEF Turns
<1>2. CASE e \in Thinkers
  <2>1. e # Synthesis /\ e \notin Verifiers
    BY <1>2, ExpertsAssumption
  <2>2. a = <<{}, 0>>
    BY <1>2, <2>1 DEF AccessOf
  <2> QED BY <2>1, <2>2
<1>3. CASE e = Synthesis
  <2>1. e \notin Thinkers /\ e \notin Verifiers
    BY <1>3, ExpertsAssumption
  <2>2. a = <<BaseWorkerTurns(l), 0>>
    BY <1>3, <2>1 DEF AccessOf
  <2> QED BY <2>1, <2>2, <1>1, LatestIsTurn
<1>4. CASE e \in Verifiers
  <2>1. e \notin Thinkers /\ e # Synthesis
    BY <1>4, ExpertsAssumption
  <2>2. PICK c \in LatestCandidate(l) : a = <<l[c].inputs \cup {c}, c>>
    BY <1>4, <2>1 DEF AccessOf
  <2>3. c \in Candidates(l) /\ c \in 1..Len(l)
    BY LatestIsTurn DEF Turns
  <2>4. l[c] \in Message
    BY <2>3
  <2>5. l[c].inputs \in SUBSET Nat
    BY <2>4 DEF Message
  <2> QED BY <2>2, <2>3, <2>5
<1>5. CASE e \in Callable
  <2>1. e \notin Thinkers /\ e # Synthesis /\ e \notin Verifiers
    BY <1>5, ExpertsAssumption DEF Callable, Fallback, Synthesis
  <2> DEFINE asked == {t \in LastFinding(l) : l[t].recommends = e}
  <2>2. a \in IF asked # {} THEN {<<asked, 0>>}
              ELSE IF Len(l) > 0 /\ l[Len(l)].expert \in Thinkers THEN {<<{Len(l)}, 0>>}
              ELSE {<<{}, 0>>}
    BY <2>1 DEF AccessOf
  <2>3. asked \in SUBSET Nat /\ Len(l) \in Nat
    BY <1>1, LatestIsTurn
  <2> QED BY <2>1, <2>2, <2>3
<1> QED BY <1>2, <1>3, <1>4, <1>5 DEF Experts, Callable

\* Every result is a message, keeps the access list it was given, and carries a
\* verdict only when a verifier gave it with status SUCCESS.
LEMMA ResultType ==
  ASSUME NEW l, NEW held, NEW e \in Experts, NEW a,
         a[1] \in SUBSET Nat, a[2] \in Nat,
         NEW m \in Results(l, held, e, a)
  PROVE  /\ m \in Message
         /\ m.expert = e /\ m.access = a[1] /\ m.target = a[2]
         /\ m.verdict # "NONE" => e \in Verifiers
<1>1. Failure(e, a) \in Message /\ Failure(e, a).verdict = "NONE"
      /\ Failure(e, a).expert = e /\ Failure(e, a).access = a[1]
      /\ Failure(e, a).target = a[2]
  BY DEF Failure, Msg, Message, Statuses, Verdicts, Recommendations
<1>2. ASSUME NEW inputs \in SUBSET Nat, NEW s \in Statuses, NEW v \in Verdicts,
             NEW r \in Recommendations
      PROVE  /\ Msg(e, a, s, inputs, v, r) \in Message
             /\ Msg(e, a, s, inputs, v, r).verdict = v
             /\ Msg(e, a, s, inputs, v, r).expert = e
             /\ Msg(e, a, s, inputs, v, r).access = a[1]
             /\ Msg(e, a, s, inputs, v, r).target = a[2]
  BY DEF Msg, Message
<1>3. \A r \in VerifierResults(e) : r[1] \in Verdicts /\ r[2] \in Recommendations
  BY DEF VerifierResults, PhysicsResults, CrossSourceResults, CalibrationResults,
         EventRiskResults, Verdicts, Recommendations
<1>4. {"SUCCESS", "REUSED"} \subseteq Statuses /\ "NONE" \in Verdicts
      /\ Nobody \in Recommendations /\ {} \in SUBSET Nat
  BY DEF Statuses, Verdicts, Recommendations
<1>5. CASE m = Failure(e, a)
  BY <1>5, <1>1
<1>6. CASE m = Msg(e, a, "REUSED", {}, "NONE", Nobody)
  BY <1>6, <1>2, <1>4
<1>7. CASE e \in Verifiers /\ \E r \in VerifierResults(e) :
                                 m = Msg(e, a, "SUCCESS", {}, r[1], r[2])
  BY <1>7, <1>2, <1>3, <1>4
<1>8. CASE m = Msg(e, a, "SUCCESS", IF e = Synthesis THEN a[1] ELSE {}, "NONE", Nobody)
  BY <1>8, <1>2, <1>4
<1> QED BY <1>5, <1>6, <1>7, <1>8 DEF Results
-----------------------------------------------------------------------------
(***************************************************************************)
(* Transcripts that grow.                                                  *)
(***************************************************************************)
\* Appending a message keeps every verdict of the transcript sound, and the new
\* one is sound when it judges a candidate the message saw.
LEMMA AppendSound ==
  ASSUME NEW l \in Seq(Message), SoundVerdicts(l), NEW m \in Message,
         m.verdict = "ACCEPT" => /\ m.expert \in Verifiers
                                 /\ m.target \in Candidates(l)
                                 /\ m.target \in m.access
  PROVE  /\ Append(l, m) \in Seq(Message)
         /\ SoundVerdicts(Append(l, m))
         /\ Candidates(l) \subseteq Candidates(Append(l, m))
<1> DEFINE k == Append(l, m)
<1>1. k \in Seq(Message) /\ Len(k) = Len(l) + 1 /\ k[Len(k)] = m
      /\ \A t \in 1..Len(l) : k[t] = l[t]
  OBVIOUS
<1>2. Candidates(l) \subseteq Candidates(k)
  BY <1>1 DEF Candidates, Turns, Ok
<1>3. ASSUME NEW t \in Turns(k) PROVE SoundVerdict(k, t)
  <2>1. CASE t \in 1..Len(l)
    <3>1. SoundVerdict(l, t) /\ k[t] = l[t]
      BY <1>1, <2>1 DEF SoundVerdicts, Turns
    <3> QED BY <3>1, <1>2 DEF SoundVerdict
  <2>2. CASE t = Len(k)
    <3>1. Candidates(l) \subseteq 1..Len(l) /\ Len(l) \in Nat
      BY LatestIsTurn DEF Turns
    <3> QED BY <1>1, <1>2, <2>2, <3>1 DEF SoundVerdict
  <2> QED BY <1>1, <2>1, <2>2, <1>3 DEF Turns
<1> QED BY <1>1, <1>2, <1>3 DEF SoundVerdicts

\* Moving a child's message behind base turns moves what it saw and judged.
LEMMA MovedMessage ==
  ASSUME NEW m \in Message, NEW base \in Nat
  PROVE  /\ Moved(m, base) \in Message
         /\ Moved(m, base).expert = m.expert /\ Moved(m, base).status = m.status
         /\ Moved(m, base).verdict = m.verdict /\ Moved(m, base).inputs = m.inputs
         /\ Moved(m, base).access = {base + t : t \in m.access}
         /\ m.target # 0 => Moved(m, base).target = base + m.target
<1>1. m.access \in SUBSET Nat /\ m.target \in Nat
  BY DEF Message
<1>2. {base + t : t \in m.access} \in SUBSET Nat
  BY <1>1
<1>3. (IF m.target = 0 THEN 0 ELSE base + m.target) \in Nat
  BY <1>1
<1> QED BY <1>1, <1>2, <1>3 DEF Moved, Message

\* Concatenation keeps the messages of both transcripts.
LEMMA Concatenated ==
  ASSUME NEW a \in Seq(Message), NEW b \in Seq(Message)
  PROVE  /\ a \o b \in Seq(Message) /\ Len(a \o b) = Len(a) + Len(b)
         /\ \A t \in 1..Len(a) : (a \o b)[t] = a[t]
         /\ \A t \in 1..Len(b) : (a \o b)[Len(a) + t] = b[t]
  OBVIOUS

\* The turns of a merged transcript are the parent's turns and then the child's,
\* each moved behind the parent's.
LEMMA MergedTurns ==
  ASSUME log \in Seq(Message), childLog \in Seq(Message)
  PROVE  /\ Merged \in Seq(Message) /\ Len(Merged) = Len(log) + Len(childLog)
         /\ \A t \in 1..Len(log) : Merged[t] = log[t]
         /\ \A t \in 1..Len(childLog) : /\ childLog[t] \in Message
                                        /\ Len(log) + t \in 1..Len(Merged)
                                        /\ Merged[Len(log) + t] = Moved(childLog[t], Len(log))
         /\ \A t \in 1..Len(Merged) :
              t \in 1..Len(log) \/ \E u \in 1..Len(childLog) : t = Len(log) + u
<1> DEFINE base == Len(log)
           moved == [t \in Turns(childLog) |-> Moved(childLog[t], base)]
<1>1. base \in Nat /\ Len(childLog) \in Nat /\ Turns(childLog) = 1..Len(childLog)
  BY DEF Turns
<1>2. \A t \in 1..Len(childLog) : childLog[t] \in Message
                                 /\ Moved(childLog[t], base) \in Message
  <2> TAKE t \in 1..Len(childLog)
  <2>1. childLog[t] \in Message
    OBVIOUS
  <2> QED BY <2>1, <1>1, MovedMessage
<1>3. moved \in Seq(Message) /\ Len(moved) = Len(childLog)
  <2>1. moved = [t \in 1..Len(childLog) |-> Moved(childLog[t], base)]
    BY <1>1
  <2>2. moved \in [1..Len(childLog) -> Message]
    BY <2>1, <1>2
  <2> QED BY <2>1, <2>2, <1>1
<1>4. /\ Merged \in Seq(Message) /\ Len(Merged) = base + Len(childLog)
      /\ \A t \in 1..base : Merged[t] = log[t]
      /\ \A t \in 1..Len(childLog) : Merged[base + t] = Moved(childLog[t], base)
  <2>1. Merged = log \o moved
    BY DEF Merged
  <2>2. \A t \in 1..Len(childLog) : moved[t] = Moved(childLog[t], base)
    BY <1>1
  <2> HIDE DEF moved
  <2>3. /\ log \o moved \in Seq(Message) /\ Len(log \o moved) = base + Len(moved)
        /\ \A t \in 1..base : (log \o moved)[t] = log[t]
        /\ \A t \in 1..Len(moved) : (log \o moved)[base + t] = moved[t]
    BY <1>3, Concatenated
  <2> QED BY <1>3, <2>1, <2>2, <2>3
<1>5. \A t \in 1..Len(Merged) : t \in 1..base \/ \E u \in 1..Len(childLog) : t = base + u
  <2> SUFFICES ASSUME NEW t \in 1..(base + Len(childLog)), t \notin 1..base
               PROVE  \E u \in 1..Len(childLog) : t = base + u
    BY <1>4
  <2>1. t - base \in 1..Len(childLog) /\ t = base + (t - base)
    BY <1>1
  <2> QED BY <2>1
<1>6. \A t \in 1..Len(childLog) : base + t \in 1..Len(Merged)
  BY <1>1, <1>4
<1> HIDE DEF moved
<1> QED BY <1>2, <1>4, <1>5, <1>6

\* Merging a sound child transcript into a sound parent transcript gives a sound
\* one: _merge_child_transcript_into_parent renumbers what its verifiers saw.
LEMMA MergeSound ==
  ASSUME log \in Seq(Message), childLog \in Seq(Message),
         SoundVerdicts(log), SoundVerdicts(childLog)
  PROVE  /\ Merged \in Seq(Message) /\ Len(Merged) = Len(log) + Len(childLog)
         /\ SoundVerdicts(Merged)
         /\ Candidates(log) \subseteq Candidates(Merged)
<1> DEFINE base == Len(log)
<1>1. base \in Nat /\ Len(childLog) \in Nat /\ Turns(childLog) = 1..Len(childLog)
  BY DEF Turns
<1>2. \A t \in 1..Len(childLog) :
        LET m == childLog[t]  n == Moved(childLog[t], base) IN
        /\ n.expert = m.expert /\ n.status = m.status /\ n.verdict = m.verdict
        /\ n.access = {base + u : u \in m.access}
        /\ m.target # 0 => n.target = base + m.target
  BY <1>1, MergedTurns, MovedMessage
<1>4. /\ Merged \in Seq(Message) /\ Len(Merged) = base + Len(childLog)
      /\ \A t \in 1..base : Merged[t] = log[t]
      /\ \A t \in 1..Len(childLog) : Merged[base + t] = Moved(childLog[t], base)
  BY MergedTurns
<1>5. Candidates(log) \subseteq Candidates(Merged)
  BY <1>1, <1>4 DEF Candidates, Turns, Ok
<1>6. \A t \in Candidates(childLog) : base + t \in Candidates(Merged)
  <2> TAKE t \in Candidates(childLog)
  <2>1. t \in 1..Len(childLog) /\ childLog[t].expert \in Callable \cup {Synthesis}
        /\ Ok(childLog[t])
    BY DEF Candidates, Turns
  <2>2. Merged[base + t].expert = childLog[t].expert
        /\ Merged[base + t].status = childLog[t].status
    BY <2>1, <1>2, <1>4
  <2>3. base + t \in 1..Len(Merged)
    BY <2>1, <1>1, <1>4
  <2> QED BY <2>1, <2>2, <2>3 DEF Candidates, Turns, Ok
<1>7. ASSUME NEW t \in 1..base PROVE SoundVerdict(Merged, t)
  <2>1. SoundVerdict(log, t) /\ Merged[t] = log[t]
    BY <1>4 DEF SoundVerdicts, Turns
  <2> QED BY <2>1, <1>5 DEF SoundVerdict
<1>8. ASSUME NEW t \in 1..Len(childLog), Merged[base + t].verdict = "ACCEPT"
      PROVE  /\ Merged[base + t].expert \in Verifiers
             /\ Merged[base + t].target \in Candidates(Merged)
             /\ Merged[base + t].target < base + t
             /\ Merged[base + t].target \in Merged[base + t].access
  <2>1. Merged[base + t] = Moved(childLog[t], base)
    BY <1>4
  <2>2. SoundVerdict(childLog, t) /\ childLog[t].verdict = "ACCEPT"
    BY <1>2, <1>8, <2>1, <1>1 DEF SoundVerdicts
  <2>3. /\ childLog[t].expert \in Verifiers /\ childLog[t].target \in Candidates(childLog)
        /\ childLog[t].target < t /\ childLog[t].target \in childLog[t].access
    BY <2>2 DEF SoundVerdict
  <2>4. childLog[t].target \in 1..Len(childLog)
    BY <2>3, LatestIsTurn, <1>1
  <2>5. Merged[base + t].target = base + childLog[t].target
    BY <2>1, <2>4, <1>2, <1>1
  <2>6. Merged[base + t].access = {base + u : u \in childLog[t].access}
        /\ Merged[base + t].expert = childLog[t].expert
    BY <2>1, <1>2
  <2>7. base + childLog[t].target \in Candidates(Merged)
    BY <2>3, <1>6
  <2> QED BY <2>3, <2>4, <2>5, <2>6, <2>7, <1>1
<1>9. \A t \in 1..Len(Merged) : t \in 1..base \/ \E u \in 1..Len(childLog) : t = base + u
  BY MergedTurns
<1> QED BY <1>4, <1>5, <1>7, <1>8, <1>9 DEF SoundVerdicts, SoundVerdict, Turns
-----------------------------------------------------------------------------
(***************************************************************************)
(* The steps of the conductor preserve ReleaseInv.                         *)
(***************************************************************************)
\* The empty transcript, and the values the variables start with.
LEMMA EmptyTranscript ==
  /\ <<>> \in Seq(Message) /\ SoundVerdicts(<<>>)
  /\ Nothing \in [candidate : Nat, verifier : Nat]
<1>1. <<>> \in Seq(Message)
  OBVIOUS
<1>2. Turns(<<>>) = {}
  BY DEF Turns
<1>3. SoundVerdicts(<<>>)
  BY <1>2 DEF SoundVerdicts
<1>4. Nothing \in [candidate : Nat, verifier : Nat]
  BY DEF Nothing
<1> QED BY <1>1, <1>3, <1>4

\* A run starts with empty transcripts and nothing released.
LEMMA InitRelease == Init => ReleaseInv
<1> SUFFICES ASSUME Init PROVE ReleaseInv
  OBVIOUS
<1>1. /\ turnLimit \in TurnLimits /\ phase = "loop" /\ log = <<>> /\ cache = {}
      /\ fallbackAttempted = FALSE /\ depth = 0 /\ childLog = <<>> /\ childCache = {}
      /\ expired = FALSE /\ accepted = Nothing /\ reason = ""
  BY DEF Init
<1>2. phase \in Phases /\ reason \in Reasons
  BY <1>1 DEF Phases, Reasons
<1>3. log \in Seq(Message) /\ childLog \in Seq(Message)
      /\ SoundVerdicts(log) /\ SoundVerdicts(childLog)
  BY <1>1, EmptyTranscript
<1>4. accepted \in [candidate : Nat, verifier : Nat]
  BY <1>1, EmptyTranscript
<1>5. cache \subseteq Callable /\ childCache \subseteq Callable /\ depth \in Nat
      /\ fallbackAttempted \in BOOLEAN /\ expired \in BOOLEAN
  BY <1>1
<1>6. TypeOK
  BY <1>1, <1>2, <1>3, <1>4, <1>5 DEF TypeOK
<1> QED BY <1>1, <1>3, <1>6 DEF ReleaseInv, VerifiedRelease

\* The message of a turn, in the run or in a child, meets AppendSound's condition.
LEMMA TurnMessage ==
  ASSUME NEW l \in Seq(Message), NEW held, NEW e \in Experts,
         NEW a \in AccessOf(l, e), NEW m \in Results(l, held, e, a)
  PROVE  /\ m \in Message /\ m.expert = e
         /\ m.verdict # "NONE" => /\ m.expert \in Verifiers
                                  /\ m.target \in Candidates(l)
                                  /\ m.target \in m.access
<1>1. /\ a[1] \in SUBSET Nat /\ a[2] \in Nat
      /\ e \in Verifiers => a[2] \in Candidates(l) /\ a[2] \in a[1]
  BY AccessType
<1> QED BY <1>1, ResultType

\* The cache holds physical workers only.
LEMMA CachedType ==
  ASSUME NEW held, held \subseteq Callable, NEW m
  PROVE  Cached(held, m) \subseteq Callable
  BY DEF Cached

\* What the last message of a sound transcript entitles run to release.
LEMMA ReleaseVerified ==
  ASSUME NEW l \in Seq(Message), SoundVerdicts(l), Len(l) > 0,
         l[Len(l)].verdict = "ACCEPT"
  PROVE  /\ l[Len(l)].target \in Candidates(l) /\ l[Len(l)].target < Len(l)
         /\ l[Len(l)].expert \in Verifiers
         /\ l[Len(l)].target \in l[Len(l)].access
         /\ l[Len(l)].target \in Nat
<1>1. Len(l) \in Turns(l) /\ l[Len(l)] \in Message
  BY DEF Turns
<1> QED BY <1>1 DEF SoundVerdicts, SoundVerdict, Message

\* A turn of the loop appends a sound message and may release what it judged.
LEMMA TurnRelease ==
  ASSUME ReleaseInv, NEW e \in Experts, Turn(e)
  PROVE  ReleaseInv'
<1>1. TypeOK /\ SoundVerdicts(log) /\ log \in Seq(Message) /\ phase = "loop"
  BY DEF ReleaseInv, TypeOK, Turn
<1>2. accepted = Nothing
  BY <1>1 DEF ReleaseInv, VerifiedRelease
<1>3. PICK a \in AccessOf(log, e) : \E m \in Results(log, cache, e, a) :
        /\ log' = Append(log, m)
        /\ cache' = Cached(cache, m)
        /\ fallbackAttempted' = (fallbackAttempted \/ Attempts(m))
        /\ AfterTurn(m)
  BY DEF Turn
<1>4. PICK m \in Results(log, cache, e, a) :
        /\ log' = Append(log, m)
        /\ cache' = Cached(cache, m)
        /\ fallbackAttempted' = (fallbackAttempted \/ Attempts(m))
        /\ AfterTurn(m)
  BY <1>3
<1>5. /\ m \in Message /\ m.expert = e
      /\ m.verdict # "NONE" => /\ m.expert \in Verifiers
                               /\ m.target \in Candidates(log)
                               /\ m.target \in m.access
  BY <1>1, TurnMessage
<1>6. log' \in Seq(Message) /\ SoundVerdicts(log')
  BY <1>1, <1>4, <1>5, AppendSound
<1>7. Len(log') > 0 /\ Len(log') \in Nat /\ log'[Len(log')] = m
  BY <1>1, <1>4, <1>5
<1>8. cache' \subseteq Callable
  BY <1>1, <1>4, CachedType DEF TypeOK
<1>9. fallbackAttempted' \in BOOLEAN /\ depth' \in Nat /\ expired' \in BOOLEAN
      /\ turnLimit' \in TurnLimits
  BY <1>1, <1>4 DEF TypeOK, Turn, Attempts, given
<1>10. CASE m.verdict = "ACCEPT" /\ Release(m.target, Len(log'), "verifier_acceptance")
            /\ UNCHANGED child
  <2>1. m.target \in Nat /\ m.target \in Candidates(log') /\ m.target < Len(log')
        /\ m.expert \in Verifiers /\ m.target \in m.access
    BY <1>6, <1>7, <1>10, ReleaseVerified
  <2>2. accepted' = [candidate |-> m.target, verifier |-> Len(log')] /\ phase' = "done"
        /\ reason' = "verifier_acceptance"
    BY <1>10 DEF Release
  <2>3. VerifiedRelease'
    BY <2>1, <2>2, <1>7, <1>10 DEF VerifiedRelease
  <2>4. TypeOK'
    BY <1>1, <1>6, <1>7, <1>8, <1>9, <1>10, <2>1, <2>2 DEF TypeOK, Phases, Reasons, child
  <2> QED BY <1>6, <1>10, <2>2, <2>3, <2>4 DEF ReleaseInv, child
<1>11. CASE m.verdict # "ACCEPT"
  <2>1. accepted' = accepted /\ reason' = reason
    BY <1>4, <1>11 DEF AfterTurn, ending
  <2>2. phase' \in {"loop", "child", "fallback"}
    BY <1>1, <1>4, <1>11 DEF AfterTurn
  <2>3. \/ childLog' = childLog /\ childCache' = childCache
        \/ childLog' = <<>> /\ childCache' = cache'
    BY <1>4, <1>11 DEF AfterTurn, child
  <2>4. childLog' \in Seq(Message) /\ SoundVerdicts(childLog')
    <3>1. childLog \in Seq(Message) /\ SoundVerdicts(childLog)
      BY DEF ReleaseInv, TypeOK
    <3> QED BY <3>1, <2>3, EmptyTranscript
  <2>5. TypeOK'
    <3>1. childCache' \subseteq Callable
      BY <1>1, <1>8, <2>3 DEF TypeOK
    <3>2. phase' \in Phases
      BY <2>2 DEF Phases
    <3> QED BY <1>1, <1>6, <1>8, <1>9, <2>1, <2>4, <3>1, <3>2 DEF TypeOK
  <2>6. VerifiedRelease'
    BY <1>2, <2>1 DEF VerifiedRelease, Nothing
  <2> QED BY <1>6, <2>2, <2>4, <2>5, <2>6 DEF ReleaseInv
<1> QED BY <1>4, <1>10, <1>11 DEF AfterTurn
\* Steps that add nothing to the run's transcript keep what it says of a release.
LEMMA QuietStep ==
  ASSUME ReleaseInv,
         log' = log /\ cache' = cache /\ fallbackAttempted' = fallbackAttempted,
         depth' = depth /\ turnLimit' = turnLimit /\ accepted' = accepted,
         expired' \in BOOLEAN, reason' \in Reasons, phase' \in Phases,
         phase' = phase \/ (phase # "done" /\ phase' # "verifying"),
         childLog' = childLog \/ childLog' = <<>>,
         childCache' \subseteq Callable
  PROVE  ReleaseInv'
<1>1. /\ TypeOK /\ SoundVerdicts(log) /\ SoundVerdicts(childLog) /\ VerifiedRelease
      /\ phase = "verifying" => Len(log) \in Candidates(log)
  BY DEF ReleaseInv
<1>2. childLog' \in Seq(Message) /\ SoundVerdicts(childLog')
  BY <1>1, EmptyTranscript DEF TypeOK
<1>3. TypeOK'
  BY <1>1, <1>2 DEF TypeOK
<1>4. VerifiedRelease'
  BY <1>1 DEF VerifiedRelease, Nothing
<1> QED BY <1>1, <1>2, <1>3, <1>4 DEF ReleaseInv

\* The steps that leave the parent's transcript alone release nothing.
LEMMA QuietRelease ==
  ASSUME ReleaseInv,
         \/ DeadlinePasses \/ LeaveLoop \/ PolicyStops \/ EmptyChild
         \/ SkipFallback \/ GiveUp \/ UNCHANGED vars
  PROVE  ReleaseInv'
<1>1. TypeOK
  BY DEF ReleaseInv
<1>2. /\ phase \in Phases /\ reason \in Reasons /\ expired \in BOOLEAN
      /\ childCache \subseteq Callable
  BY <1>1 DEF TypeOK
<1>3. \A why \in {"deadline_expired_before_fallback", "budget_or_deadline_exhausted",
                  "turn_budget_exhausted_before_fallback"} : why \in Reasons
  BY DEF Reasons
<1>4. \A p \in {"loop", "child", "fallback", "closing", "done"} : p \in Phases
  BY DEF Phases
<1>5. CASE DeadlinePasses
  <2>1. /\ turnLimit' = turnLimit /\ phase' = phase /\ expired' = TRUE
        /\ log' = log /\ cache' = cache /\ fallbackAttempted' = fallbackAttempted
        /\ depth' = depth /\ childLog' = childLog /\ childCache' = childCache
        /\ accepted' = accepted /\ reason' = reason
    BY <1>5 DEF DeadlinePasses, parent, child, ending
  <2>2. /\ expired' \in BOOLEAN /\ reason' \in Reasons /\ phase' \in Phases
        /\ childCache' \subseteq Callable
    BY <1>2, <2>1
  <2> QED BY <2>1, <2>2, QuietStep
<1>6. CASE LeaveLoop
  BY <1>2, <1>4, <1>6, QuietStep DEF LeaveLoop, parent, child, ending, given
<1>7. CASE PolicyStops
  BY <1>2, <1>4, <1>7, QuietStep DEF PolicyStops, parent, child, ending, given
<1>8. CASE EmptyChild
  BY <1>2, <1>4, <1>8, QuietStep DEF EmptyChild, ChildLeaves, parent, ending, given
<1>9. CASE SkipFallback
  <2>1. reason' \in Reasons
    BY <1>2, <1>3, <1>9 DEF SkipFallback
  <2> QED BY <1>2, <1>4, <1>9, <2>1, QuietStep DEF SkipFallback, parent, child, given
<1>10. CASE GiveUp
  <2>1. reason' \in Reasons
    BY <1>2, <1>3, <1>10 DEF GiveUp
  <2> QED BY <1>2, <1>4, <1>10, <2>1, QuietStep DEF GiveUp, parent, child, given
<1>11. CASE UNCHANGED vars
  <2>1. /\ turnLimit' = turnLimit /\ phase' = phase /\ expired' = expired
        /\ log' = log /\ cache' = cache /\ fallbackAttempted' = fallbackAttempted
        /\ depth' = depth /\ childLog' = childLog /\ childCache' = childCache
        /\ accepted' = accepted /\ reason' = reason
    BY <1>11 DEF vars, parent, child, ending, given
  <2>2. /\ expired' \in BOOLEAN /\ reason' \in Reasons /\ phase' \in Phases
        /\ childCache' \subseteq Callable
    BY <1>2, <2>1
  <2> QED BY <2>1, <2>2, QuietStep
<1> QED BY <1>5, <1>6, <1>7, <1>8, <1>9, <1>10, <1>11

\* A turn of the child workflow keeps the child's transcript sound.
LEMMA ChildTurnRelease ==
  ASSUME ReleaseInv, NEW e \in Experts, ChildTurn(e)
  PROVE  ReleaseInv'
<1>1. /\ TypeOK /\ SoundVerdicts(log) /\ SoundVerdicts(childLog) /\ VerifiedRelease
      /\ childLog \in Seq(Message)
  BY DEF ReleaseInv, TypeOK
<1>2. PICK a \in AccessOf(childLog, e) : \E m \in Results(childLog, childCache, e, a) :
        /\ childLog' = Append(childLog, m)
        /\ childCache' = Cached(childCache, m)
  BY DEF ChildTurn
<1>3. PICK m \in Results(childLog, childCache, e, a) :
        /\ childLog' = Append(childLog, m)
        /\ childCache' = Cached(childCache, m)
  BY <1>2
<1>4. /\ m \in Message
      /\ m.verdict = "ACCEPT" => /\ m.expert \in Verifiers
                                 /\ m.target \in Candidates(childLog)
                                 /\ m.target \in m.access
  BY <1>1, TurnMessage
<1>5. childLog' \in Seq(Message) /\ SoundVerdicts(childLog')
  BY <1>1, <1>3, <1>4, AppendSound
<1>6. childCache' \subseteq Callable
  BY <1>1, <1>3, CachedType DEF TypeOK
<1>7. /\ phase' = phase /\ log' = log /\ cache' = cache
      /\ fallbackAttempted' = fallbackAttempted /\ depth' = depth
      /\ turnLimit' = turnLimit /\ expired' = expired
      /\ accepted' = accepted /\ reason' = reason
  BY DEF ChildTurn, parent, given, ending
<1>8. TypeOK'
  BY <1>1, <1>5, <1>6, <1>7 DEF TypeOK
<1>9. VerifiedRelease'
  BY <1>1, <1>7 DEF VerifiedRelease, Nothing
<1> QED BY <1>1, <1>5, <1>7, <1>8, <1>9 DEF ReleaseInv

\* A merge may release what the child's last turn judged, under its new number.
LEMMA MergeRelease ==
  ASSUME ReleaseInv, MergeChild
  PROVE  ReleaseInv'
<1>1. /\ TypeOK /\ SoundVerdicts(log) /\ SoundVerdicts(childLog)
      /\ log \in Seq(Message) /\ childLog \in Seq(Message)
  BY DEF ReleaseInv, TypeOK
<1>2. phase = "child" /\ childLog # <<>> /\ log' = Merged
  BY DEF MergeChild, ChildLeaves
<1>3. accepted = Nothing
  BY <1>2 DEF ReleaseInv, VerifiedRelease
<1>4. /\ log' \in Seq(Message) /\ SoundVerdicts(log') /\ Len(log') \in Nat
      /\ Len(log') > 0
  <2>1. Len(childLog) > 0 /\ Len(log) \in Nat /\ Len(childLog) \in Nat
    BY <1>1, <1>2
  <2> QED BY <1>1, <1>2, <2>1, MergeSound
<1>5. /\ cache' \subseteq Callable /\ childCache' \subseteq Callable /\ depth' \in Nat
      /\ fallbackAttempted' \in BOOLEAN /\ expired' \in BOOLEAN
      /\ turnLimit' \in TurnLimits
  BY <1>1 DEF TypeOK, MergeChild, given
<1>6. childLog' \in Seq(Message) /\ SoundVerdicts(childLog')
  BY EmptyTranscript DEF MergeChild
<1> DEFINE last == log'[Len(log')]
<1>7. CASE /\ last.verdict = "ACCEPT"
           /\ Release(last.target, Len(log'), "child_replan_verifier_acceptance")
  <2>1. last.target \in Nat /\ last.target \in Candidates(log')
        /\ last.target < Len(log') /\ last.expert \in Verifiers
        /\ last.target \in last.access
    BY <1>4, <1>7, ReleaseVerified
  <2>2. accepted' = [candidate |-> last.target, verifier |-> Len(log')]
        /\ phase' = "done" /\ reason' = "child_replan_verifier_acceptance"
    BY <1>7 DEF Release
  <2>3. VerifiedRelease'
    BY <1>7, <2>1, <2>2 DEF VerifiedRelease
  <2>4. TypeOK'
    BY <1>4, <1>5, <1>6, <2>1, <2>2 DEF TypeOK, Phases, Reasons
  <2> QED BY <1>4, <1>6, <2>2, <2>3, <2>4 DEF ReleaseInv
<1>8. CASE phase' = "loop" /\ UNCHANGED ending
  <2>1. accepted' = accepted /\ reason' = reason
    BY <1>8 DEF ending
  <2>2. TypeOK'
    BY <1>1, <1>4, <1>5, <1>6, <1>8, <2>1 DEF TypeOK, Phases
  <2>3. VerifiedRelease'
    BY <1>3, <2>1 DEF VerifiedRelease, Nothing
  <2> QED BY <1>4, <1>6, <1>8, <2>2, <2>3 DEF ReleaseInv
<1> QED BY <1>7, <1>8 DEF MergeChild

\* RunFallback leaves a usable forecast as the last turn when it goes on to verify.
LEMMA RunFallbackRelease ==
  ASSUME ReleaseInv, RunFallback
  PROVE  ReleaseInv'
<1>1. /\ TypeOK /\ SoundVerdicts(log) /\ SoundVerdicts(childLog)
      /\ log \in Seq(Message) /\ phase \in {"fallback", "closing"}
  BY DEF ReleaseInv, TypeOK, RunFallback
<1>2. accepted = Nothing
  BY <1>1 DEF ReleaseInv, VerifiedRelease
<1>3. PICK m \in Results(log, cache, Fallback, <<{}, 0>>) :
       /\ log' = Append(log, m)
       /\ cache' = Cached(cache, m)
       /\ fallbackAttempted' = (fallbackAttempted \/ Attempts(m))
       /\ \/ /\ ~Ok(m)
             /\ reason' = "safe_fallback_unavailable" /\ phase' = "closing"
          \/ /\ Ok(m) /\ TurnsLeft(log', turnLimit) = 0
             /\ reason' = "safe_fallback_unverified" /\ phase' = "closing"
          \/ /\ Ok(m) /\ TurnsLeft(log', turnLimit) > 0
             /\ reason' = reason /\ phase' = "verifying"
  BY DEF RunFallback
<1>4. m \in Message /\ m.expert = Fallback /\ m.verdict = "NONE"
  <2>1. Fallback \in Experts /\ Fallback \notin Verifiers
    BY ExpertsAssumption DEF Experts
  <2>2. <<{}, 0>>[1] \in SUBSET Nat /\ <<{}, 0>>[2] \in Nat
    OBVIOUS
  <2> QED BY <1>3, <2>1, <2>2, ResultType
<1>5. log' \in Seq(Message) /\ SoundVerdicts(log')
  BY <1>1, <1>3, <1>4, AppendSound
<1>6. /\ cache' \subseteq Callable /\ fallbackAttempted' \in BOOLEAN
      /\ childLog' = childLog /\ childCache' = childCache /\ depth' = depth
      /\ turnLimit' = turnLimit /\ expired' = expired /\ accepted' = accepted
  BY <1>1, <1>3, CachedType DEF TypeOK, RunFallback, child, given, Attempts
<1>7. reason' \in Reasons /\ phase' \in Phases
  BY <1>1, <1>3 DEF TypeOK, Reasons, Phases
<1>8. phase' = "verifying" => Len(log') \in Candidates(log')
  <2>1. Len(log') \in Turns(log') /\ log'[Len(log')] = m
    BY <1>1, <1>3, <1>4 DEF Turns
  <2>2. phase' = "verifying" => Ok(m)
    BY <1>3
  <2> QED BY <2>1, <2>2, <1>4 DEF Candidates, Callable
<1>9. TypeOK'
  BY <1>1, <1>5, <1>6, <1>7 DEF TypeOK
<1>10. VerifiedRelease'
  BY <1>2, <1>6 DEF VerifiedRelease, Nothing
<1> QED BY <1>1, <1>5, <1>6, <1>8, <1>9, <1>10 DEF ReleaseInv

\* The physics verifier judges the fallback's forecast, the last turn, and no other.
LEMMA VerifyFallbackRelease ==
  ASSUME ReleaseInv, VerifyFallback
  PROVE  ReleaseInv'
<1>1. /\ TypeOK /\ SoundVerdicts(log) /\ SoundVerdicts(childLog)
      /\ log \in Seq(Message) /\ Len(log) \in Candidates(log) /\ phase = "verifying"
  BY DEF ReleaseInv, TypeOK, VerifyFallback
<1>2. accepted = Nothing
  BY <1>1 DEF ReleaseInv, VerifiedRelease
<1>3. PICK m \in Results(log, cache, Physics, <<{Len(log)}, Len(log)>>) :
       /\ log' = Append(log, m)
       /\ \/ m.verdict = "ACCEPT" /\ Release(m.target, Len(log'), "verified_safe_fallback")
          \/ /\ m.verdict # "ACCEPT"
             /\ reason' = "safe_fallback_rejected" /\ phase' = "closing"
             /\ UNCHANGED accepted
  BY DEF VerifyFallback
<1>4. m \in Message /\ m.expert = Physics /\ Physics \in Verifiers
      /\ m.access = {Len(log)} /\ m.target = Len(log)
  <2>1. Physics \in Experts /\ Physics \in Verifiers
    BY ExpertsAssumption DEF Experts
  <2>2. <<{Len(log)}, Len(log)>>[1] \in SUBSET Nat /\ <<{Len(log)}, Len(log)>>[2] \in Nat
    BY <1>1
  <2> QED BY <1>3, <2>1, <2>2, ResultType
<1>5. log' \in Seq(Message) /\ SoundVerdicts(log')
  BY <1>1, <1>3, <1>4, AppendSound
<1>6. /\ cache' = cache /\ fallbackAttempted' = fallbackAttempted
      /\ childLog' = childLog /\ childCache' = childCache /\ depth' = depth
      /\ turnLimit' = turnLimit /\ expired' = expired
  BY DEF VerifyFallback, child, given
<1>7. Len(log') > 0 /\ Len(log') \in Nat /\ log'[Len(log')] = m
  BY <1>1, <1>3, <1>4
<1>8. CASE m.verdict = "ACCEPT" /\ Release(m.target, Len(log'), "verified_safe_fallback")
  <2>1. m.target \in Nat /\ m.target \in Candidates(log') /\ m.target < Len(log')
        /\ m.expert \in Verifiers /\ m.target \in m.access
    BY <1>5, <1>7, <1>8, ReleaseVerified
  <2>2. accepted' = [candidate |-> m.target, verifier |-> Len(log')] /\ phase' = "done"
        /\ reason' = "verified_safe_fallback"
    BY <1>8 DEF Release
  <2>3. VerifiedRelease'
    BY <1>7, <1>8, <2>1, <2>2 DEF VerifiedRelease
  <2>4. TypeOK'
    BY <1>1, <1>5, <1>6, <1>7, <2>1, <2>2 DEF TypeOK, Phases, Reasons
  <2> QED BY <1>1, <1>5, <1>6, <2>2, <2>3, <2>4 DEF ReleaseInv
<1>9. CASE reason' = "safe_fallback_rejected" /\ phase' = "closing" /\ UNCHANGED accepted
  <2>1. TypeOK'
    BY <1>1, <1>5, <1>6, <1>9 DEF TypeOK, Phases, Reasons
  <2>2. VerifiedRelease'
    BY <1>2, <1>9 DEF VerifiedRelease, Nothing
  <2> QED BY <1>1, <1>5, <1>6, <1>9, <2>1, <2>2 DEF ReleaseInv
<1> QED BY <1>3, <1>8, <1>9

\* Every step of a run, and every stutter, preserves ReleaseInv.
LEMMA NextRelease == ReleaseInv /\ [Next]_vars => ReleaseInv'
<1> SUFFICES ASSUME ReleaseInv, [Next]_vars PROVE ReleaseInv'
  OBVIOUS
<1>1. CASE \E e \in Experts : Turn(e)
  BY <1>1, TurnRelease
<1>2. CASE \E e \in Experts : ChildTurn(e)
  BY <1>2, ChildTurnRelease
<1>3. CASE MergeChild
  BY <1>3, MergeRelease
<1>4. CASE RunFallback
  BY <1>4, RunFallbackRelease
<1>5. CASE VerifyFallback
  BY <1>5, VerifyFallbackRelease
<1>6. CASE \/ DeadlinePasses \/ LeaveLoop \/ PolicyStops \/ EmptyChild
           \/ SkipFallback \/ GiveUp \/ UNCHANGED vars
  BY <1>6, QuietRelease
<1> QED BY <1>1, <1>2, <1>3, <1>4, <1>5, <1>6 DEF Next, ConductorStep
-----------------------------------------------------------------------------
\* ReleaseInv holds throughout every run.
LEMMA ReleaseInvariant == Spec => []ReleaseInv
<1>1. Init => ReleaseInv
  BY InitRelease
<1>2. ReleaseInv /\ [Next]_vars => ReleaseInv'
  BY NextRelease
<1> QED BY <1>1, <1>2, PTL DEF Spec

\* The variables of a run keep the types of the dataclass fields they stand for.
THEOREM TypeCorrect == Spec => []TypeOK
<1>1. ReleaseInv => TypeOK
  BY DEF ReleaseInv
<1> QED BY <1>1, ReleaseInvariant, PTL

\* run() only releases a forecast that is usable, in the transcript, and judged
\* ACCEPT by the transcript's last verifier turn, for every set of experts,
\* every budget and every policy.
THEOREM ReleaseIsVerified == Spec => []VerifiedRelease
<1>1. ReleaseInv => VerifiedRelease
  BY DEF ReleaseInv
<1> QED BY <1>1, ReleaseInvariant, PTL
-----------------------------------------------------------------------------
(***************************************************************************)
(* The turn budget.  Each action appends only after it looked at the turns *)
(* that are left; VerifyFallback does not look, and relies on RunFallback  *)
(* having left it a turn.                                                  *)
(***************************************************************************)
BudgetInv ==
  /\ TurnBudgetKept
  /\ phase = "verifying" => Len(log) < turnLimit

\* A turn is left when TurnsLeft says so.
LEMMA TurnsLeftMeaning ==
  ASSUME NEW l \in Seq(Message), NEW limit \in Int
  PROVE  /\ TurnsLeft(l, limit) > 0 => Len(l) < limit
         /\ \A k \in Nat : TurnsLeft(l, limit) > k => Len(l) + k < limit
  BY DEF TurnsLeft

\* Limits, reserves and lengths are numbers, so that arithmetic applies.
LEMMA BudgetNumbers ==
  ASSUME TypeOK
  PROVE  /\ turnLimit \in Nat /\ turnLimit > 0 /\ ReservedTurns \in Nat
         /\ Len(log) \in Nat /\ Len(childLog) \in Nat
  BY BudgetAssumption DEF TypeOK, ReservedTurns

\* A turn is taken only with a turn left, and opens a child only with more.
LEMMA TurnBudget ==
  ASSUME TypeOK, TypeOK', BudgetInv, NEW e \in Experts, Turn(e)
  PROVE  BudgetInv'
<1>1. /\ phase = "loop" /\ Len(log) < turnLimit /\ turnLimit' = turnLimit
  <2>1. phase = "loop" /\ TurnsLeft(log, turnLimit) > 0 /\ turnLimit' = turnLimit
    BY DEF Turn, given
  <2> QED BY <2>1, BudgetNumbers, TurnsLeftMeaning DEF TypeOK
<1>2. PICK m : log' = Append(log, m) /\ AfterTurn(m)
  BY DEF Turn
<1>3. Len(log') = Len(log) + 1 /\ log' \in Seq(Message)
  BY <1>2 DEF TypeOK
<1>4. phase' # "verifying"
  BY <1>1, <1>2 DEF AfterTurn, Release
<1>5. phase' = "child" => /\ childLog' = <<>>
                          /\ Len(log') + ReservedTurns < turnLimit
  <2>1. phase' = "child" => childLog' = <<>> /\ CanReplan(log')
    BY <1>1, <1>2 DEF AfterTurn, Release
  <2>2. CanReplan(log') => TurnsLeft(log', turnLimit) > ReservedTurns
    BY DEF CanReplan
  <2> QED BY <2>1, <2>2, <1>3, BudgetNumbers, TurnsLeftMeaning
<1> QED BY <1>1, <1>3, <1>4, <1>5, BudgetNumbers DEF BudgetInv, TurnBudgetKept

\* A child's turn stays within what the parent had left without its reserve.
LEMMA ChildTurnBudget ==
  ASSUME TypeOK, TypeOK', BudgetInv, NEW e \in Experts, ChildTurn(e)
  PROVE  BudgetInv'
<1>1. /\ phase = "child" /\ phase' = phase /\ log' = log /\ turnLimit' = turnLimit
      /\ TurnsLeft(childLog, ChildLevel.limit) > 0
  BY DEF ChildTurn, ChildRuns, parent, given
<1>2. ChildLevel.limit = TurnsLeft(log, turnLimit) - ReservedTurns
  BY DEF ChildLevel
<1>3. Len(childLog) < TurnsLeft(log, turnLimit) - ReservedTurns
  <2>1. TurnsLeft(log, turnLimit) - ReservedTurns \in Int
    BY BudgetNumbers DEF TurnsLeft
  <2> QED BY <1>1, <1>2, <2>1, TurnsLeftMeaning DEF TypeOK
<1>4. Len(childLog') = Len(childLog) + 1
  <2>1. PICK m : childLog' = Append(childLog, m)
    BY DEF ChildTurn
  <2> QED BY <2>1 DEF TypeOK
<1> QED BY <1>1, <1>3, <1>4, BudgetNumbers DEF BudgetInv, TurnBudgetKept, TurnsLeft

\* A merged transcript fits, since the child kept clear of the reserve.
LEMMA MergeBudget ==
  ASSUME TypeOK, TypeOK', BudgetInv, SoundVerdicts(log), SoundVerdicts(childLog), MergeChild
  PROVE  BudgetInv'
<1>1. phase = "child" /\ log' = Merged /\ turnLimit' = turnLimit
  BY DEF MergeChild, ChildLeaves, given
<1>2. phase' \in {"loop", "done"}
  BY DEF MergeChild, Release
<1>3. Len(log') = Len(log) + Len(childLog)
  BY <1>1, MergeSound DEF TypeOK
<1> QED BY <1>1, <1>2, <1>3, BudgetNumbers DEF BudgetInv, TurnBudgetKept

\* The fallback, and then its verification, each find a turn left.
LEMMA FallbackBudget ==
  ASSUME TypeOK, TypeOK', BudgetInv, RunFallback \/ VerifyFallback
  PROVE  BudgetInv'
<1>1. CASE RunFallback
  <2>1. Len(log) < turnLimit /\ turnLimit' = turnLimit
    <3>1. TurnsLeft(log, turnLimit) > 0 /\ turnLimit' = turnLimit
      BY <1>1 DEF RunFallback, CanAttempt, given
    <3> QED BY <3>1, BudgetNumbers, TurnsLeftMeaning DEF TypeOK
  <2>2. PICK m : /\ log' = Append(log, m)
                 /\ phase' # "child"
                 /\ phase' = "verifying" => TurnsLeft(log', turnLimit) > 0
    BY <1>1 DEF RunFallback
  <2>3. Len(log') = Len(log) + 1 /\ log' \in Seq(Message)
    BY <2>2 DEF TypeOK
  <2>4. phase' = "verifying" => Len(log') < turnLimit
    <3>1. turnLimit \in Int
      BY BudgetNumbers
    <3>2. TurnsLeft(log', turnLimit) > 0 => Len(log') < turnLimit
      BY <2>3, <3>1, TurnsLeftMeaning
    <3> QED BY <2>2, <3>2
  <2> QED BY <2>1, <2>2, <2>3, <2>4, BudgetNumbers DEF BudgetInv, TurnBudgetKept
<1>2. CASE VerifyFallback
  <2>1. Len(log) < turnLimit /\ turnLimit' = turnLimit
    BY <1>2 DEF VerifyFallback, BudgetInv, given
  <2>2. PICK m : log' = Append(log, m) /\ phase' \in {"done", "closing"}
    BY <1>2 DEF VerifyFallback, Release
  <2>3. Len(log') = Len(log) + 1
    BY <2>2 DEF TypeOK
  <2> QED BY <2>1, <2>2, <2>3, BudgetNumbers DEF BudgetInv, TurnBudgetKept
<1> QED BY <1>1, <1>2

\* The steps that add no turn and enter neither the child nor the verification.
LEMMA QuietBudget ==
  ASSUME TypeOK, BudgetInv,
         \/ DeadlinePasses \/ LeaveLoop \/ PolicyStops \/ EmptyChild
         \/ SkipFallback \/ GiveUp \/ UNCHANGED vars
  PROVE  BudgetInv'
<1>1. /\ log' = log /\ childLog' = childLog /\ turnLimit' = turnLimit
      /\ phase' = phase \/ phase' \in {"closing", "fallback", "done"}
  BY DEF DeadlinePasses, LeaveLoop, PolicyStops, EmptyChild, SkipFallback, GiveUp,
         vars, parent, child, given
<1> QED BY <1>1 DEF BudgetInv, TurnBudgetKept

\* An empty transcript is within every limit.
LEMMA InitBudget == Init => BudgetInv
<1> SUFFICES ASSUME Init PROVE BudgetInv
  OBVIOUS
<1>1. log = <<>> /\ phase = "loop" /\ turnLimit \in Nat
  BY BudgetAssumption DEF Init
<1> QED BY <1>1 DEF BudgetInv, TurnBudgetKept

\* Every step of a run, and every stutter, preserves BudgetInv.
LEMMA NextBudget ==
  ReleaseInv /\ ReleaseInv' /\ BudgetInv /\ [Next]_vars => BudgetInv'
<1> SUFFICES ASSUME ReleaseInv, ReleaseInv', BudgetInv, [Next]_vars PROVE BudgetInv'
  OBVIOUS
<1>1. TypeOK /\ TypeOK' /\ SoundVerdicts(log) /\ SoundVerdicts(childLog)
  BY DEF ReleaseInv
<1>2. CASE \E e \in Experts : Turn(e)
  BY <1>1, <1>2, TurnBudget
<1>3. CASE \E e \in Experts : ChildTurn(e)
  BY <1>1, <1>3, ChildTurnBudget
<1>4. CASE MergeChild
  BY <1>1, <1>4, MergeBudget
<1>5. CASE RunFallback \/ VerifyFallback
  BY <1>1, <1>5, FallbackBudget
<1>6. CASE \/ DeadlinePasses \/ LeaveLoop \/ PolicyStops \/ EmptyChild
           \/ SkipFallback \/ GiveUp \/ UNCHANGED vars
  BY <1>1, <1>6, QuietBudget
<1> QED BY <1>2, <1>3, <1>4, <1>5, <1>6 DEF Next, ConductorStep

\* BudgetInv holds throughout every run.
LEMMA BudgetInvariant == Spec => []BudgetInv
<1>1. ReleaseInv /\ BudgetInv /\ [Next]_vars => BudgetInv'
  BY NextRelease, NextBudget
<1> QED BY <1>1, InitBudget, ReleaseInvariant, PTL DEF Spec

\* No workflow spends more turns than the run was given, and a child workflow
\* leaves the turns reserved for the parent's fallback untouched.
THEOREM TurnBudgetIsKept == Spec => []TurnBudgetKept
<1>1. BudgetInv => TurnBudgetKept
  BY DEF BudgetInv
<1> QED BY <1>1, BudgetInvariant, PTL

-----------------------------------------------------------------------------
(***************************************************************************)
(* What a turn adds to a transcript.                                       *)
(***************************************************************************)
\* What a message saw or took its inputs from are turns before it.
Causal(l) == \A t \in Turns(l) : l[t].access \cup l[t].inputs \subseteq 1..(t - 1)

\* The inductive invariant behind CausalAccess: the inputs of a message matter,
\* since a verifier sees the inputs of the forecast it judges.
CausalInv == Causal(log) /\ Causal(childLog)

\* _default_access_list offers turns of the transcript the expert will join.
LEMMA AccessIsEarlier ==
  ASSUME NEW l \in Seq(Message), Causal(l), NEW e \in Experts, NEW a \in AccessOf(l, e)
  PROVE  a[1] \subseteq Turns(l)
<1>1. CASE e \in Thinkers
  <2>1. a = <<{}, 0>>
    BY <1>1, ExpertsAssumption DEF AccessOf
  <2> QED BY <2>1
<1>2. CASE e = Synthesis
  <2>1. e \notin Thinkers /\ e \notin Verifiers
    BY <1>2, ExpertsAssumption
  <2>2. a = <<BaseWorkerTurns(l), 0>>
    BY <1>2, <2>1 DEF AccessOf
  <2> QED BY <2>2, LatestIsTurn
<1>3. CASE e \in Verifiers
  <2>1. e \notin Thinkers /\ e # Synthesis
    BY <1>3, ExpertsAssumption
  <2>2. PICK c \in LatestCandidate(l) : a = <<l[c].inputs \cup {c}, c>>
    BY <1>3, <2>1 DEF AccessOf
  <2>3. c \in 1..Len(l) /\ Len(l) \in Nat /\ l[c].inputs \subseteq 1..(c - 1)
    BY LatestIsTurn DEF Turns, Causal
  <2> QED BY <2>2, <2>3 DEF Turns
<1>4. CASE e \in Callable
  <2>1. e \notin Thinkers /\ e # Synthesis /\ e \notin Verifiers
    BY <1>4, ExpertsAssumption DEF Callable, Fallback, Synthesis
  <2> DEFINE asked == {t \in LastFinding(l) : l[t].recommends = e}
  <2>2. a \in IF asked # {} THEN {<<asked, 0>>}
              ELSE IF Len(l) > 0 /\ l[Len(l)].expert \in Thinkers THEN {<<{Len(l)}, 0>>}
              ELSE {<<{}, 0>>}
    BY <2>1 DEF AccessOf
  <2>3. asked \subseteq Turns(l) /\ (Len(l) > 0 => {Len(l)} \subseteq Turns(l))
    BY LatestIsTurn DEF Turns
  <2> QED BY <2>2, <2>3
<1> QED BY <1>1, <1>2, <1>3, <1>4 DEF Experts, Callable

\* A result saw what it was given and has no other inputs; a forecast that the
\* cache holds is never computed again.
LEMMA ResultUses ==
  ASSUME NEW l, NEW held, NEW e, NEW a, NEW m \in Results(l, held, e, a)
  PROVE  /\ m.expert = e /\ m.access = a[1] /\ m.inputs \subseteq a[1]
         /\ e \in Callable \cap held => m.status # "SUCCESS"
         /\ m.status = "REUSED" => e \in held
<1>1. CASE m = Failure(e, a)
  BY <1>1 DEF Failure, Msg
<1>2. CASE e \in held /\ m = Msg(e, a, "REUSED", {}, "NONE", Nobody)
  BY <1>2 DEF Msg
<1>3. CASE /\ e \notin Callable \cap held
           /\ \E inputs, verdict, rec :
                /\ inputs \subseteq a[1]
                /\ m = Msg(e, a, "SUCCESS", inputs, verdict, rec)
  BY <1>3 DEF Msg
<1> QED BY <1>1, <1>2, <1>3 DEF Results

\* A turn of the run, taken by the policy or for the safe fallback: it adds one
\* message, of the expert chosen, that saw earlier turns only.
LEMMA ParentTurn ==
  ASSUME ReleaseInv, CausalInv, NEW e \in Experts,
         \/ Turn(e)
         \/ e = Fallback /\ RunFallback
         \/ e = Physics /\ VerifyFallback
  PROVE  \E m \in Message :
           /\ log' = Append(log, m) /\ m.expert = e
           /\ m.access \cup m.inputs \subseteq Turns(log)
           /\ e \in cache => m.status # "SUCCESS" \/ e \notin Callable
           /\ m.status = "REUSED" => e \in cache
           /\ cache' = Cached(cache, m)
           /\ fallbackAttempted' = (fallbackAttempted \/ Attempts(m))
<1>1. log \in Seq(Message) /\ Causal(log)
  BY DEF ReleaseInv, TypeOK, CausalInv
<1>2. CASE Turn(e)
  <2> PICK a \in AccessOf(log, e) : \E m \in Results(log, cache, e, a) :
          /\ log' = Append(log, m) /\ cache' = Cached(cache, m)
          /\ fallbackAttempted' = (fallbackAttempted \/ Attempts(m))
    BY <1>2 DEF Turn
  <2>1. PICK m \in Results(log, cache, e, a) :
          /\ log' = Append(log, m) /\ cache' = Cached(cache, m)
          /\ fallbackAttempted' = (fallbackAttempted \/ Attempts(m))
    OBVIOUS
  <2>2. m \in Message
    BY <1>1, TurnMessage
  <2>3. a[1] \subseteq Turns(log)
    BY <1>1, AccessIsEarlier
  <2>4. m.expert = e /\ m.access \cup m.inputs \subseteq Turns(log)
        /\ (e \in Callable \cap cache => m.status # "SUCCESS")
        /\ (m.status = "REUSED" => e \in cache)
    BY <2>3, ResultUses
  <2> QED BY <2>1, <2>2, <2>4
<1>3. CASE e = Fallback /\ RunFallback
  <2> DEFINE a == <<{}, 0>>
  <2>1. PICK m \in Results(log, cache, Fallback, a) :
          /\ log' = Append(log, m) /\ cache' = Cached(cache, m)
          /\ fallbackAttempted' = (fallbackAttempted \/ Attempts(m))
    BY <1>3 DEF RunFallback
  <2>2. a[1] = {} /\ a[2] \in Nat
    OBVIOUS
  <2>3. m \in Message
    BY <1>3, <2>2, ResultType
  <2>4. m.expert = e /\ m.access \cup m.inputs \subseteq Turns(log)
        /\ (e \in Callable \cap cache => m.status # "SUCCESS")
        /\ (m.status = "REUSED" => e \in cache)
    BY <1>3, <2>2, ResultUses
  <2> QED BY <2>1, <2>3, <2>4
<1>4. CASE e = Physics /\ VerifyFallback
  <2> DEFINE a == <<{Len(log)}, Len(log)>>
  <2>1. PICK m \in Results(log, cache, Physics, a) : log' = Append(log, m)
    BY <1>4 DEF VerifyFallback
  <2>2. a[1] = {Len(log)} /\ a[1] \in SUBSET Nat /\ a[2] \in Nat
    BY <1>1
  <2>3. m \in Message
    BY <1>4, <2>2, ResultType
  <2>4. Len(log) \in Turns(log)
    BY <1>4, LatestIsTurn DEF ReleaseInv, VerifyFallback
  <2>5. m.expert = e /\ m.access \cup m.inputs \subseteq Turns(log)
        /\ (m.status = "REUSED" => e \in cache)
    BY <1>4, <2>2, <2>4, ResultUses
  <2>6. Physics \notin Callable /\ Physics # Fallback
    BY ExpertsAssumption DEF Callable, Physics, Fallback
  <2>7. cache' = cache /\ fallbackAttempted' = fallbackAttempted
    BY <1>4 DEF VerifyFallback
  <2>8. Cached(cache, m) = cache /\ fallbackAttempted = (fallbackAttempted \/ Attempts(m))
    BY <1>4, <2>5, <2>6 DEF Cached, Attempts, ReleaseInv, TypeOK
  <2> QED BY <1>4, <2>1, <2>3, <2>5, <2>6, <2>7, <2>8
<1> QED BY <1>2, <1>3, <1>4

\* A turn of the child workflow is one of its own transcript and cache; the
\* child level has no fallback to give.
LEMMA ChildsTurn ==
  ASSUME ReleaseInv, CausalInv, NEW e \in Experts, ChildTurn(e)
  PROVE  /\ e # Fallback
         /\ \E m \in Message :
              /\ childLog' = Append(childLog, m) /\ m.expert = e
              /\ m.access \cup m.inputs \subseteq Turns(childLog)
              /\ e \in childCache => m.status # "SUCCESS" \/ e \notin Callable
              /\ childCache' = Cached(childCache, m)
<1>1. childLog \in Seq(Message) /\ Causal(childLog)
  BY DEF ReleaseInv, TypeOK, CausalInv
<1>1a. PICK a \in AccessOf(childLog, e) : \E m \in Results(childLog, childCache, e, a) :
        childLog' = Append(childLog, m) /\ childCache' = Cached(childCache, m)
  BY DEF ChildTurn
<1>2. PICK m \in Results(childLog, childCache, e, a) :
        childLog' = Append(childLog, m) /\ childCache' = Cached(childCache, m)
  BY <1>1a
<1>3. m \in Message
  BY <1>1, TurnMessage
<1>4. a[1] \subseteq Turns(childLog)
  BY <1>1, AccessIsEarlier
<1>5. m.expert = e /\ m.access \cup m.inputs \subseteq Turns(childLog)
      /\ (e \in Callable \cap childCache => m.status # "SUCCESS")
  BY <1>4, ResultUses
<1>6. e # Fallback
  <2>1. Feasible(childLog, ChildLevel, FALSE, e) /\ ~ChildLevel.fallback
    BY DEF ChildTurn, ChildLevel
  <2> QED BY <2>1 DEF Feasible
<1> QED BY <1>2, <1>3, <1>5, <1>6

\* The steps that leave the run's transcript, its cache and the flag alone.
Quiet == \/ DeadlinePasses \/ LeaveLoop \/ PolicyStops \/ EmptyChild
         \/ SkipFallback \/ GiveUp \/ UNCHANGED vars

\* A step takes a turn, of the run or of its child, merges the child, or is quiet.
LEMMA StepKinds ==
  ASSUME [Next]_vars
  PROVE  \/ \E e \in Experts : \/ Turn(e)
                               \/ e = Fallback /\ RunFallback
                               \/ e = Physics /\ VerifyFallback
         \/ \E e \in Experts : ChildTurn(e)
         \/ MergeChild
         \/ Quiet
<1>1. Fallback \in Experts /\ Physics \in Experts
  BY ExpertsAssumption DEF Experts
<1> QED BY <1>1 DEF Next, ConductorStep, Quiet
-----------------------------------------------------------------------------
(***************************************************************************)
(* The transcript only grows, and with it the forecasts of a run: every    *)
(* run of UltraConductor is a run of ForecastRun.                          *)
(***************************************************************************)
\* A run that is over takes no step; every other step leaves the turns of the
\* run where they are, the merge of a child included, and what it adds is behind.
LEMMA StepGrows ==
  ASSUME ReleaseInv, Next
  PROVE  /\ phase # "done" /\ Len(log) <= Len(log')
         /\ \A t \in Turns(log) : t \in Turns(log') /\ log'[t] = log[t]
<1>1. log \in Seq(Message) /\ childLog \in Seq(Message) /\ Len(log) \in Nat
  BY DEF ReleaseInv, TypeOK
<1>2. phase # "done"
  BY DEF Next, ConductorStep, DeadlinePasses, LeaveLoop, PolicyStops, Turn, ChildTurn,
         ChildRuns, MergeChild, ChildLeaves, EmptyChild, RunFallback, VerifyFallback,
         SkipFallback, GiveUp
<1>3. CASE \E m : log' = Append(log, m)
  <2>1. Len(log') = Len(log) + 1 /\ \A t \in 1..Len(log) : log'[t] = log[t]
    BY <1>1, <1>3
  <2> QED BY <1>1, <1>2, <2>1 DEF Turns
<1>4. CASE log' = log
  BY <1>1, <1>2, <1>4 DEF Turns
<1>5. CASE MergeChild
  <2>1. Len(log') = Len(log) + Len(childLog) /\ Len(childLog) \in Nat
        /\ \A t \in 1..Len(log) : log'[t] = log[t]
    <3>1. log' = Merged /\ Len(childLog) \in Nat
      BY <1>1, <1>5 DEF MergeChild
    <3> QED BY <1>1, <3>1, MergedTurns
  <2> QED BY <1>1, <1>2, <2>1 DEF Turns
<1>6. CASE (\E e \in Experts : Turn(e)) \/ RunFallback \/ VerifyFallback
  BY <1>3, <1>6 DEF Turn, RunFallback, VerifyFallback
<1>7. CASE \E e \in Experts : ChildTurn(e)
  BY <1>4, <1>7 DEF ChildTurn, parent
<1>8. CASE \/ DeadlinePasses \/ LeaveLoop \/ PolicyStops \/ EmptyChild
           \/ SkipFallback \/ GiveUp
  BY <1>4, <1>8 DEF DeadlinePasses, LeaveLoop, PolicyStops, EmptyChild, SkipFallback,
                    GiveUp, parent
<1> QED BY <1>5, <1>6, <1>7, <1>8 DEF Next, ConductorStep

\* The turns of a run's transcript are never changed, renumbered or dropped, and a
\* released forecast is never replaced: after it nothing is appended either.
THEOREM TranscriptGrows == Spec => TranscriptOnlyGrows
<1> DEFINE Grows == /\ Len(log') >= Len(log)
                    /\ \A t \in Turns(log) : log'[t] = log[t]
                    /\ accepted # Nothing => accepted' = accepted /\ log' = log
<1>1. ReleaseInv /\ [Next]_vars => [Grows]_vars
  <2> SUFFICES ASSUME ReleaseInv, Next PROVE Grows
    OBVIOUS
  <2>1. phase # "done" /\ Len(log) <= Len(log') /\ \A t \in Turns(log) : log'[t] = log[t]
    BY StepGrows
  <2>2. accepted = Nothing
    BY <2>1 DEF ReleaseInv, VerifiedRelease
  <2>3. Len(log) \in Nat /\ Len(log') \in Nat
    BY DEF ReleaseInv, TypeOK
  <2> QED BY <2>1, <2>2, <2>3
<1> QED BY <1>1, ReleaseInvariant, PTL DEF Spec, TranscriptOnlyGrows

\* No step loses a forecast.
LEMMA StepKeeps ==
  ASSUME ReleaseInv, Next
  PROVE  phase # "done" /\ Candidates(log) \subseteq Candidates(log')
BY StepGrows DEF Candidates, Ok

\* What is released is a forecast of the run, and only a finished run releases.
LEMMA ReleasedIsObtained ==
  ASSUME VerifiedRelease
  PROVE  /\ Released \subseteq Candidates(log)
         /\ accepted # Nothing => phase = "done" /\ Released # {}
         /\ accepted = Nothing => Released = {}
BY DEF VerifiedRelease, Released

\* The first state of a run is a first state of ForecastRun.
LEMMA InitRefines == Init => Abstract!Init
<1> SUFFICES ASSUME Init PROVE Abstract!Init
  OBVIOUS
<1>1. phase = "loop" /\ log = <<>> /\ accepted = Nothing
  BY DEF Init
<1>2. Candidates(log) = {}
  BY <1>1 DEF Candidates, Turns
<1> QED BY <1>1, <1>2 DEF Abstract!Init, Status, Released

\* A step is the pipeline working, releasing or giving up.
LEMMA StepRefines ==
  ASSUME ReleaseInv, ReleaseInv', Next
  PROVE  Abstract!Next
<1>1. phase # "done" /\ Candidates(log) \subseteq Candidates(log')
  BY StepKeeps
<1>2. Status = "running" /\ Released = {} /\ accepted = Nothing
  BY <1>1, ReleasedIsObtained DEF ReleaseInv, Status
<1>3. /\ Released' \subseteq Candidates(log')
      /\ accepted' # Nothing => phase' = "done" /\ Released' # {}
      /\ accepted' = Nothing => Released' = {}
  BY DEF ReleaseInv, VerifiedRelease, Released, Nothing
<1>4. CASE phase' # "done"
  <2>1. Status' = "running" /\ Released' = {}
    BY <1>3, <1>4 DEF Status
  <2>2. Abstract!Work
    BY <1>1, <1>2, <2>1 DEF Abstract!Work, Abstract!Obtain
  <2> QED BY <2>2 DEF Abstract!Next
<1>5. CASE phase' = "done" /\ accepted' = Nothing
  <2>1. Status' = "unavailable" /\ Released' = {}
    BY <1>3, <1>5 DEF Status, Nothing
  <2>2. Abstract!GiveUp
    BY <1>1, <1>2, <2>1 DEF Abstract!GiveUp, Abstract!Obtain
  <2> QED BY <2>2 DEF Abstract!Next
<1>6. CASE phase' = "done" /\ accepted' # Nothing
  <2>1. Status' = "available" /\ Released' # {}
    BY <1>3, <1>6 DEF Status, Nothing
  <2>2. Abstract!Release
    BY <1>1, <1>2, <1>3, <2>1 DEF Abstract!Release, Abstract!Obtain
  <2> QED BY <2>2 DEF Abstract!Next
<1> QED BY <1>4, <1>5, <1>6

\* UltraConductor.run does what ForecastPipeline.run promises in every mode: its
\* forecasts accumulate, its result is made once, of a forecast it holds, and is
\* never taken back, whatever the policy, the experts and the verifiers do.
THEOREM UltraImplementsForecastRun == Spec => ImplementsForecastRun
<1>1. Init => Abstract!Init
  BY InitRefines
<1>2. ReleaseInv /\ ReleaseInv' /\ [Next]_vars => [Abstract!Next]_(Abstract!vars)
  <2> SUFFICES ASSUME ReleaseInv, ReleaseInv', [Next]_vars
               PROVE  [Abstract!Next]_(Abstract!vars)
    OBVIOUS
  <2>1. CASE Next
    BY <2>1, StepRefines
  <2>2. CASE UNCHANGED vars
    <3>1. phase' = phase /\ log' = log /\ accepted' = accepted
      BY <2>2 DEF vars, parent, ending
    <3>2. Abstract!vars' = Abstract!vars
      BY <3>1 DEF Abstract!vars, Status, Released, Candidates, Turns, Ok, Nothing
    <3> QED BY <3>2
  <2> QED BY <2>1, <2>2
<1> QED BY <1>1, <1>2, ReleaseInvariant, PTL DEF Spec, ImplementsForecastRun, Abstract!Spec
-----------------------------------------------------------------------------
(***************************************************************************)
(* Causality.                                                              *)
(***************************************************************************)
\* Appending a message that saw turns of the transcript keeps it causal.
LEMMA AppendCausal ==
  ASSUME NEW l \in Seq(Message), Causal(l), NEW m \in Message,
         m.access \cup m.inputs \subseteq Turns(l)
  PROVE  Causal(Append(l, m))
<1> DEFINE k == Append(l, m)
<1>1. Len(l) \in Nat /\ Len(k) = Len(l) + 1 /\ k[Len(k)] = m
      /\ \A t \in 1..Len(l) : k[t] = l[t]
  OBVIOUS
<1>2. ASSUME NEW t \in Turns(k)
      PROVE  k[t].access \cup k[t].inputs \subseteq 1..(t - 1)
  <2>1. CASE t \in 1..Len(l)
    BY <1>1, <2>1 DEF Causal, Turns
  <2>2. CASE t = Len(k)
    BY <1>1, <2>2 DEF Turns
  <2> QED BY <1>1, <1>2, <2>1, <2>2 DEF Turns
<1> QED BY <1>2 DEF Causal

\* A child's turns saw child turns, which the merge moves with them; their inputs,
\* which it does not move, stay in the past all the more.
LEMMA MergeCausal ==
  ASSUME log \in Seq(Message), childLog \in Seq(Message), CausalInv
  PROVE  Causal(Merged)
<1> DEFINE base == Len(log)
<1>1. base \in Nat /\ Len(childLog) \in Nat
  OBVIOUS
<1>2. ASSUME NEW t \in 1..base
      PROVE  Merged[t].access \cup Merged[t].inputs \subseteq 1..(t - 1)
  <2>1. Merged[t] = log[t]
    BY MergedTurns
  <2> QED BY <2>1 DEF CausalInv, Causal, Turns
<1>3. ASSUME NEW u \in 1..Len(childLog)
      PROVE  Merged[base + u].access \cup Merged[base + u].inputs \subseteq 1..(base + u - 1)
  <2>1. Merged[base + u] = Moved(childLog[u], base) /\ childLog[u] \in Message
    BY MergedTurns
  <2>2. Merged[base + u].access = {base + t : t \in childLog[u].access}
        /\ Merged[base + u].inputs = childLog[u].inputs
    BY <1>1, <2>1, MovedMessage
  <2>3. childLog[u].access \subseteq 1..(u - 1) /\ childLog[u].inputs \subseteq 1..(u - 1)
    BY DEF CausalInv, Causal, Turns
  <2>4. 1..(u - 1) \subseteq 1..(base + u - 1)
        /\ \A t \in 1..(u - 1) : base + t \in 1..(base + u - 1)
    BY <1>1
  <2> QED BY <2>2, <2>3, <2>4
<1>4. ASSUME NEW t \in 1..Len(Merged)
      PROVE  Merged[t].access \cup Merged[t].inputs \subseteq 1..(t - 1)
  <2>1. CASE t \in 1..base
    BY <1>2, <2>1
  <2>2. CASE \E u \in 1..Len(childLog) : t = base + u
    <3>1. PICK u \in 1..Len(childLog) : t = base + u
      BY <2>2
    <3> QED BY <1>3, <3>1
  <2> QED BY <2>1, <2>2, MergedTurns
<1> QED BY <1>4 DEF Causal, Turns

\* Every step, and every stutter, keeps both transcripts causal.
LEMMA NextCausal == ReleaseInv /\ CausalInv /\ [Next]_vars => CausalInv'
<1> SUFFICES ASSUME ReleaseInv, CausalInv, [Next]_vars PROVE CausalInv'
  OBVIOUS
<1>1. log \in Seq(Message) /\ childLog \in Seq(Message)
  BY DEF ReleaseInv, TypeOK
<1>2. Causal(<<>>)
  BY DEF Causal, Turns
<1>3. ASSUME NEW e \in Experts, \/ Turn(e)
                                \/ e = Fallback /\ RunFallback
                                \/ e = Physics /\ VerifyFallback
      PROVE  CausalInv'
  <2>1. Causal(log')
    BY <1>1, <1>3, ParentTurn, AppendCausal DEF CausalInv
  <2>2. childLog' = childLog \/ childLog' = <<>>
    BY <1>3 DEF Turn, AfterTurn, RunFallback, VerifyFallback, child
  <2> QED BY <1>2, <2>1, <2>2 DEF CausalInv
<1>4. ASSUME NEW e \in Experts, ChildTurn(e) PROVE CausalInv'
  <2>1. Causal(childLog')
    BY <1>1, <1>4, ChildsTurn, AppendCausal DEF CausalInv
  <2>2. log' = log
    BY <1>4 DEF ChildTurn, parent
  <2> QED BY <2>1, <2>2 DEF CausalInv
<1>5. CASE MergeChild
  BY <1>1, <1>2, <1>5, MergeCausal DEF MergeChild, CausalInv
<1>6. CASE Quiet
  <2>1. log' = log /\ childLog' = childLog
    BY <1>6 DEF Quiet, DeadlinePasses, LeaveLoop, PolicyStops, EmptyChild, SkipFallback,
                GiveUp, vars, parent, child
  <2> QED BY <2>1 DEF CausalInv
<1> QED BY <1>3, <1>4, <1>5, <1>6, StepKinds

\* CausalInv holds throughout every run.
LEMMA CausalInvariant == Spec => []CausalInv
<1>1. Init => CausalInv
  <2>1. Causal(<<>>)
    BY DEF Causal, Turns
  <2> QED BY <2>1 DEF Init, CausalInv
<1> QED BY <1>1, NextCausal, ReleaseInvariant, PTL DEF Spec

\* Every turn saw earlier turns only, in the numbering of the transcript it is in:
\* also a child's turns after _merge_child_transcript_into_parent renumbered them,
\* and a verifier's, which sees the inputs of the forecast it judges.
THEOREM AccessIsCausal == Spec => []CausalAccess
<1>1. CausalInv => CausalAccess
  BY DEF CausalInv, Causal, CausalAccess
<1> QED BY <1>1, CausalInvariant, PTL
-----------------------------------------------------------------------------
(***************************************************************************)
(* The two caches.                                                         *)
(***************************************************************************)
\* The message of a physical forecast that was computed.
Succeeded(m) == m.expert \in Callable /\ m.status = "SUCCESS"
\* A cache holds every forecast that its transcript computed.
Held(l, held) == \A t \in Turns(l) : Succeeded(l[t]) => l[t].expert \in held
\* No forecast is computed twice in one transcript, or in both of two.
Once(l) == \A t, u \in Turns(l) :
             Succeeded(l[t]) /\ Succeeded(l[u]) /\ l[t].expert = l[u].expert => t = u
Apart(k, l) == \A t \in Turns(k), u \in Turns(l) :
                 Succeeded(k[t]) /\ Succeeded(l[u]) => k[t].expert # l[u].expert

\* The inductive invariant behind ComputedOnce: the child starts from a copy of
\* the run's cache, which the run does not use until the child is merged.
CacheInv ==
  /\ Held(log, cache) /\ Once(log)
  /\ Held(childLog, childCache) /\ Once(childLog)
  /\ Apart(log, childLog)
  /\ phase = "child" => cache \subseteq childCache
  /\ phase # "child" => childLog = <<>>

\* A message that computes a forecast no cache holds keeps the cache complete and
\* the transcript free of repetitions, also together with another transcript.
LEMMA AppendOnce ==
  ASSUME NEW l \in Seq(Message), NEW held, Held(l, held), Once(l), NEW m \in Message,
         m.expert \in held => m.status # "SUCCESS" \/ m.expert \notin Callable
  PROVE  /\ Held(Append(l, m), Cached(held, m)) /\ Once(Append(l, m))
         /\ held \subseteq Cached(held, m)
         /\ \A k : Apart(k, l) /\ Held(k, held) => Apart(k, Append(l, m))
<1> DEFINE n == Append(l, m)
<1>1. /\ Len(l) \in Nat /\ Len(n) = Len(l) + 1 /\ n[Len(n)] = m
      /\ \A t \in 1..Len(l) : n[t] = l[t]
  OBVIOUS
<1> HIDE DEF n
<1>2. \A t \in Turns(n) : t = Len(n) \/ (t \in Turns(l) /\ n[t] = l[t])
  <2> TAKE t \in Turns(n)
  <2>1. t \in 1..(Len(l) + 1)
    BY <1>1 DEF Turns
  <2>2. t = Len(l) + 1 \/ t \in 1..Len(l)
    BY <1>1, <2>1
  <2> QED BY <1>1, <2>2 DEF Turns
<1>3. Succeeded(m) => m.expert \notin held /\ m.expert \in Cached(held, m)
  BY DEF Succeeded, Cached
<1>4. held \subseteq Cached(held, m)
  BY DEF Cached
<1>5. Held(n, Cached(held, m))
  BY <1>1, <1>2, <1>3, <1>4 DEF Held
<1>6. Once(n)
  <2> SUFFICES ASSUME NEW t \in Turns(n), NEW u \in Turns(n),
                      Succeeded(n[t]), Succeeded(n[u]), n[t].expert = n[u].expert
               PROVE  t = u
    BY DEF Once
  <2>1. \A v \in Turns(l) : Succeeded(l[v]) => l[v].expert \in held
    BY DEF Held
  <2> QED BY <1>1, <1>2, <1>3, <2>1 DEF Once
<1>7. ASSUME NEW k, Apart(k, l), Held(k, held) PROVE Apart(k, n)
  BY <1>1, <1>2, <1>3, <1>7 DEF Apart, Held
<1> QED BY <1>4, <1>5, <1>6, <1>7 DEF n

\* Two transcripts that computed different forecasts, put one behind the other.
LEMMA JoinOnce ==
  ASSUME NEW a \in Seq(Message), NEW b \in Seq(Message), NEW c \in Seq(Message),
         Once(a), Once(b), Apart(a, b), Len(c) = Len(a) + Len(b),
         \A t \in 1..Len(a) : c[t].expert = a[t].expert /\ c[t].status = a[t].status,
         \A t \in 1..Len(b) : /\ c[Len(a) + t].expert = b[t].expert
                              /\ c[Len(a) + t].status = b[t].status
  PROVE  /\ Once(c)
         /\ \A held, more : Held(a, held) /\ Held(b, more) => Held(c, held \cup more)
<1>1. \A t \in Turns(c) :
        \/ /\ t \in Turns(a)
           /\ Succeeded(c[t]) <=> Succeeded(a[t]) /\ c[t].expert = a[t].expert
        \/ \E v \in Turns(b) : /\ t = Len(a) + v /\ c[t].expert = b[v].expert
                               /\ Succeeded(c[t]) <=> Succeeded(b[v])
  <2> TAKE t \in Turns(c)
  <2>1. Len(a) \in Nat /\ Len(b) \in Nat
    OBVIOUS
  <2>2. CASE t \in 1..Len(a)
    BY <2>2 DEF Turns, Succeeded
  <2>3. CASE t \notin 1..Len(a)
    <3>1. t - Len(a) \in 1..Len(b) /\ t = Len(a) + (t - Len(a))
      BY <2>1, <2>3 DEF Turns
    <3> QED BY <3>1 DEF Turns, Succeeded
  <2> QED BY <2>2, <2>3
<1>2. Once(c)
  BY <1>1 DEF Once, Apart
<1>3. ASSUME NEW held, NEW more, Held(a, held), Held(b, more)
      PROVE  Held(c, held \cup more)
  BY <1>1, <1>3 DEF Held
<1> QED BY <1>2, <1>3

\* Every step, and every stutter, keeps the caches complete: a child that ran on a
\* copy of the cache brings its forecasts and its cache back together.
LEMMA NextCache == ReleaseInv /\ CausalInv /\ CacheInv /\ [Next]_vars => CacheInv'
<1> SUFFICES ASSUME ReleaseInv, CausalInv, CacheInv, [Next]_vars PROVE CacheInv'
  OBVIOUS
<1>1. log \in Seq(Message) /\ childLog \in Seq(Message)
  BY DEF ReleaseInv, TypeOK
<1>2. /\ Held(log, cache) /\ Once(log) /\ Held(childLog, childCache) /\ Once(childLog)
      /\ Apart(log, childLog)
  BY DEF CacheInv
<1>3. /\ \A held : Held(<<>>, held)
      /\ Once(<<>>) /\ \A l : Apart(l, <<>>)
  BY DEF Held, Once, Apart, Turns
<1>4. ASSUME NEW e \in Experts, \/ Turn(e)
                                \/ e = Fallback /\ RunFallback
                                \/ e = Physics /\ VerifyFallback
      PROVE  CacheInv'
  <2>1. PICK m \in Message :
           /\ log' = Append(log, m) /\ m.expert = e
           /\ e \in cache => m.status # "SUCCESS" \/ e \notin Callable
           /\ cache' = Cached(cache, m)
    BY <1>4, ParentTurn
  <2>2. Held(log', cache') /\ Once(log')
    BY <1>1, <1>2, <2>1, AppendOnce
  <2>3. phase # "child"
    BY <1>4 DEF Turn, RunFallback, VerifyFallback
  <2>4. childLog = <<>>
    BY <2>3 DEF CacheInv
  <2>5. childLog' = <<>>
    BY <1>4, <2>4 DEF Turn, AfterTurn, RunFallback, VerifyFallback, child
  <2>6. phase' = "child" => childCache' = cache'
    BY <1>4, <2>3 DEF Turn, AfterTurn, Release, RunFallback, VerifyFallback
  <2> QED BY <1>3, <2>2, <2>5, <2>6 DEF CacheInv
<1>5. ASSUME NEW e \in Experts, ChildTurn(e) PROVE CacheInv'
  <2>1. PICK m \in Message :
           /\ childLog' = Append(childLog, m) /\ m.expert = e
           /\ e \in childCache => m.status # "SUCCESS" \/ e \notin Callable
           /\ childCache' = Cached(childCache, m)
    BY <1>5, ChildsTurn
  <2>2. phase = "child" /\ phase' = phase /\ log' = log /\ cache' = cache
    BY <1>5 DEF ChildTurn, ChildRuns, parent
  <2>3. Held(log, childCache)
    BY <1>2, <2>2 DEF CacheInv, Held
  <2>4. /\ Held(childLog', childCache') /\ Once(childLog') /\ childCache \subseteq childCache'
        /\ Apart(log, childLog')
    BY <1>1, <1>2, <2>1, <2>3, AppendOnce
  <2> QED BY <1>2, <2>2, <2>4 DEF CacheInv
<1>6. CASE MergeChild
  <2>1. /\ log' = Merged /\ cache' = cache \cup childCache /\ childLog' = <<>>
        /\ phase' # "child"
    BY <1>6 DEF MergeChild, Release
  <2>2. /\ \A t \in 1..Len(log) : /\ Merged[t].expert = log[t].expert
                                  /\ Merged[t].status = log[t].status
        /\ \A t \in 1..Len(childLog) :
             /\ Merged[Len(log) + t].expert = childLog[t].expert
             /\ Merged[Len(log) + t].status = childLog[t].status
    <3>1. Len(log) \in Nat
      BY <1>1
    <3>2. \A t \in 1..Len(childLog) :
            /\ Moved(childLog[t], Len(log)).expert = childLog[t].expert
            /\ Moved(childLog[t], Len(log)).status = childLog[t].status
      <4> TAKE t \in 1..Len(childLog)
      <4>1. childLog[t] \in Message
        BY <1>1
      <4> QED BY <3>1, <4>1, MovedMessage
    <3> QED BY <1>1, <3>2, MergedTurns
  <2>3. Once(log') /\ Held(log', cache')
    BY <1>1, <1>2, <2>1, <2>2, MergedTurns, JoinOnce
  <2> QED BY <1>3, <2>1, <2>3 DEF CacheInv
<1>7. CASE Quiet
  <2>1. /\ log' = log /\ cache' = cache /\ childLog' = childLog
        /\ phase' = "child" => phase = "child" /\ childCache' = childCache
        /\ phase' # "child" /\ phase = "child" => childLog = <<>>
    BY <1>7 DEF Quiet, DeadlinePasses, LeaveLoop, PolicyStops, EmptyChild, SkipFallback,
                GiveUp, vars, parent, child
  <2>2. phase' # "child" => childLog' = <<>>
    BY <2>1 DEF CacheInv
  <2>3. Held(childLog', childCache')
    BY <1>2, <1>3, <2>1, <2>2
  <2> QED BY <1>2, <2>1, <2>2, <2>3 DEF CacheInv
<1> QED BY <1>4, <1>5, <1>6, <1>7, StepKinds

\* CacheInv holds throughout every run.
LEMMA CacheInvariant == Spec => []CacheInv
<1>1. Init => CacheInv
  <2>1. Held(<<>>, {}) /\ Once(<<>>) /\ Apart(<<>>, <<>>)
    BY DEF Held, Once, Apart, Turns
  <2> QED BY <2>1 DEF Init, CacheInv
<1> QED BY <1>1, NextCache, CausalInvariant, ReleaseInvariant, PTL DEF Spec

\* No worker's forecast is computed twice, in the run and its child workflow
\* together: the child gets a copy of the cache and the merge takes both back.
THEOREM ForecastsComputedOnce == Spec => []ComputedOnce
<1>1. ReleaseInv /\ CacheInv => ComputedOnce
  <2> SUFFICES ASSUME ReleaseInv, CacheInv PROVE ComputedOnce
    OBVIOUS
  <2>1. log \in Seq(Message) /\ childLog \in Seq(Message)
    BY DEF ReleaseInv, TypeOK
  <2> DEFINE c == log \o childLog
  <2>2. /\ c \in Seq(Message) /\ Len(c) = Len(log) + Len(childLog)
        /\ \A t \in 1..Len(log) : c[t] = log[t]
        /\ \A t \in 1..Len(childLog) : c[Len(log) + t] = childLog[t]
    BY <2>1, Concatenated
  <2> HIDE DEF c
  <2>3. Once(c)
    BY <2>1, <2>2, JoinOnce DEF CacheInv
  <2> QED BY <2>3 DEF c, ComputedOnce, Once, Succeeded
<1> QED BY <1>1, CacheInvariant, ReleaseInvariant, PTL
-----------------------------------------------------------------------------
(***************************************************************************)
(* The safe fallback.                                                      *)
(***************************************************************************)
\* The fallback has a turn in the transcript.
Ran(l) == \E t \in Turns(l) : l[t].expert = Fallback

\* The flag fallback_attempted says what the transcript says, and the caches cannot
\* answer for a fallback that was not attempted; the child has none.
FlagInv ==
  /\ fallbackAttempted <=> Ran(log)
  /\ ~Ran(childLog)
  /\ Fallback \in cache \cup childCache => fallbackAttempted
  /\ phase = "verifying" => fallbackAttempted
  /\ FallbackOnce
  /\ FallbackCallReserved
  /\ PhysicalCalls(childLog) <= MaxPhysical

\* A message adds one physical call at most, and none when its expert costs none.
LEMMA AppendCalls ==
  ASSUME NEW l \in Seq(Message), NEW m \in Message
  PROVE  /\ PhysicalCalls(l) \in Nat /\ PhysicalCalls(Append(l, m)) \in Nat
         /\ PhysicalCalls(Append(l, m)) <= PhysicalCalls(l) + 1
         /\ m.expert \notin Callable => PhysicalCalls(Append(l, m)) = PhysicalCalls(l)
<1> DEFINE n == Append(l, m)
           Costly(k) == {t \in Turns(k) : k[t].expert \in Callable /\ k[t].status # "REUSED"}
<1>1. /\ Len(l) \in Nat /\ Len(n) = Len(l) + 1 /\ n[Len(n)] = m
      /\ \A t \in 1..Len(l) : n[t] = l[t]
  OBVIOUS
<1> HIDE DEF n
<1>2. IsFiniteSet(Costly(l)) /\ Cardinality(Costly(l)) \in Nat
  <2>1. IsFiniteSet(1..Len(l))
    BY <1>1, FS_Interval
  <2>2. Costly(l) \in SUBSET (1..Len(l))
    BY DEF Turns
  <2> QED BY <2>1, <2>2, FS_Subset, FS_CardinalityType
<1>3. \A t : t \in Turns(n) <=> t \in Turns(l) \/ t = Len(n)
  BY <1>1 DEF Turns
<1>4. \A t \in Turns(l) : n[t] = l[t]
  BY <1>1 DEF Turns
<1>5. Costly(n) = Costly(l) \/ Costly(n) = Costly(l) \cup {Len(n)}
  BY <1>3, <1>4
<1>6. m.expert \notin Callable => Costly(n) = Costly(l)
  BY <1>1, <1>3, <1>4
<1>7. PhysicalCalls(l) = Cardinality(Costly(l)) /\ PhysicalCalls(n) = Cardinality(Costly(n))
  BY DEF PhysicalCalls
<1> HIDE DEF Costly
<1>8. Cardinality(Costly(n)) \in Nat
      /\ Cardinality(Costly(n)) <= Cardinality(Costly(l)) + 1
  <2>1. CASE Costly(n) = Costly(l)
    BY <1>2, <2>1
  <2>2. CASE Costly(n) = Costly(l) \cup {Len(n)}
    <3>1. Cardinality(Costly(l) \cup {Len(n)}) =
            IF Len(n) \in Costly(l) THEN Cardinality(Costly(l)) ELSE Cardinality(Costly(l)) + 1
      BY <1>2, FS_AddElement
    <3> QED BY <1>2, <2>2, <3>1
  <2> QED BY <1>5, <2>1, <2>2
<1> QED BY <1>2, <1>6, <1>7, <1>8 DEF n

\* A merged transcript has the calls of its parts, at most.
LEMMA MergedCalls ==
  ASSUME log \in Seq(Message), childLog \in Seq(Message)
  PROVE  /\ {PhysicalCalls(log), PhysicalCalls(childLog), PhysicalCalls(Merged)} \subseteq Nat
         /\ PhysicalCalls(Merged) <= PhysicalCalls(log) + PhysicalCalls(childLog)
<1> DEFINE Costly(l) == {t \in Turns(l) : l[t].expert \in Callable /\ l[t].status # "REUSED"}
           base == Len(log)
           later == {base + t : t \in Costly(childLog)}
<1>1. \A l \in Seq(Message) : IsFiniteSet(Costly(l)) /\ Cardinality(Costly(l)) \in Nat
  <2> TAKE l \in Seq(Message)
  <2>1. Len(l) \in Nat /\ IsFiniteSet(1..Len(l))
    BY FS_Interval
  <2>2. Costly(l) \in SUBSET (1..Len(l))
    BY DEF Turns
  <2> QED BY <2>1, <2>2, FS_Subset, FS_CardinalityType
<1>2. base \in Nat /\ Merged \in Seq(Message)
  BY MergedTurns
<1>3. IsFiniteSet(later) /\ Cardinality(later) \in Nat
      /\ Cardinality(later) <= Cardinality(Costly(childLog))
  <2> DEFINE f == [t \in Costly(childLog) |-> base + t]
  <2>1. f \in Surjection(Costly(childLog), later)
    <3> HIDE DEF Costly, base
    <3> QED BY DEF Surjection
  <2> HIDE DEF f, later, Costly
  <2> QED BY <1>1, <2>1, FS_Surjection, FS_CardinalityType
<1>4. Costly(Merged) \in SUBSET (Costly(log) \cup later)
  <2> SUFFICES ASSUME NEW t \in Costly(Merged) PROVE t \in Costly(log) \cup later
    OBVIOUS
  <2>1. t \in 1..Len(Merged) /\ Merged[t].expert \in Callable /\ Merged[t].status # "REUSED"
    BY DEF Turns
  <2>2. CASE t \in 1..Len(log)
    BY <2>1, <2>2, MergedTurns DEF Turns
  <2>3. CASE \E u \in 1..Len(childLog) : t = Len(log) + u
    <3>1. PICK u \in 1..Len(childLog) : t = base + u
      BY <2>3
    <3>2. childLog[u] \in Message /\ Merged[t] = Moved(childLog[u], base)
      BY <3>1, MergedTurns
    <3>3. Merged[t].expert = childLog[u].expert /\ Merged[t].status = childLog[u].status
      BY <1>2, <3>2, MovedMessage
    <3>4. u \in Costly(childLog)
      BY <2>1, <3>3 DEF Turns
    <3> HIDE DEF Costly, base
    <3> QED BY <3>1, <3>4
  <2> QED BY <2>1, <2>2, <2>3, MergedTurns
<1>5. /\ PhysicalCalls(log) = Cardinality(Costly(log))
      /\ PhysicalCalls(childLog) = Cardinality(Costly(childLog))
      /\ PhysicalCalls(Merged) = Cardinality(Costly(Merged))
  BY DEF PhysicalCalls
<1> HIDE DEF Costly, later
<1>6. Cardinality(Costly(log) \cup later) \in Nat
      /\ Cardinality(Costly(log) \cup later) <= Cardinality(Costly(log)) + Cardinality(later)
  <2>1. IsFiniteSet(Costly(log)) /\ IsFiniteSet(later)
    BY <1>1, <1>3
  <2>2. /\ IsFiniteSet(Costly(log) \cup later)
        /\ Cardinality(Costly(log) \cup later) =
             Cardinality(Costly(log)) + Cardinality(later) - Cardinality(Costly(log) \cap later)
    BY <2>1, FS_Union
  <2>3. Cardinality(Costly(log) \cap later) \in Nat
    BY <2>1, FS_Subset, FS_CardinalityType
  <2> QED BY <1>1, <1>3, <2>2, <2>3, FS_CardinalityType
<1>7. Cardinality(Costly(Merged)) <= Cardinality(Costly(log) \cup later)
  BY <1>1, <1>3, <1>4, FS_Union, FS_Subset
<1> QED BY <1>1, <1>2, <1>3, <1>5, <1>6, <1>7

\* One more merged child is one more budget of calls, and none is less than one.
LEMMA CallBudgets ==
  ASSUME NEW d \in Nat
  PROVE  /\ (d + 1) * MaxPhysical \in Nat /\ MaxPhysical <= (d + 1) * MaxPhysical
         /\ (d + 1 + 1) * MaxPhysical = (d + 1) * MaxPhysical + MaxPhysical
<1>1. MaxPhysical \in Nat
  BY BudgetAssumption
<1>2. \A x, y \in Nat : x * y \in Nat /\ (x + 1) * y = x * y + y
  OBVIOUS
<1>3. d * MaxPhysical \in Nat /\ (d + 1) * MaxPhysical = d * MaxPhysical + MaxPhysical
  BY <1>1, <1>2
<1>4. d + 1 \in Nat
  OBVIOUS
<1> QED BY <1>1, <1>2, <1>3, <1>4

\* A fallback is attempted only when none was, and it is not answered by a cache;
\* then the flag, the transcript and the reserve change together.
LEMMA ParentTurnFlag ==
  ASSUME ReleaseInv, CausalInv, FlagInv, NEW e \in Experts,
         \/ Turn(e)
         \/ e = Fallback /\ RunFallback
         \/ e = Physics /\ VerifyFallback
  PROVE  /\ fallbackAttempted' <=> Ran(log')
         /\ FallbackOnce' /\ FallbackCallReserved'
         /\ Fallback \in cache' => fallbackAttempted'
         /\ fallbackAttempted => fallbackAttempted'
<1>1. log \in Seq(Message) /\ fallbackAttempted \in BOOLEAN /\ Len(log) \in Nat
  BY DEF ReleaseInv, TypeOK
<1>2. PICK m \in Message :
        /\ log' = Append(log, m) /\ m.expert = e
        /\ m.status = "REUSED" => e \in cache
        /\ cache' = Cached(cache, m)
        /\ fallbackAttempted' = (fallbackAttempted \/ Attempts(m))
  BY ParentTurn
<1>3. /\ Len(log') = Len(log) + 1 /\ log'[Len(log')] = m
      /\ \A t \in 1..Len(log) : log'[t] = log[t]
  BY <1>1, <1>2
<1>4. /\ \A t : t \in Turns(log') <=> t \in Turns(log) \/ t = Len(log')
      /\ \A t \in Turns(log) : log'[t] = log[t] /\ t # Len(log')
  BY <1>1, <1>3 DEF Turns
<1>5. e = Fallback => ~fallbackAttempted
  <2>1. Physics # Fallback
    BY DEF Physics, Fallback
  <2>2. CASE Turn(e)
    BY <2>2 DEF Turn, Feasible
  <2>3. CASE RunFallback
    BY <2>3 DEF RunFallback, CanAttempt
  <2> QED BY <2>1, <2>2, <2>3
<1>6. e = Fallback => Attempts(m)
  BY <1>2, <1>5 DEF Attempts, FlagInv
<1>7. fallbackAttempted' <=> fallbackAttempted \/ e = Fallback
  BY <1>1, <1>2, <1>6 DEF Attempts
<1>8. Ran(log') <=> Ran(log) \/ e = Fallback
  BY <1>2, <1>3, <1>4 DEF Ran
<1>9. fallbackAttempted' <=> Ran(log')
  BY <1>7, <1>8 DEF FlagInv
<1>10. FallbackOnce'
  <2> SUFFICES ASSUME NEW t \in Turns(log'), NEW u \in Turns(log'),
                      log'[t].expert = Fallback, log'[u].expert = Fallback
               PROVE  t = u
    BY DEF FallbackOnce, Turns
  <2>1. e = Fallback => \A v \in Turns(log) : log[v].expert # Fallback
    BY <1>5 DEF FlagInv, Ran
  <2>2. FallbackOnce
    BY DEF FlagInv
  <2> QED BY <1>2, <1>3, <1>4, <2>1, <2>2 DEF FallbackOnce
<1>11. Fallback \in cache' => fallbackAttempted'
  BY <1>2, <1>7 DEF Cached, FlagInv
<1>12. ASSUME ~fallbackAttempted'
       PROVE  PhysicalCalls(log') + ReservedCalls <= (depth' + 1) * MaxPhysical
  <2>1. ~fallbackAttempted /\ e # Fallback
    BY <1>7, <1>12
  <2>2. depth' = depth /\ depth \in Nat /\ Turn(e)
    <3>1. ~VerifyFallback
      BY <2>1 DEF FlagInv, VerifyFallback
    <3>2. Turn(e)
      BY <2>1, <3>1
    <3> QED BY <3>2 DEF Turn, ReleaseInv, TypeOK
  <2>3. PhysicalCalls(log) + ReservedCalls <= (depth + 1) * MaxPhysical
    BY <2>1, <2>2 DEF FlagInv, FallbackCallReserved
  <2>4. e \in Workers => PhysicalCalls(log) + ReservedCalls < MaxPhysical
    BY <2>2 DEF Turn, Feasible, RunLevel
  <2>5. e \notin Workers => m.expert \notin Callable
    BY <1>2, <2>1 DEF Callable
  <2>6. /\ PhysicalCalls(log) \in Nat /\ PhysicalCalls(log') \in Nat
        /\ PhysicalCalls(log') <= PhysicalCalls(log) + 1
        /\ m.expert \notin Callable => PhysicalCalls(log') = PhysicalCalls(log)
    BY <1>1, <1>2, AppendCalls
  <2>7. /\ MaxPhysical \in Nat /\ ReservedCalls \in Nat
        /\ (depth + 1) * MaxPhysical \in Nat /\ MaxPhysical <= (depth + 1) * MaxPhysical
    BY <2>2, CallBudgets, BudgetAssumption
  <2>8. PhysicalCalls(log') + ReservedCalls <= (depth + 1) * MaxPhysical
    <3> DEFINE budgets == (depth + 1) * MaxPhysical
               calls == PhysicalCalls(log)
               calls1 == PhysicalCalls(log')
    <3> HIDE DEF budgets, calls, calls1
    <3> QED BY <2>3, <2>4, <2>5, <2>6, <2>7 DEF budgets, calls, calls1
  <2> QED BY <2>2, <2>8
<1>13. FallbackCallReserved'
  BY <1>12 DEF FallbackCallReserved
<1> QED BY <1>7, <1>9, <1>10, <1>11, <1>13

\* Every step, and every stutter, keeps the flag true to the transcript.
LEMMA NextFlag == ReleaseInv /\ CausalInv /\ FlagInv /\ [Next]_vars => FlagInv'
<1> SUFFICES ASSUME ReleaseInv, CausalInv, FlagInv, [Next]_vars PROVE FlagInv'
  OBVIOUS
<1>1. /\ log \in Seq(Message) /\ childLog \in Seq(Message) /\ fallbackAttempted \in BOOLEAN
      /\ depth \in Nat
  BY DEF ReleaseInv, TypeOK
<1>2. ~Ran(<<>>)
  BY DEF Ran, Turns
<1>2a. PhysicalCalls(<<>>) <= MaxPhysical
  <2>1. Turns(<<>>) = {}
    BY DEF Turns
  <2>2. PhysicalCalls(<<>>) = 0
    BY <2>1, FS_EmptySet DEF PhysicalCalls
  <2> QED BY <2>2, BudgetAssumption
<1>3. ASSUME NEW e \in Experts, \/ Turn(e)
                                \/ e = Fallback /\ RunFallback
                                \/ e = Physics /\ VerifyFallback
      PROVE  FlagInv'
  <2>1. /\ fallbackAttempted' <=> Ran(log')
        /\ FallbackOnce' /\ FallbackCallReserved'
        /\ Fallback \in cache' => fallbackAttempted'
        /\ fallbackAttempted => fallbackAttempted'
    BY <1>3, ParentTurnFlag
  <2>2. childLog' = childLog \/ childLog' = <<>>
    BY <1>3 DEF Turn, AfterTurn, RunFallback, VerifyFallback, child
  <2>3. childCache' = childCache \/ childCache' = cache'
    BY <1>3 DEF Turn, AfterTurn, RunFallback, VerifyFallback, child
  <2>4. phase' = "verifying" => RunFallback
    BY <1>3 DEF Turn, AfterTurn, Release, RunFallback, VerifyFallback
  <2>5. RunFallback => fallbackAttempted'
    <3> SUFFICES ASSUME RunFallback PROVE fallbackAttempted'
      OBVIOUS
    <3>1. Fallback \in Experts
      BY DEF Experts
    <3>2. PICK m \in Message : log' = Append(log, m) /\ m.expert = Fallback
      BY <3>1, ParentTurn
    <3>3. Len(log') \in Turns(log') /\ log'[Len(log')] = m
      BY <1>1, <3>2 DEF Turns
    <3> QED BY <2>1, <3>2, <3>3 DEF Ran
  <2>6. ~Ran(childLog')
    BY <1>2, <2>2 DEF FlagInv, Ran, Turns
  <2>7. PhysicalCalls(childLog') <= MaxPhysical
    BY <1>2a, <2>2 DEF FlagInv
  <2> QED BY <2>1, <2>3, <2>4, <2>5, <2>6, <2>7 DEF FlagInv
<1>4. ASSUME NEW e \in Experts, ChildTurn(e) PROVE FlagInv'
  <2>1. PICK m \in Message :
          /\ childLog' = Append(childLog, m) /\ m.expert = e /\ e # Fallback
          /\ childCache' = Cached(childCache, m)
    BY <1>4, ChildsTurn
  <2>2. phase = "child" /\ phase' = phase /\ UNCHANGED parent
    BY <1>4 DEF ChildTurn, ChildRuns
  <2>3. Fallback \in childCache' => Fallback \in childCache
    BY <2>1 DEF Cached
  <2>4. ~Ran(childLog')
    <3>1. /\ Len(childLog) \in Nat /\ Len(childLog') = Len(childLog) + 1
          /\ childLog'[Len(childLog')] = m
          /\ \A t \in 1..Len(childLog) : childLog'[t] = childLog[t]
      BY <1>1, <2>1
    <3>2. \A t \in Turns(childLog') : t \in Turns(childLog) \/ t = Len(childLog')
      BY <3>1 DEF Turns
    <3> QED BY <2>1, <3>1, <3>2 DEF FlagInv, Ran, Turns
  <2>5. PhysicalCalls(childLog') <= MaxPhysical
    <3>1. /\ PhysicalCalls(childLog) \in Nat /\ PhysicalCalls(childLog') \in Nat
          /\ PhysicalCalls(childLog') <= PhysicalCalls(childLog) + 1
          /\ m.expert \notin Callable => PhysicalCalls(childLog') = PhysicalCalls(childLog)
      BY <1>1, <2>1, AppendCalls
    <3>2. e \in Workers => PhysicalCalls(childLog) < MaxPhysical
      <4>1. Feasible(childLog, ChildLevel, FALSE, e) /\ ChildLevel.calls = 0
        BY <1>4 DEF ChildTurn, ChildLevel
      <4>2. e \in Workers => PhysicalCalls(childLog) + ChildLevel.calls < MaxPhysical
        BY <4>1 DEF Feasible
      <4> QED BY <3>1, <4>1, <4>2
    <3>3. e \notin Workers => m.expert \notin Callable
      BY <2>1 DEF Callable
    <3> QED BY <3>1, <3>2, <3>3, BudgetAssumption DEF FlagInv
  <2> QED BY <2>2, <2>3, <2>4, <2>5 DEF FlagInv, FallbackOnce, FallbackCallReserved, parent, Ran
<1>5. CASE MergeChild
  <2>1. /\ log' = Merged /\ cache' = cache \cup childCache /\ childLog' = <<>>
        /\ childCache' = {} /\ depth' = depth + 1 /\ phase' # "verifying"
        /\ fallbackAttempted' = fallbackAttempted
    BY <1>5 DEF MergeChild, Release
  <2>2. \A t \in Turns(Merged) : Merged[t].expert = Fallback =>
                                    t \in Turns(log) /\ log[t].expert = Fallback
    <3>1. \A u \in 1..Len(childLog) : Merged[Len(log) + u].expert # Fallback
      <4> TAKE u \in 1..Len(childLog)
      <4>1. Merged[Len(log) + u] = Moved(childLog[u], Len(log)) /\ childLog[u] \in Message
        BY <1>1, MergedTurns
      <4>2. Len(log) \in Nat /\ childLog[u].expert # Fallback
        BY <1>1 DEF FlagInv, Ran, Turns
      <4> QED BY <4>1, <4>2, MovedMessage
    <3> QED BY <1>1, <3>1, MergedTurns DEF Turns
  <2>3. \A t \in Turns(log) : t \in Turns(Merged) /\ Merged[t] = log[t]
    <3>1. Len(log) \in Nat /\ Len(childLog) \in Nat
      BY <1>1
    <3> QED BY <1>1, <3>1, MergedTurns DEF Turns
  <2>4. Ran(Merged) <=> Ran(log)
    BY <2>2, <2>3 DEF Ran
  <2>5. FallbackOnce'
    BY <2>1, <2>2 DEF FlagInv, FallbackOnce, Turns
  <2>6. FallbackCallReserved'
    <3> SUFFICES ASSUME ~fallbackAttempted
                 PROVE  PhysicalCalls(Merged) + ReservedCalls <= (depth + 1 + 1) * MaxPhysical
      BY <2>1 DEF FallbackCallReserved
    <3>1. /\ PhysicalCalls(log) + ReservedCalls <= (depth + 1) * MaxPhysical
          /\ PhysicalCalls(childLog) <= MaxPhysical
      BY DEF FlagInv, FallbackCallReserved
    <3>2. /\ PhysicalCalls(log) \in Nat /\ PhysicalCalls(childLog) \in Nat
          /\ PhysicalCalls(Merged) \in Nat
          /\ PhysicalCalls(Merged) <= PhysicalCalls(log) + PhysicalCalls(childLog)
      BY <1>1, MergedCalls
    <3>3. /\ (depth + 1) * MaxPhysical \in Nat
          /\ (depth + 1 + 1) * MaxPhysical = (depth + 1) * MaxPhysical + MaxPhysical
          /\ MaxPhysical \in Nat /\ ReservedCalls \in Nat
      BY <1>1, CallBudgets, BudgetAssumption
    <3> DEFINE now == (depth + 1) * MaxPhysical
               then == (depth + 1 + 1) * MaxPhysical
    <3>4. then = now + MaxPhysical /\ now \in Nat
      BY <3>3
    <3>5. PhysicalCalls(log) + ReservedCalls <= now
      BY <3>1
    <3> HIDE DEF now, then
    <3>6. PhysicalCalls(Merged) + ReservedCalls <= then
      BY <3>1, <3>2, <3>3, <3>4, <3>5
    <3> QED BY <3>6 DEF then
  <2> QED BY <1>2, <1>2a, <2>1, <2>4, <2>5, <2>6 DEF FlagInv, Ran
<1>6. CASE Quiet
  <2>1. /\ UNCHANGED <<log, cache, fallbackAttempted, depth, childLog>>
        /\ childCache' = childCache \/ childCache' = {}
        /\ phase' = "verifying" => phase = "verifying"
    BY <1>6 DEF Quiet, DeadlinePasses, LeaveLoop, PolicyStops, EmptyChild, SkipFallback,
                GiveUp, vars, parent, child
  <2> QED BY <2>1 DEF FlagInv, FallbackOnce, FallbackCallReserved, Ran
<1> QED BY <1>3, <1>4, <1>5, <1>6, StepKinds

\* FlagInv holds throughout every run.
LEMMA FlagInvariant == Spec => []FlagInv
<1>1. Init => FlagInv
  <2> SUFFICES ASSUME Init PROVE FlagInv
    OBVIOUS
  <2>1. /\ log = <<>> /\ childLog = <<>> /\ cache = {} /\ childCache = {} /\ phase = "loop"
        /\ fallbackAttempted = FALSE
    BY DEF Init
  <2>1a. depth = 0
    BY DEF Init
  <2>2. Turns(<<>>) = {}
    BY DEF Turns
  <2>3. PhysicalCalls(<<>>) = 0
    BY <2>2, FS_EmptySet DEF PhysicalCalls
  <2>4. (depth + 1) * MaxPhysical = MaxPhysical
    BY <2>1a, BudgetAssumption
  <2> QED BY <2>1, <2>2, <2>3, <2>4, BudgetAssumption
          DEF FlagInv, Ran, FallbackOnce, FallbackCallReserved
<1> QED BY <1>1, NextFlag, CausalInvariant, ReleaseInvariant, PTL DEF Spec

\* The safe fallback runs at most once in a run, and the calls reserved for it are there
\* until it runs, within one budget of calls for the run and one for every merged child.
THEOREM FallbackOnceAndReserved == Spec => [](FallbackOnce /\ FallbackCallReserved)
<1>1. FlagInv => FallbackOnce /\ FallbackCallReserved
  BY DEF FlagInv
<1> QED BY <1>1, FlagInvariant, PTL

\* With turns in reserve, one is left until the fallback was attempted, and a run
\* that gives up in time attempted it.
ReserveInv ==
  /\ ~fallbackAttempted => Len(log) < turnLimit
  /\ phase = "done" /\ accepted = Nothing /\ ~expired => fallbackAttempted

\* A reserved action before the fallback ran would judge a candidate that rests on
\* the fallback: there is none, so the reserved turns are not spent.
LEMMA ReserveUntouched ==
  ASSUME ReleaseInv, CausalInv, FlagInv, ~fallbackAttempted,
         NEW e \in Experts, e # Fallback, Turn(e)
  PROVE  Len(log) + ReservedTurns < turnLimit
<1>1. log \in Seq(Message) /\ Len(log) \in Nat /\ turnLimit \in Nat /\ ReservedTurns \in Nat
  BY BudgetNumbers DEF ReleaseInv, TypeOK
<1>2. ~Ran(log) /\ Causal(log)
  BY DEF FlagInv, CausalInv
<1>3. \A c \in LatestCandidate(log) : Fallback \notin Leaves(log, c)
  <2> TAKE c \in LatestCandidate(log)
  <2>1. c \in 1..Len(log)
    BY LatestIsTurn DEF Turns
  <2>2. \A t \in 1..Len(log) : log[t].expert # Fallback
    BY <1>2 DEF Ran, Turns
  <2>3. log[c].access \subseteq 1..Len(log)
    <3>1. log[c].access \subseteq 1..(c - 1) /\ 1..(c - 1) \subseteq 1..Len(log)
      BY <1>1, <1>2, <2>1 DEF Causal, Turns
    <3> QED BY <3>1
  <2> QED BY <2>1, <2>2, <2>3 DEF Leaves
<1>4. ~ReservedFallbackAction(log, e)
  BY <1>3 DEF ReservedFallbackAction
<1>5. ~(TurnsLeft(log, turnLimit) <= ReservedTurns)
  BY <1>4 DEF Turn, Feasible, RunLevel
<1> QED BY <1>1, <1>5 DEF TurnsLeft

\* Every step, and every stutter, keeps a turn for the fallback, when there is one
\* in reserve.
LEMMA NextReserve ==
  ASSUME ReservedTurns > 0, ReleaseInv, ReleaseInv', CausalInv, BudgetInv, FlagInv,
         ReserveInv, [Next]_vars
  PROVE  ReserveInv'
<1>1. /\ log \in Seq(Message) /\ Len(log) \in Nat /\ turnLimit \in Nat
      /\ ReservedTurns \in Nat /\ fallbackAttempted \in BOOLEAN /\ phase \in Phases
  BY BudgetNumbers DEF ReleaseInv, TypeOK
<1>2. ASSUME NEW e \in Experts, \/ Turn(e)
                                \/ e = Fallback /\ RunFallback
                                \/ e = Physics /\ VerifyFallback
      PROVE  ReserveInv'
  <2>1. PICK m \in Message : log' = Append(log, m) /\ m.expert = e
    BY <1>2, ParentTurn
  <2>2. Len(log') = Len(log) + 1 /\ log' \in Seq(Message)
        /\ Len(log') \in Turns(log') /\ log'[Len(log')] = m
    BY <1>1, <2>1 DEF Turns
  <2>3. turnLimit' = turnLimit
    BY <1>2 DEF Turn, RunFallback, VerifyFallback, given
  <2>4. /\ fallbackAttempted' <=> Ran(log')
        /\ fallbackAttempted => fallbackAttempted'
    BY <1>2, ParentTurnFlag
  <2>5. e = Fallback => fallbackAttempted'
    BY <2>1, <2>2, <2>4 DEF Ran
  <2>6. VerifyFallback => fallbackAttempted'
    BY <2>4 DEF FlagInv, VerifyFallback
  <2>7. ~fallbackAttempted' => Turn(e) /\ Len(log') < turnLimit'
    BY <1>1, <1>2, <2>2, <2>3, <2>4, <2>5, <2>6, ReserveUntouched
  <2>8. ~fallbackAttempted' /\ phase' = "done" => accepted' # Nothing
    <3>1. Turn(e) /\ phase' = "done" =>
            \E c : accepted' = [candidate |-> c, verifier |-> Len(log')]
      BY DEF Turn, AfterTurn, Release
    <3>2. Len(log') # 0
      BY <1>1, <2>2
    <3> QED BY <2>7, <3>1, <3>2 DEF Nothing
  <2> QED BY <2>7, <2>8 DEF ReserveInv
<1>3. ASSUME NEW e \in Experts, ChildTurn(e) PROVE ReserveInv'
  <2>1. phase' = "child" /\ UNCHANGED <<log, fallbackAttempted, turnLimit>>
    BY <1>3 DEF ChildTurn, ChildRuns, parent, given
  <2> QED BY <2>1 DEF ReserveInv
<1>4. CASE MergeChild
  <2>1. /\ log' = Merged /\ childLog # <<>> /\ phase = "child"
        /\ UNCHANGED <<fallbackAttempted, turnLimit>>
    BY <1>4 DEF MergeChild, ChildLeaves, given
  <2>2. Len(log') = Len(log) + Len(childLog) /\ Len(childLog) \in Nat
    BY <2>1, MergedTurns DEF ReleaseInv, TypeOK
  <2>3. Len(log') < turnLimit
    BY <1>1, <2>1, <2>2 DEF BudgetInv, TurnBudgetKept
  <2>4. phase' = "done" => accepted' # Nothing
    <3>1. phase' = "done" => accepted'.verifier = Len(log')
      BY <1>4 DEF MergeChild, Release
    <3>2. Len(log') # 0
      <4>1. Len(childLog) > 0
        BY <2>1, <2>2 DEF ReleaseInv, TypeOK
      <4> QED BY <1>1, <2>2, <4>1
    <3> QED BY <3>1, <3>2 DEF Nothing
  <2> QED BY <2>1, <2>3, <2>4 DEF ReserveInv
<1>5. CASE GiveUp
  <2>1. UNCHANGED <<log, fallbackAttempted, turnLimit, expired>>
    BY <1>5 DEF GiveUp, parent, given
  <2>2. fallbackAttempted \/ expired \/ ~(TurnsLeft(log, turnLimit) > 0)
    BY <1>5 DEF GiveUp, CanAttempt
  <2>3. Len(log) < turnLimit => TurnsLeft(log, turnLimit) > 0
    BY <1>1 DEF TurnsLeft
  <2> QED BY <2>1, <2>2, <2>3 DEF ReserveInv
<1>6. CASE Quiet /\ ~GiveUp
  <2>1. UNCHANGED <<log, fallbackAttempted, turnLimit>>
    BY <1>6 DEF Quiet, DeadlinePasses, LeaveLoop, PolicyStops, EmptyChild, SkipFallback,
                vars, parent, given
  <2>2. phase' = "done" => UNCHANGED <<phase, accepted, expired>>
    BY <1>6 DEF Quiet, DeadlinePasses, LeaveLoop, PolicyStops, EmptyChild, SkipFallback,
                vars, ending, given
  <2> QED BY <2>1, <2>2 DEF ReserveInv
<1> QED BY <1>2, <1>3, <1>4, <1>5, <1>6, StepKinds

\* With at least one reserved turn (the code reserves two) the safe fallback is
\* tried before a run gives up in time, only once, and with its call kept for it.
\* Without a reserve the policy may spend every turn on other experts.
THEOREM FallbackIsKept ==
  ASSUME ReservedTurns > 0
  PROVE  Spec => []FallbackKept
<1>1. Init => ReserveInv
  <2> SUFFICES ASSUME Init PROVE ReserveInv
    OBVIOUS
  <2>1. log = <<>> /\ phase = "loop" /\ turnLimit \in Nat \ {0}
    BY BudgetAssumption DEF Init
  <2> QED BY <2>1 DEF ReserveInv
<1>2. /\ ReleaseInv /\ ReleaseInv' /\ CausalInv /\ BudgetInv /\ FlagInv /\ ReserveInv
      /\ [Next]_vars
      => ReserveInv'
  BY NextReserve
<1>3. FlagInv /\ ReserveInv => FallbackKept
  BY DEF FlagInv, ReserveInv, FallbackKept, FallbackBeforeGivingUp, Ran
<1> QED BY <1>1, <1>2, <1>3, ReleaseInvariant, CausalInvariant, BudgetInvariant,
           FlagInvariant, PTL DEF Spec
=============================================================================
